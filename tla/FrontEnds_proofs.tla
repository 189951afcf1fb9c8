-------------------------- MODULE FrontEnds_proofs --------------------------
(***************************************************************************)
(* Proofs about FrontEnds, for every file, audio, request and answer the   *)
(* constants allow.                                                        *)
(*                                                                         *)
(* GenInv is the invariant of text::generate, TInv that of transcribe, and *)
(* SpeechInv adds to it what the windows of a speech heard, TailInv that   *)
(* a seek has closed all its segments.                                     *)
(* What the recursive functions of the model return (a walk over a         *)
(* decode's tokens, the table of common runs, its backtrack, the merge of  *)
(* any number of texts) is shown by Iterates and CountsUp: a set of        *)
(* numbers has a least element, so what is true of 0 and passes from k - 1 *)
(* to k has no least exception.                                            *)
(***************************************************************************)
EXTENDS FrontEnds, SequenceTheorems, WellFoundedInduction, TLAPS
-----------------------------------------------------------------------------
(* Induction.  A predicate is given as the set of the numbers it is true of. *)

LEMMA LeastNumber ==
    ASSUME NEW T, T \subseteq Nat, T # {}
    PROVE  \E x \in T : \A y \in T : x <= y
<1> DEFINE R == OpToRel(<, Nat)
<1>1. IsWellFoundedOn(R, Nat)
  BY NatLessThanWellFounded
<1>2. ASSUME NEW x \in Nat, NEW y \in Nat, y < x PROVE <<y, x>> \in R
  BY <1>2 DEF OpToRel
<1> HIDE DEF R
<1>3. PICK x \in T : \A y \in T : ~ (<<y, x>> \in R)
  BY <1>1, WFMin
<1>4. ASSUME NEW y \in T PROVE x <= y
  <2>1. x \in Nat /\ y \in Nat
    OBVIOUS
  <2>2. ~ (y < x)
    BY <1>2, <1>3, <2>1
  <2> QED BY <2>1, <2>2
<1> QED BY <1>4

LEMMA CountsUp ==
    ASSUME NEW n \in Nat, NEW T, 0 \in T, \A k \in 1 .. n : k - 1 \in T => k \in T
    PROVE  \A k \in 0 .. n : k \in T
<1> DEFINE Out == {k \in 0 .. n : k \notin T}
<1> SUFFICES ASSUME Out # {} PROVE FALSE
  OBVIOUS
<1>1. Out \subseteq Nat
  OBVIOUS
<1>2. PICK x \in Out : \A y \in Out : x <= y
  BY <1>1, LeastNumber
<1>3. x \in 0 .. n /\ x \notin T
  OBVIOUS
<1>4. x \in 1 .. n
  BY <1>3
<1>5. x - 1 \in 0 .. n /\ x - 1 < x
  BY <1>4
<1>6. x - 1 \in T
  BY <1>2, <1>5
<1> QED BY <1>3, <1>4, <1>6
-----------------------------------------------------------------------------
(* text::generate *)

Token == {Word} \cup UNION {Elements(s) : s \in StopSets}

\* n is where a generation ends that stops on S.
StopsAt(n, S) ==
    /\ n \in 1 .. Len(greedy)
    /\ greedy[n] \in S \/ n >= max_new
    /\ \A j \in 1 .. n - 1 : ~(greedy[j] \in S \/ j >= max_new)

\* What the driver, or the loop for it, stops on.
Stops == IF shape = "number" THEN {Eos}
         ELSE {Eos} \cup {stop_ids[i] : i \in 2 .. Len(stop_ids)}

\* The first n ids of the greedy sequence.
IsHead(ids, n) ==
    /\ ids \in Seq(Token) /\ Len(ids) = n
    /\ \A j \in 1 .. n : ids[j] = greedy[j]

OptionsOK ==
    /\ stop_ids \in StopSets
    /\ shape \in Shapes
    /\ eos_token \in {FromFile, NoStop} \cup NamedStops
    /\ strip_eos \in BOOLEAN
    /\ max_new \in 0 .. MaxNew
    /\ greedy \in [1 .. MaxNew + 1 -> Token]

Generation ==
    \/ state = "first"
    \/ /\ state = "loop" /\ shape = "number" /\ running \in 1 .. MaxNew + 1
       /\ IsHead(generated, running)
       /\ \A j \in 1 .. running - 1 : ~(greedy[j] \in Stops \/ j >= max_new)
    \/ /\ state = "strip"
       /\ shape # "echo" => \E n \in Nat : StopsAt(n, Stops) /\ IsHead(generated, n)
    \/ /\ state = "done"
       /\ shape # "echo" => \E n \in Nat :
            /\ StopsAt(n, Stops)
            /\ IsHead(generated,
                      IF strip_eos /\ greedy[n] \in StripIds THEN n - 1 ELSE n)
    \/ state = "refused" /\ shape = "echo"

GenInv == IF door = "generate" THEN OptionsOK /\ Generation ELSE state = "first"

\* Every sequence has a place where it ends, and no other.
LEMMA SomeStop ==
    ASSUME OptionsOK, NEW S
    PROVE  /\ \E n \in Nat : StopsAt(n, S)
           /\ \A n, k \in Nat : StopsAt(n, S) /\ StopsAt(k, S) => n = k
<1>1. MaxNew \in Nat /\ Len(greedy) = MaxNew + 1 /\ max_new \in 0 .. MaxNew
  BY TokenAssumption DEF OptionsOK
<1> DEFINE T == {k \in 1 .. Len(greedy) : greedy[k] \in S \/ k >= max_new}
<1>2. MaxNew + 1 \in T /\ T \subseteq Nat
  BY <1>1
<1>3. PICK n \in T : \A y \in T : n <= y
  BY <1>2, LeastNumber
<1>4. StopsAt(n, S)
  <2>1. n \in 1 .. Len(greedy) /\ (greedy[n] \in S \/ n >= max_new)
    OBVIOUS
  <2>2. ASSUME NEW j \in 1 .. n - 1, greedy[j] \in S \/ j >= max_new PROVE FALSE
    <3>1. j \in T /\ j < n
      BY <2>1, <2>2, <1>1
    <3> QED BY <3>1, <1>3, <1>1
  <2> QED BY <2>1, <2>2 DEF StopsAt
<1>5. ASSUME NEW m \in Nat, NEW k \in Nat, StopsAt(m, S), StopsAt(k, S) PROVE m = k
  <2>1. ~(m < k) /\ ~(k < m)
    BY <1>5 DEF StopsAt
  <2> QED BY <2>1
<1> QED BY <1>2, <1>4, <1>5

\* The driver's own loop.
LEMMA DriverStops ==
    ASSUME OptionsOK, shape # "number", NEW n \in Nat, StopsAt(n, Stops)
    PROVE  DriverLoop = SubSeq(greedy, 1, n)
<1> DEFINE S == {Eos} \cup {stop_ids[i] : i \in 2 .. Len(stop_ids)}
           End(k) == (greedy[k] \in S \/ k >= max_new)
                     /\ \A j \in 1 .. k - 1 : ~(greedy[j] \in S \/ j >= max_new)
<1>1. Stops = S
  BY DEF Stops
<1>2. n \in 1 .. Len(greedy) /\ End(n)
  BY <1>1 DEF StopsAt
<1>3. ASSUME NEW k \in 1 .. Len(greedy), End(k) PROVE k = n
  <2>1. StopsAt(k, S) /\ StopsAt(n, S) /\ k \in Nat
    BY <1>1, <1>2, <1>3 DEF StopsAt
  <2> QED BY <2>1, SomeStop
<1>4. (CHOOSE k \in 1 .. Len(greedy) : End(k)) = n
  BY <1>2, <1>3
<1>5. DriverLoop = SubSeq(greedy, 1, CHOOSE k \in 1 .. Len(greedy) : End(k))
  BY DEF DriverLoop
<1> QED BY <1>4, <1>5

\* What the caller is promised, by where it ends.
LEMMA PromisedEnds ==
    ASSUME OptionsOK, NEW n \in Nat, StopsAt(n, EndIds)
    PROVE  Promised = IF strip_eos /\ greedy[n] \in EndIds
                      THEN SubSeq(greedy, 1, n - 1) ELSE SubSeq(greedy, 1, n)
<1> DEFINE End(k) == (greedy[k] \in EndIds \/ k >= max_new)
                     /\ \A j \in 1 .. k - 1 : ~(greedy[j] \in EndIds \/ j >= max_new)
<1>2. n \in 1 .. Len(greedy) /\ End(n)
  BY DEF StopsAt
<1>3. ASSUME NEW k \in 1 .. Len(greedy), End(k) PROVE k = n
  <2>1. StopsAt(k, EndIds) /\ k \in Nat
    BY <1>2, <1>3 DEF StopsAt
  <2> QED BY <2>1, SomeStop
<1>4. (CHOOSE k \in 1 .. Len(greedy) : End(k)) = n
  BY <1>2, <1>3
<1> DEFINE m == CHOOSE k \in 1 .. Len(greedy) : End(k)
<1>5. Promised = IF strip_eos /\ greedy[m] \in EndIds
                 THEN SubSeq(greedy, 1, m - 1) ELSE SubSeq(greedy, 1, m)
  BY DEF Promised
<1>6. m = n
  BY <1>4
<1> HIDE DEF m
<1> QED BY <1>5, <1>6

LEMMA HeadIsSubSeq ==
    ASSUME OptionsOK, NEW n \in 0 .. Len(greedy)
    PROVE  /\ IsHead(SubSeq(greedy, 1, n), n)
           /\ \A ids : IsHead(ids, n) => ids = SubSeq(greedy, 1, n)
<1>1. MaxNew \in Nat /\ Len(greedy) = MaxNew + 1
  BY TokenAssumption DEF OptionsOK
<1>2. \A i \in 1 .. n : greedy[i] \in Token
  BY <1>1 DEF OptionsOK
<1> DEFINE h == SubSeq(greedy, 1, n)
<1>3. /\ h \in Seq(Token) /\ Len(h) = (IF 1 <= n THEN n - 1 + 1 ELSE 0)
      /\ \A i \in 1 .. n - 1 + 1 : h[i] = greedy[1 + i - 1]
  BY <1>1, <1>2, SubSeqProperties
<1> HIDE DEF h
<1>4. IsHead(h, n)
  BY <1>1, <1>3 DEF IsHead
<1>5. ASSUME NEW ids, IsHead(ids, n) PROVE ids = h
  <2>1. ids \in Seq(Token) /\ Len(ids) = Len(h) /\ \A i \in 1 .. Len(ids) : ids[i] = h[i]
    BY <1>4, <1>5 DEF IsHead
  <2> QED BY <2>1, <1>3, SeqEqual
<1> QED BY <1>4, <1>5 DEF h

-----------------------------------------------------------------------------
LEMMA GenInitInv == DoorInit => GenInv
<1> SUFFICES ASSUME DoorInit PROVE GenInv
  OBVIOUS
<1>1. CASE door = "generate" /\ GenInit
  BY <1>1 DEF GenInv, GenInit, GenFresh, OptionsOK, Generation, Token
<1>2. CASE door = "transcribe" /\ NoGeneration
  BY <1>2 DEF GenInv, NoGeneration, GenFresh
<1> QED BY <1>1, <1>2 DEF DoorInit

LEMMA FirstListInv ==
    ASSUME OptionsOK, FirstList, UNCHANGED door
    PROVE  Generation'
<1> DEFINE ids == IF shape = "echo" THEN <<Word>> \o DriverLoop ELSE DriverLoop
<1>1. /\ shape \in {"list", "echo"} /\ UNCHANGED <<options, running>>
      /\ IF Len(ids) > Ceiling
         THEN state' = "refused" /\ UNCHANGED generated
         ELSE state' = "strip" /\ generated' = ids
  BY DEF FirstList
<1>2. MaxNew \in Nat /\ Len(greedy) = MaxNew + 1 /\ max_new \in 0 .. MaxNew
  BY TokenAssumption DEF OptionsOK
<1>3. CASE shape = "echo"
  <2>1. shape' = "echo"
    BY <1>1, <1>3 DEF options
  <2> QED BY <1>1, <2>1 DEF Generation
<1>4. CASE shape = "list"
  <2>1. PICK n \in Nat : StopsAt(n, Stops)
    BY SomeStop
  <2>2. n \in 1 .. Len(greedy)
    BY <2>1 DEF StopsAt
  <2>3. DriverLoop = SubSeq(greedy, 1, n)
    BY <1>4, <2>1, DriverStops
  <2>4. IsHead(DriverLoop, n)
    BY <2>2, <2>3, HeadIsSubSeq, <1>2
  <2>5. ids = DriverLoop
    BY <1>4
  <2> HIDE DEF ids
  <2>6. ~(Len(ids) > Ceiling)
    <3>1. Len(ids) = n
      BY <2>4, <2>5 DEF IsHead
    <3>2. n > 1 => ~(n - 1 >= max_new)
      BY <2>1, <2>2, <1>2 DEF StopsAt
    <3> QED BY <3>1, <3>2, <2>2, <1>2 DEF Ceiling
  <2>7. state' = "strip" /\ generated' = DriverLoop
    BY <1>1, <2>5, <2>6
  <2>8. StopsAt(n, Stops)'
    BY <1>1, <2>1 DEF options, StopsAt, Stops, Eos
  <2>9. IsHead(generated, n)'
    BY <1>1, <2>4, <2>7 DEF options, IsHead
  <2> QED BY <2>7, <2>8, <2>9 DEF Generation
<1> QED BY <1>1, <1>3, <1>4

LEMMA LoopInv ==
    ASSUME OptionsOK, Generation, FirstNumber \/ NextNumber \/ LoopEnds, UNCHANGED door
    PROVE  Generation'
<1>1. MaxNew \in Nat /\ Len(greedy) = MaxNew + 1 /\ max_new \in 0 .. MaxNew
  BY TokenAssumption DEF OptionsOK
<1>2. ASSUME NEW k \in 1 .. MaxNew + 1 PROVE greedy[k] \in Token
  BY DEF OptionsOK
<1>3. CASE FirstNumber
  <2>1. /\ state' = "loop" /\ shape' = "number" /\ running' = 1
        /\ generated' = <<greedy[1]>> /\ greedy' = greedy
    BY <1>3 DEF FirstNumber, options
  <2>2. greedy[1] \in Token
    BY <1>1, <1>2
  <2>3. IsHead(generated, running)'
    BY <2>1, <2>2 DEF IsHead
  <2> QED BY <2>1, <2>3, <1>1 DEF Generation
<1>4. CASE NextNumber
  <2>1. /\ state' = "loop" /\ running' = running + 1 /\ UNCHANGED options
        /\ generated' = Append(generated, greedy[running + 1])
        /\ state = "loop" /\ GoesOn
    BY <1>4 DEF NextNumber
  <2>2. /\ shape = "number" /\ running \in 1 .. MaxNew + 1
        /\ IsHead(generated, running)
        /\ \A j \in 1 .. running - 1 : ~(greedy[j] \in Stops \/ j >= max_new)
    BY <2>1 DEF Generation
  <2>3. Len(generated) = running /\ generated \in Seq(Token)
        /\ \A j \in 1 .. running : generated[j] = greedy[j]
    BY <2>2 DEF IsHead
  <2>4. running < max_new /\ greedy[running] # Eos
    BY <2>1, <2>2, <2>3 DEF GoesOn
  <2>5. running + 1 \in 1 .. MaxNew + 1
    BY <2>2, <2>4, <1>1
  <2>6. greedy[running + 1] \in Token
    BY <2>5, <1>2
  <2> DEFINE more == Append(generated, greedy[running + 1])
  <2>7. /\ more \in Seq(Token) /\ Len(more) = running + 1
        /\ \A i \in 1 .. running : more[i] = generated[i]
        /\ more[running + 1] = greedy[running + 1]
    BY <2>3, <2>6, AppendProperties
  <2> HIDE DEF more
  <2>8. IsHead(more, running + 1)
    BY <2>2, <2>3, <2>7, <1>1 DEF IsHead
  <2>9. ASSUME NEW j \in 1 .. running PROVE ~(greedy[j] \in Stops \/ j >= max_new)
    BY <2>2, <2>4, <1>1 DEF Stops
  <2>10. IsHead(generated, running)' /\ shape' = "number" /\ greedy' = greedy
         /\ max_new' = max_new /\ Stops' = Stops /\ generated' = more
    BY <2>1, <2>2, <2>8 DEF IsHead, options, Stops, Eos, more
  <2>11. \A j \in 1 .. running' - 1 : ~(greedy'[j] \in Stops' \/ j >= max_new')
    BY <2>1, <2>2, <2>9, <2>10
  <2> QED BY <2>1, <2>5, <2>10, <2>11 DEF Generation
<1>5. CASE LoopEnds
  <2>1. /\ state = "loop" /\ ~GoesOn /\ state' = "strip"
        /\ UNCHANGED <<options, running, generated>>
    BY <1>5 DEF LoopEnds
  <2>2. /\ shape = "number" /\ running \in 1 .. MaxNew + 1
        /\ IsHead(generated, running)
        /\ \A j \in 1 .. running - 1 : ~(greedy[j] \in Stops \/ j >= max_new)
    BY <2>1 DEF Generation
  <2>3. Len(generated) = running /\ generated[running] = greedy[running]
    BY <2>2 DEF IsHead
  <2>4. StopsAt(running, Stops)
    <3>1. greedy[running] \in Stops \/ running >= max_new
      BY <2>1, <2>2, <2>3, <1>1 DEF GoesOn, Stops
    <3> QED BY <3>1, <2>2, <1>1 DEF StopsAt
  <2>5. StopsAt(running, Stops)' /\ IsHead(generated, running)' /\ running' \in Nat
    BY <2>1, <2>2, <2>4 DEF options, StopsAt, IsHead, Stops, Eos
  <2> QED BY <2>1, <2>5 DEF Generation
<1> QED BY <1>3, <1>4, <1>5

LEMMA StripInv ==
    ASSUME OptionsOK, Generation, Strip, UNCHANGED door
    PROVE  Generation'
<1> DEFINE k == Len(generated)
<1>1. /\ state = "strip" /\ state' = "done" /\ UNCHANGED <<options, running>>
      /\ generated' = IF strip_eos /\ k > 0 /\ generated[k] \in StripIds
                      THEN SubSeq(generated, 1, k - 1) ELSE generated
  BY DEF Strip
<1>2. MaxNew \in Nat /\ Len(greedy) = MaxNew + 1
  BY TokenAssumption DEF OptionsOK
<1>3. CASE shape = "echo"
  BY <1>1, <1>3 DEF Generation, options
<1>4. CASE shape # "echo"
  <2>1. PICK n \in Nat : StopsAt(n, Stops) /\ IsHead(generated, n)
    BY <1>1, <1>4 DEF Generation
  <2>2. n \in 1 .. MaxNew + 1 /\ k = n /\ generated[n] = greedy[n]
        /\ generated \in Seq(Token) /\ \A j \in 1 .. n : generated[j] = greedy[j]
    BY <2>1, <1>2 DEF StopsAt, IsHead
  <2> DEFINE m == IF strip_eos /\ greedy[n] \in StripIds THEN n - 1 ELSE n
  <2>3. IsHead(generated', m)
    <3>1. CASE strip_eos /\ greedy[n] \in StripIds
      <4>1. generated' = SubSeq(generated, 1, n - 1) /\ m = n - 1
        BY <1>1, <2>2, <3>1
      <4>2. \A i \in 1 .. n - 1 : generated[i] \in Token
        BY <2>2
      <4> DEFINE h == SubSeq(generated, 1, n - 1)
      <4>3. /\ h \in Seq(Token) /\ Len(h) = (IF 1 <= n - 1 THEN n - 1 - 1 + 1 ELSE 0)
            /\ \A i \in 1 .. n - 1 - 1 + 1 : h[i] = generated[1 + i - 1]
        BY <4>2, <2>2, SubSeqProperties
      <4> HIDE DEF h, m
      <4>4. IsHead(h, n - 1)
        BY <4>3, <2>2 DEF IsHead
      <4> QED BY <4>1, <4>4 DEF h
    <3>2. CASE ~(strip_eos /\ greedy[n] \in StripIds)
      <4>1. generated' = generated /\ m = n
        BY <1>1, <2>2, <3>2
      <4> QED BY <4>1, <2>1
    <3> QED BY <3>1, <3>2
  <2>4. StopsAt(n, Stops)'
    BY <1>1, <2>1 DEF options, StopsAt, Stops, Eos
  <2>5. /\ strip_eos' = strip_eos /\ greedy' = greedy /\ StripIds' = StripIds
    BY <1>1 DEF options, StripIds
  <2>6. IsHead(generated, IF strip_eos /\ greedy[n] \in StripIds THEN n - 1 ELSE n)'
    BY <2>3, <2>5 DEF IsHead
  <2> QED BY <1>1, <2>4, <2>6 DEF Generation
<1> QED BY <1>3, <1>4

LEMMA GenStepInv == GenInv /\ [DoorNext]_doorVars => GenInv'
<1> SUFFICES ASSUME GenInv, [DoorNext]_doorVars PROVE GenInv'
  OBVIOUS
<1>1. CASE UNCHANGED <<genVars, door>>
  <2>1. Generation' <=> Generation
    BY <1>1 DEF genVars, options, Generation, StopsAt, IsHead, Stops, StripIds, Eos
  <2>2. OptionsOK' <=> OptionsOK
    BY <1>1 DEF genVars, options, OptionsOK
  <2> QED BY <1>1, <2>1, <2>2 DEF GenInv, genVars
<1>2. CASE CallGenerate
  <2>1. door = "generate" /\ GenNext /\ UNCHANGED door /\ OptionsOK /\ Generation
    BY <1>2 DEF CallGenerate, GenInv
  <2>2. Generation'
    BY <2>1, FirstListInv, LoopInv, StripInv DEF GenNext
  <2>3. UNCHANGED options
    BY <2>1 DEF GenNext, FirstList, FirstNumber, NextNumber, LoopEnds, Strip
  <2>4. OptionsOK'
    BY <2>1, <2>3 DEF options, OptionsOK
  <2> QED BY <2>1, <2>2, <2>4 DEF GenInv
<1> QED BY <1>1, <1>2 DEF DoorNext, CallTranscribe, doorVars

\* Token ids are not negative, so NoStop stops nothing.
LEMMA StopsAreEndIds ==
    ASSUME OptionsOK, shape # "echo", OneAnswer,
           NEW t \in Token
    PROVE  (t \in Stops <=> t \in EndIds) /\ (t \in StripIds <=> t \in EndIds)
<1>1. stop_ids \in Seq(Nat)
  BY TokenAssumption DEF OptionsOK
<1>2. Len(stop_ids) \in Nat /\ DOMAIN stop_ids = 1 .. Len(stop_ids)
      /\ \A i \in 1 .. Len(stop_ids) : stop_ids[i] \in Nat
  BY <1>1, LenProperties, ElementOfSeq
<1>3. t \in Nat
  <2>1. CASE t = Word
    BY <2>1, TokenAssumption
  <2>2. CASE t \in UNION {Elements(s) : s \in StopSets}
    <3>1. PICK s \in StopSets : t \in Elements(s)
      BY <2>2
    <3>2. s \in Seq(Nat)
      BY TokenAssumption
    <3> QED BY <3>1, <3>2, LenProperties, ElementOfSeq DEF Elements
  <2> QED BY <2>1, <2>2 DEF Token
<1>4. t \in Elements(stop_ids) <=> \E i \in 1 .. Len(stop_ids) : t = stop_ids[i]
  BY <1>2 DEF Elements
<1>5. stop_ids = << >> <=> Len(stop_ids) = 0
  BY <1>1, EmptySeq
<1>6. t # NoStop
  BY <1>3 DEF NoStop
<1>7. t \in StripIds <=> t \in EndIds
  BY <1>6 DEF StripIds, EndIds
<1>8. CASE eos_token = FromFile
  <2>1. Eos = IF stop_ids = << >> THEN NoStop ELSE stop_ids[1]
    BY <1>8 DEF Eos
  <2>2. t = Eos <=> Len(stop_ids) > 0 /\ t = stop_ids[1]
    BY <2>1, <1>5, <1>6, <1>2
  <2>3. t \in Stops <=> \E i \in 1 .. Len(stop_ids) : t = stop_ids[i]
    <3>1. CASE shape = "number"
      <4>1. Len(stop_ids) <= 1
        BY <1>8, <3>1 DEF OneAnswer
      <4> QED BY <3>1, <4>1, <2>2, <1>2 DEF Stops
    <3>2. CASE shape # "number"
      <4>1. t \in Stops <=> t = Eos \/ \E i \in 2 .. Len(stop_ids) : t = stop_ids[i]
        BY <3>2 DEF Stops
      <4> QED BY <4>1, <2>2, <1>2
    <3> QED BY <3>1, <3>2
  <2> QED BY <1>4, <1>7, <1>8, <2>3 DEF EndIds
<1>9. CASE eos_token # FromFile
  <2>1. (Len(stop_ids) <= 1 \/ shape = "number") /\ Eos = eos_token
    BY <1>9 DEF Eos, OneAnswer
  <2>2. t \in Stops <=> t = eos_token
    BY <2>1, <1>2 DEF Stops
  <2> QED BY <1>6, <1>7, <1>9, <2>2 DEF EndIds
<1> QED BY <1>8, <1>9

LEMMA PromiseKept ==
    ASSUME GenInv, state = "done" /\ shape # "echo", OneAnswer
    PROVE  generated = Promised
<1>1. OptionsOK /\ Generation
  BY DEF GenInv
<1>2. MaxNew \in Nat /\ Len(greedy) = MaxNew + 1
  BY <1>1, TokenAssumption DEF OptionsOK
<1> DEFINE Count(n) == IF strip_eos /\ greedy[n] \in StripIds THEN n - 1 ELSE n
<1>3. PICK n \in Nat : StopsAt(n, Stops) /\ IsHead(generated, Count(n))
  BY <1>1 DEF Generation
<1>4. n \in 1 .. MaxNew + 1
  BY <1>2, <1>3 DEF StopsAt
<1>5. ASSUME NEW j \in 1 .. n
      PROVE  (greedy[j] \in Stops <=> greedy[j] \in EndIds)
             /\ (greedy[j] \in StripIds <=> greedy[j] \in EndIds)
  <2>1. greedy \in [1 .. MaxNew + 1 -> Token] /\ j \in 1 .. MaxNew + 1
    BY <1>1, <1>2, <1>4 DEF OptionsOK
  <2>2. greedy[j] \in Token
    BY <2>1
  <2> QED BY <2>2, <1>1, StopsAreEndIds
<1>6. StopsAt(n, EndIds)
  BY <1>3, <1>4, <1>5 DEF StopsAt
<1>7. Promised = IF strip_eos /\ greedy[n] \in EndIds
                 THEN SubSeq(greedy, 1, n - 1) ELSE SubSeq(greedy, 1, n)
  BY <1>1, <1>6, PromisedEnds
<1>8. Promised = SubSeq(greedy, 1, Count(n)) /\ Count(n) \in 0 .. Len(greedy)
  BY <1>2, <1>4, <1>5, <1>7
<1> HIDE DEF Count
<1> QED BY <1>1, <1>3, <1>8, HeadIsSubSeq

\* A driver of either shape gives the caller the promised ids, whatever the bound and the
\* model's sequence, when what stops its loop is all that ends generation (OneAnswer): a
\* file with one stop id at most, or with several, told to a list driver, or replaced by the
\* caller's for a one-token driver (text_generate.h:78-80).
THEOREM ShapesGiveTheSame == DoorSpec => []SameIdsEitherShape
<1>1. DoorInit => GenInv
  BY GenInitInv
<1>2. GenInv /\ [DoorNext]_doorVars => GenInv'
  BY GenStepInv
<1>3. GenInv => SameIdsEitherShape
  BY PromiseKept DEF SameIdsEitherShape
<1> QED BY <1>1, <1>2, <1>3, PTL DEF DoorSpec

\* The check on the length of a driver's list refuses none that conforms:
\* text_generate.cpp:124-130.
THEOREM ConformingAreServed == DoorSpec => []ConformingNotRefused
<1>1. DoorInit => GenInv
  BY GenInitInv
<1>2. GenInv /\ [DoorNext]_doorVars => GenInv'
  BY GenStepInv
<1>3. GenInv => ConformingNotRefused
  BY DEF GenInv, Generation, ConformingNotRefused
<1> QED BY <1>1, <1>2, <1>3, PTL DEF DoorSpec
-----------------------------------------------------------------------------
(* The plans *)

LEMMA DivMod ==
    ASSUME NEW a \in Nat, NEW k \in Nat \ {0}
    PROVE  /\ a = k * (a \div k) + (a % k)
           /\ (a % k) \in 0 .. k - 1
           /\ (a \div k) \in Nat
    OBVIOUS

LEMMA CeilDivBounds ==
    ASSUME NEW a \in Nat, NEW b \in Nat \ {0}
    PROVE  /\ CeilDiv(a, b) \in Nat
           /\ a <= b * CeilDiv(a, b) /\ b * CeilDiv(a, b) < a + b
           /\ a > 0 => CeilDiv(a, b) > 0
<1> DEFINE q == (a + b - 1) \div b
           r == (a + b - 1) % b
<1>1. a + b - 1 \in Nat
  OBVIOUS
<1>2. a + b - 1 = b * q + r /\ r \in 0 .. b - 1 /\ q \in Nat
  BY <1>1, DivMod
<1> HIDE DEF q, r
<1>3. b * q \in Nat
  BY <1>2
<1>4. a <= b * q /\ b * q < a + b
  BY <1>2, <1>3
<1>5. a > 0 => q > 0
  BY <1>2, <1>4
<1>6. CeilDiv(a, b) = q
  BY DEF CeilDiv, q
<1> QED BY <1>2, <1>4, <1>5, <1>6

\* A multiple that is more than another is more by at least the factor.
LEMMA MulMono ==
    ASSUME NEW s \in Nat, NEW a \in Int, NEW b \in Int, a <= b
    PROVE  s * a \in Int /\ s * b \in Int /\ s * a <= s * b /\ s * (a + 1) = s * a + s
<1>1. PICK d \in Nat : b = a + d
  <2>1. b - a \in Nat /\ b = a + (b - a)
    OBVIOUS
  <2> QED BY <2>1
<1>2. s * b = s * a + s * d /\ s * d \in Nat
  BY <1>1
<1>3. s * a \in Int /\ s * b \in Int /\ s * (a + 1) = s * a + s
  OBVIOUS
<1> QED BY <1>2, <1>3

WindowType == [start : Nat, real : Nat, padded : Nat]

\* How far the first k windows reach.
Reach(windows_, k) == IF k = 0 THEN 0 ELSE Ends(windows_[k])

\* Every window starts where the ones before it reach, or earlier, and goes on.
Chained(windows_) ==
    /\ windows_ \in Seq(WindowType)
    /\ \A k \in 1 .. Len(windows_) :
         /\ windows_[k].start <= Reach(windows_, k - 1)
         /\ Reach(windows_, k - 1) <= Reach(windows_, k)
         /\ windows_[k].real <= windows_[k].padded

\* What a plan of windows promises.
Planned(windows_, total, overlap) ==
    /\ Chained(windows_) /\ Len(windows_) \in Nat /\ Len(windows_) > 0
    /\ Reach(windows_, Len(windows_)) = total
    /\ Len(windows_) > 1 => Covers(windows_, total, overlap)

LEMMA IsSequence ==
    ASSUME NEW S, NEW n \in Nat, NEW f \in [1 .. n -> S]
    PROVE  f \in Seq(S) /\ Len(f) = n
<1>1. f \in Seq(S)
  BY SeqDef
<1>2. Len(f) \in Nat /\ DOMAIN f = 1 .. Len(f)
  BY <1>1, LenProperties
<1>3. DOMAIN f = 1 .. n
  OBVIOUS
<1>4. Len(f) = n
  BY <1>2, <1>3
<1> QED BY <1>1, <1>4

LEMMA WholeIsChained ==
    ASSUME NEW total \in Nat
    PROVE  Len(Whole(total)) = 1 /\ \A overlap : Planned(Whole(total), total, overlap)
<1> DEFINE w == Window(0, total, total)
<1>1. w \in WindowType /\ w.start = 0 /\ w.real = total /\ w.padded = total
  BY DEF Window, WindowType
<1> HIDE DEF w
<1>2. <<w>> \in Seq(WindowType) /\ Len(<<w>>) = 1 /\ <<w>>[1] = w
  BY <1>1
<1>3. Whole(total) = <<w>>
  BY DEF Whole, w
<1> QED BY <1>1, <1>2, <1>3 DEF Chained, Reach, Ends, Planned

LEMMA CutIsChained ==
    ASSUME NEW total \in Nat, NEW len \in Nat, NEW overlap \in Nat,
           0 < overlap, overlap < len, len < total
    PROVE  Planned(Cut(total, len, overlap), total, overlap)
<1> DEFINE s == len - overlap
           n == CeilDiv(total - overlap, s)
           c == Cut(total, len, overlap)
<1>1. s \in Nat \ {0} /\ total - overlap \in Nat /\ total - overlap > 0
  OBVIOUS
<1>2. n \in Nat /\ total - overlap <= s * n /\ s * n < total - overlap + s /\ n > 0
  BY <1>1, CeilDivBounds
<1> DEFINE at(k) == s * (k - 1)
           end(k) == IF at(k) + len <= total THEN at(k) + len ELSE total
<1>3. c = [k \in 1 .. n |-> Window(at(k), end(k) - at(k), len)]
  BY DEF Cut, WindowCount
<1> HIDE DEF n, s, c
<1>4. ASSUME NEW k \in 1 .. n
      PROVE  /\ at(k) \in Nat /\ s * k \in Nat /\ s * k = at(k) + s
             /\ at(k) < total - overlap
             /\ k < n => s * k < total - overlap
             /\ k = n => s * k >= total - overlap
  <2>1. s * 0 = 0
    BY <1>1
  <2>2. at(k) \in Int /\ 0 <= at(k) /\ s * k = at(k) + s
    <3>1. k - 1 \in Int /\ 0 <= k - 1
      BY <1>2
    <3>2. s * 0 <= s * (k - 1) /\ s * (k - 1) \in Int /\ s * ((k - 1) + 1) = s * (k - 1) + s
      BY <1>1, <3>1, MulMono
    <3>3. (k - 1) + 1 = k
      BY <1>2
    <3> QED BY <2>1, <3>2, <3>3
  <2>3. at(k) <= at(n) /\ at(n) \in Int /\ s * n = at(n) + s
    <3>1. k - 1 \in Int /\ n - 1 \in Int /\ k - 1 <= n - 1
      BY <1>2
    <3>2. s * (k - 1) <= s * (n - 1) /\ s * (n - 1) \in Int
          /\ s * ((n - 1) + 1) = s * (n - 1) + s
      BY <1>1, <3>1, MulMono
    <3>3. (n - 1) + 1 = n
      BY <1>2
    <3> QED BY <3>2, <3>3
  <2>4. k < n => s * k <= at(n)
    <3>1. k \in Int /\ n - 1 \in Int /\ (k < n => k <= n - 1)
      BY <1>2
    <3>2. k <= n - 1 => s * k <= s * (n - 1)
      BY <1>1, <3>1, MulMono
    <3> QED BY <3>1, <3>2
  <2> HIDE DEF at
  <2>5. at(n) < total - overlap
    BY <2>3, <1>1, <1>2
  <2>6. at(k) \in Nat /\ s * k \in Nat /\ at(k) < total - overlap
    BY <2>2, <2>3, <2>5, <1>1
  <2>7. (k < n => s * k < total - overlap) /\ (k = n => s * k >= total - overlap)
    BY <2>4, <2>5, <2>6, <2>3, <1>1, <1>2
  <2> QED BY <2>2, <2>6, <2>7
<1> HIDE DEF at
\* The k-th window, by whether it is the last.
<1>5. ASSUME NEW k \in 1 .. n
      PROVE  /\ c[k].start = at(k) /\ c[k].padded = len
             /\ c[k].start \in Nat /\ c[k].real \in Nat /\ c[k].real <= len
             /\ c[k].real > overlap
             /\ k < n => Ends(c[k]) = s * k + overlap /\ c[k].real = len
             /\ k = n => Ends(c[k]) = total
  <2>1. c[k] = Window(at(k), end(k) - at(k), len)
    BY <1>3
  <2>2. c[k].start = at(k) /\ c[k].real = end(k) - at(k) /\ c[k].padded = len
    BY <2>1 DEF Window
  <2>3. at(k) \in Nat /\ at(k) < total - overlap /\ at(k) + len = s * k + overlap
    BY <1>4 DEF s
  <2>4. CASE at(k) + len <= total
    <3>1. end(k) = at(k) + len
      BY <2>4
    <3>2. k = n => at(k) + len = total
      BY <1>4, <2>3, <2>4
    <3> HIDE DEF end
    <3> QED BY <2>2, <2>3, <3>1, <3>2 DEF Ends
  <2>5. CASE ~(at(k) + len <= total)
    <3>1. end(k) = total
      BY <2>5
    <3>2. ~(k < n)
      BY <1>4, <2>3, <2>5, <1>1
    <3> HIDE DEF end
    <3> QED BY <2>2, <2>3, <2>5, <3>1, <3>2 DEF Ends
  <2> QED BY <2>4, <2>5
<1>6. c \in Seq(WindowType) /\ Len(c) = n
  <2>1. \A k \in 1 .. n : Window(at(k), end(k) - at(k), len) \in WindowType
    <3> TAKE k \in 1 .. n
    <3>1. c[k] = Window(at(k), end(k) - at(k), len)
      BY <1>3
    <3>2. at(k) \in Nat /\ end(k) - at(k) \in Nat
      BY <1>5, <3>1 DEF Window
    <3> QED BY <3>2 DEF Window, WindowType
  <2> HIDE DEF end
  <2>2. c \in [1 .. n -> WindowType]
    BY <1>3, <2>1
  <2> QED BY <2>2, <1>2, IsSequence
<1> HIDE DEF end
<1>7. ASSUME NEW k \in 1 .. n, k < n
      PROVE  /\ k + 1 \in 1 .. n /\ at(k + 1) = s * k /\ at(k) < s * k
             /\ Ends(c[k]) - at(k + 1) = overlap
  <2>1. k + 1 \in 1 .. n /\ (k + 1) - 1 = k
    BY <1>2, <1>7
  <2>2. at(k + 1) = s * k
    BY <2>1 DEF at
  <2>3. s * k \in Nat /\ at(k) \in Nat /\ s * k = at(k) + s /\ Ends(c[k]) = s * k + overlap
    BY <1>4, <1>5, <1>7
  <2> QED BY <2>1, <2>2, <2>3, <1>1
<1>8. Covers(c, total, overlap)
  <2>1. c[1].start = 0
    <3>1. 1 \in 1 .. n /\ s * 0 = 0
      BY <1>1, <1>2
    <3> QED BY <1>5, <3>1 DEF at
  <2>2. Ends(c[n]) = total /\ c[n].real <= c[n].padded
    BY <1>2, <1>5
  <2>3. ASSUME NEW k \in 1 .. n - 1
        PROVE  /\ c[k + 1].start > c[k].start
               /\ Ends(c[k]) - c[k + 1].start = overlap
               /\ c[k].real = c[k].padded
               /\ c[k + 1].real > overlap
               /\ c[k + 1].padded = c[k].padded
    <3>1. k \in 1 .. n /\ k < n
      BY <1>2
    <3>2. k + 1 \in 1 .. n /\ at(k + 1) = s * k /\ at(k) < s * k
          /\ Ends(c[k]) - at(k + 1) = overlap
      BY <3>1, <1>7
    <3>3. c[k].start = at(k) /\ c[k].padded = len /\ c[k].real = len
      BY <3>1, <1>5
    <3>4. c[k + 1].start = at(k + 1) /\ c[k + 1].padded = len /\ c[k + 1].real > overlap
      BY <3>2, <1>5
    <3> QED BY <3>2, <3>3, <3>4
  <2> QED BY <1>2, <1>6, <2>1, <2>2, <2>3 DEF Covers
<1>9. Chained(c) /\ Reach(c, n) = total
  <2>1. ASSUME NEW k \in 1 .. n
        PROVE  /\ c[k].start <= Reach(c, k - 1) /\ Reach(c, k - 1) <= Reach(c, k)
               /\ c[k].real <= c[k].padded
    <3>1. c[k].start \in Nat /\ c[k].real \in Nat /\ c[k].real <= c[k].padded
          /\ c[k].real > overlap /\ Reach(c, k) = Ends(c[k])
      BY <1>5 DEF Reach
    <3>2. CASE k = 1
      <4>1. c[k].start = 0 /\ Reach(c, k - 1) = 0
        BY <3>2, <1>8 DEF Covers, Reach
      <4> QED BY <3>1, <4>1 DEF Ends
    <3>3. CASE k > 1
      <4>1. PICK j \in 1 .. n - 1 : k = j + 1
        <5>1. k - 1 \in 1 .. n - 1 /\ k = (k - 1) + 1
          BY <1>2, <3>3
        <5> QED BY <5>1
      <4>2. Ends(c[j]) - c[k].start = overlap /\ Reach(c, k - 1) = Ends(c[j])
        BY <1>6, <1>8, <4>1 DEF Covers, Reach
      <4>3. Ends(c[j]) \in Int
        <5>1. j \in 1 .. n
          BY <4>1, <1>2
        <5> QED BY <5>1, <1>5 DEF Ends
      <4> QED BY <3>1, <4>2, <4>3 DEF Ends
    <3> QED BY <3>2, <3>3, <1>2
  <2>2. Reach(c, n) = total
    BY <1>2, <1>5 DEF Reach
  <2> QED BY <1>6, <2>1, <2>2 DEF Chained
<1>10. Planned(c, total, overlap)
  BY <1>2, <1>6, <1>8, <1>9 DEF Planned
<1> QED BY <1>10 DEF c

LongType(p) ==
    {p.max, p.min, p.search, p.overlap, p.merge_search, p.merge_head} \subseteq Nat

\* The plan for any audio and any policy a file may declare.
LEMMA PlanIsChained ==
    ASSUME NEW total \in Nat, NEW p, LongType(p)
    PROVE  Planned(PlanWindows(total, p), total, p.overlap)
<1> DEFINE len == ChooseWindow(total, p)
<1>1. p.max \in Nat /\ p.min \in Nat /\ p.overlap \in Nat
  BY DEF LongType
<1>2. CASE Declared(p) /\ ~(total < p.max) /\ ~(len >= total)
  <2>1. len \in Nat /\ len > p.overlap
    <3>1. CASE len \in Candidates(total, p)
      BY <3>1, <1>1 DEF Candidates
    <3>2. CASE len = p.min
      BY <3>2, <1>1, <1>2 DEF Declared
    <3>3. len \in Candidates(total, p) \/ len = p.min
      BY <1>2 DEF ChooseWindow
    <3> QED BY <3>1, <3>2, <3>3
  <2>2. PlanWindows(total, p) = Cut(total, len, p.overlap)
    BY <1>2 DEF PlanWindows
  <2>3. p.overlap > 0
    BY <1>2 DEF Declared
  <2> HIDE DEF len
  <2>4. len < total
    BY <1>2, <2>1
  <2> QED BY <1>1, <2>1, <2>2, <2>3, <2>4, CutIsChained
<1>3. CASE ~(Declared(p) /\ ~(total < p.max) /\ ~(len >= total))
  <2>1. PlanWindows(total, p) = Whole(total)
    BY <1>3 DEF PlanWindows
  <2> QED BY <2>1, WholeIsChained
<1> QED BY <1>2, <1>3
-----------------------------------------------------------------------------
(* Recursive functions: each is defined, and takes its values where its step *)
(* does.                                                                     *)

Steps(F, n, V) == \A k \in 1 .. n : F[k] \in [V -> V]

Walked(g, F, n, V, b) ==
    /\ g \in [0 .. n -> V] /\ g[0] = b
    /\ \A k \in 1 .. n : g[k] = F[k][g[k - 1]]

LEMMA Iterates ==
    ASSUME NEW n \in Nat, NEW V, NEW b \in V, NEW F, Steps(F, n, V)
    PROVE  \E g : Walked(g, F, n, V, b)
<1> USE DEF Steps
<1> DEFINE Upto(g, m) == /\ g \in [0 .. m -> V] /\ g[0] = b
                         /\ \A k \in 1 .. m : g[k] = F[k][g[k - 1]]
           T == {m \in 0 .. n : \E g : Upto(g, m)}
<1>1. Upto([k \in 0 .. 0 |-> b], 0)
  OBVIOUS
<1>2. ASSUME NEW m \in 1 .. n, NEW g, Upto(g, m - 1) PROVE \E h : Upto(h, m)
  <2> DEFINE h == [k \in 0 .. m |-> IF k = m THEN F[m][g[m - 1]] ELSE g[k]]
  <2>2. m - 1 \in 0 .. m - 1 /\ g[m - 1] \in V /\ F[m] \in [V -> V]
    BY <1>2
  <2>3. F[m][g[m - 1]] \in V
    BY <2>2
  <2>4. \A k \in 0 .. m : k = m \/ k \in 0 .. m - 1
    OBVIOUS
  <2>5. h \in [0 .. m -> V]
    BY <1>2, <2>3, <2>4
  <2>6. h[0] = b
    BY <1>2
  <2>7. ASSUME NEW k \in 1 .. m PROVE h[k] = F[k][h[k - 1]]
    <3>1. h[k - 1] = g[k - 1]
      OBVIOUS
    <3>2. CASE k = m
      BY <3>1, <3>2
    <3>3. CASE k # m
      <4>1. k \in 1 .. m - 1
        BY <3>3
      <4> QED BY <3>1, <4>1, <1>2
    <3> QED BY <3>2, <3>3
  <2> QED BY <2>5, <2>6, <2>7
<1> HIDE DEF Upto
<1>3. 0 \in T
  BY <1>1
<1>4. ASSUME NEW m \in 1 .. n, m - 1 \in T PROVE m \in T
  <2>1. PICK g : Upto(g, m - 1)
    BY <1>4
  <2>2. m \in 0 .. n
    OBVIOUS
  <2> QED BY <1>2, <2>1, <2>2
<1>5. \A k \in 0 .. n : k \in T
  <2> HIDE DEF T
  <2> QED BY <1>3, <1>4, CountsUp
<1>6. \E g : Upto(g, n)
  BY <1>5
<1> QED BY <1>6 DEF Upto, Walked

LEMMA StaysIn ==
    ASSUME NEW n \in Nat, NEW V, NEW f, f[0] \in V,
           \A k \in 1 .. n : f[k - 1] \in V => f[k] \in V
    PROVE  \A k \in 0 .. n : f[k] \in V
<1> DEFINE T == {k \in 0 .. n : f[k] \in V}
<1>1. 0 \in T
  OBVIOUS
<1>2. ASSUME NEW k \in 1 .. n, k - 1 \in T PROVE k \in T
  BY <1>2
<1>3. \A k \in 0 .. n : k \in T
  <2> HIDE DEF T
  <2> QED BY <1>1, <1>2, CountsUp
<1> QED BY <1>3

LEMMA DetokenizeWalk ==
    ASSUME NEW ids \in Seq(Int)
    PROVE  \E kept \in [0 .. Len(ids) -> Seq(Int)] :
             /\ kept[0] = << >>
             /\ \A n \in 1 .. Len(ids) :
                  kept[n] = IF IsControl(ids[n]) THEN kept[n - 1]
                            ELSE Append(kept[n - 1], ids[n])
             /\ Detokenize(ids) = kept[Len(ids)]
<1> DEFINE Texts == Seq(Int)
           N == Len(ids)
           S(v, n) == IF IsControl(ids[n]) THEN v ELSE Append(v, ids[n])
           Is(g) == g = [n \in 0 .. N |-> IF n = 0 THEN << >> ELSE S(g[n - 1], n)]
           F == [n \in 1 .. N |-> [v \in Texts |-> S(v, n)]]
           kept == CHOOSE g : Is(g)
<1>1. N \in Nat
  OBVIOUS
<1>2. ASSUME NEW v \in Texts, NEW n \in 1 .. N PROVE S(v, n) \in Texts
  OBVIOUS
<1> HIDE DEF S, N, Texts
<1>3. Steps(F, N, Texts)
  BY <1>2 DEF Steps
<1>4. << >> \in Texts
  BY DEF Texts
<1> HIDE DEF F, Is, kept
<1>5. PICK g : Walked(g, F, N, Texts, << >>)
  BY <1>1, <1>3, <1>4, Iterates
<1>6. Is(g)
  <2>1. ASSUME NEW k \in 0 .. N PROVE g[k] = IF k = 0 THEN << >> ELSE S(g[k - 1], k)
    <3>1. CASE k = 0
      BY <3>1, <1>5 DEF Walked
    <3>2. CASE k # 0
      <4>1. k \in 1 .. N /\ k - 1 \in 0 .. N
        BY <3>2, <1>1
      <4>2. g[k - 1] \in Texts /\ g[k] = F[k][g[k - 1]]
        BY <4>1, <1>5 DEF Walked
      <4> QED BY <3>2, <4>1, <4>2 DEF F
    <3> QED BY <3>1, <3>2
  <2> QED BY <2>1, <1>5 DEF Is, Walked
<1>7. Is(kept)
  BY <1>6 DEF kept
<1>8. kept[0] = << >> /\ \A k \in 1 .. N : kept[k] = S(kept[k - 1], k)
  BY <1>1, <1>7 DEF Is
<1>9. \A k \in 0 .. N : kept[k] \in Texts
  <2>1. kept[0] \in Texts
    BY <1>4, <1>8
  <2>2. \A k \in 1 .. N : kept[k - 1] \in Texts => kept[k] \in Texts
    BY <1>2, <1>8
  <2> QED BY <1>1, <2>1, <2>2, StaysIn
<1>10. kept \in [0 .. N -> Texts]
  BY <1>7, <1>9 DEF Is
<1>11. Detokenize(ids) = kept[N]
  BY DEF Detokenize, kept, S, N, Is
<1> QED BY <1>8, <1>10, <1>11 DEF S, N, Texts

LEMMA DetokenizeTyped == \A ids \in Seq(Int) : Detokenize(ids) \in Seq(Int)
<1> TAKE ids \in Seq(Int)
<1>1. PICK kept \in [0 .. Len(ids) -> Seq(Int)] : Detokenize(ids) = kept[Len(ids)]
  BY DetokenizeWalk
<1>2. Len(ids) \in 0 .. Len(ids)
  OBVIOUS
<1> QED BY <1>1, <1>2
-----------------------------------------------------------------------------
(* split_into_segments *)

SegmentType == [start : Int, end : Int, text : Seq(Int), closed : BOOLEAN]

WalkType == [start : Int, open : BOOLEAN, pending : Seq(Int), out : Seq(SegmentType),
             last_end : Int]

\* What a flush leaves.
Flushed(f, w, end, closed) ==
    /\ f \in WalkType /\ f.start = w.start /\ f.open = w.open
    /\ \/ f.out = w.out /\ f.last_end = w.last_end
       \/ /\ f.last_end = IF closed THEN end ELSE w.last_end
          /\ \E s \in SegmentType : /\ f.out = Append(w.out, s)
                                    /\ s.start = w.start /\ s.end = end
                                    /\ s.closed = closed

LEMMA FlushIs ==
    ASSUME NEW w \in WalkType, NEW end \in Int, NEW closed \in BOOLEAN
    PROVE  Flushed(Flush(w, end, closed), w, end, closed)
<1> DEFINE text == Detokenize(w.pending)
           s == [start |-> w.start, end |-> end, text |-> text, closed |-> closed]
           f == Flush(w, end, closed)
<1>1. /\ w.start \in Int /\ w.open \in BOOLEAN /\ w.pending \in Seq(Int)
      /\ w.out \in Seq(SegmentType) /\ w.last_end \in Int
      /\ w = [start |-> w.start, open |-> w.open, pending |-> w.pending,
              out |-> w.out, last_end |-> w.last_end]
  BY DEF WalkType
<1>2. text \in Seq(Int)
  BY <1>1, DetokenizeTyped
<1>3. << >> \in Seq(Int)
  OBVIOUS
<1>4. f = IF text = << >> THEN [w EXCEPT !.pending = << >>]
          ELSE [w EXCEPT !.pending = << >>, !.out = Append(@, s),
                         !.last_end = IF closed THEN end ELSE @]
  BY DEF Flush
<1> HIDE DEF text, f
<1>5. s \in SegmentType /\ s.start = w.start /\ s.end = end /\ s.closed = closed
  BY <1>1, <1>2 DEF SegmentType
<1> HIDE DEF s
<1>6. CASE text = << >>
  <2>1. f = [start |-> w.start, open |-> w.open, pending |-> << >>,
             out |-> w.out, last_end |-> w.last_end]
    BY <1>1, <1>4, <1>6
  <2> QED BY <2>1, <1>1, <1>3 DEF Flushed, WalkType, f
<1>7. CASE text # << >>
  <2>1. f = [start |-> w.start, open |-> w.open, pending |-> << >>,
             out |-> Append(w.out, s),
             last_end |-> IF closed THEN end ELSE w.last_end]
    BY <1>1, <1>4, <1>7
  <2>2. Append(w.out, s) \in Seq(SegmentType)
    BY <1>1, <1>5
  <2>3. f \in WalkType /\ f.start = w.start /\ f.open = w.open
        /\ f.out = Append(w.out, s) /\ f.last_end = IF closed THEN end ELSE w.last_end
    BY <2>1, <2>2, <1>1, <1>3 DEF WalkType
  <2> QED BY <2>3, <1>5 DEF Flushed, f
<1> QED BY <1>6, <1>7

\* What a timestamp leaves: the span before it is flushed if there is one.
Marked(m, w, time) ==
    /\ m \in WalkType /\ m.start = time
    /\ \/ m.out = w.out /\ m.last_end = w.last_end
       \/ /\ m.last_end = time
          /\ \E s \in SegmentType : /\ m.out = Append(w.out, s)
                                    /\ s.start = w.start /\ s.end = time /\ s.closed

LEMMA MarkIs ==
    ASSUME NEW w \in WalkType, NEW time \in Int
    PROVE  Marked(Mark(w, time), w, time)
<1> DEFINE f == IF w.open THEN Flush(w, time, TRUE) ELSE w
           m == Mark(w, time)
<1>1. Flushed(f, w, time, TRUE)
  <2>1. Flushed(Flush(w, time, TRUE), w, time, TRUE)
    BY FlushIs
  <2>2. Flushed(w, w, time, TRUE)
    BY DEF Flushed
  <2> QED BY <2>1, <2>2
<1>2. m = [f EXCEPT !.start = time, !.open = TRUE]
  BY DEF Mark
<1> HIDE DEF f, m
<1>3. f \in WalkType
  BY <1>1 DEF Flushed
<1>4. m \in WalkType /\ m.start = time /\ m.out = f.out /\ m.last_end = f.last_end
  BY <1>2, <1>3 DEF WalkType
<1> QED BY <1>1, <1>4 DEF Flushed, Marked, m

WalkStep(ids, from, w, k) ==
    IF ids[k] >= TsBase THEN Mark(w, from + (ids[k] - TsBase) * TsStep)
    ELSE [w EXCEPT !.pending = Append(@, ids[k])]

LEMMA StepStays ==
    ASSUME NEW ids \in Seq(Int), NEW from \in Int, NEW w \in WalkType,
           NEW k \in 1 .. Len(ids)
    PROVE  WalkStep(ids, from, w, k) \in WalkType
<1>1. ids[k] \in Int /\ TsStep \in Int
  BY TimeAssumption
<1>2. CASE ids[k] >= TsBase
  <2>1. from + (ids[k] - TsBase) * TsStep \in Int
    BY <1>1 DEF TsBase
  <2> QED BY <2>1, <1>2, MarkIs DEF WalkStep, Marked
<1>3. CASE ~(ids[k] >= TsBase)
  <2>1. Append(w.pending, ids[k]) \in Seq(Int)
    BY <1>1 DEF WalkType
  <2>2. [w EXCEPT !.pending = Append(@, ids[k])] \in WalkType
    BY <2>1 DEF WalkType
  <2> QED BY <2>2, <1>3 DEF WalkStep
<1> QED BY <1>2, <1>3

WalkStart(from) == [start |-> from, open |-> FALSE, pending |-> << >>,
                    out |-> << >>, last_end |-> -1]

LEMMA SplitWalk ==
    ASSUME NEW ids \in Seq(Int), NEW from \in Int, NEW to \in Int
    PROVE  \E walk \in [0 .. Len(ids) -> WalkType] :
             /\ walk[0] = WalkStart(from)
             /\ \A k \in 1 .. Len(ids) : walk[k] = WalkStep(ids, from, walk[k - 1], k)
             /\ SplitIntoSegments(ids, from, to) = Flush(walk[Len(ids)], to, FALSE)
<1> DEFINE N == Len(ids)
           S(w, n) == WalkStep(ids, from, w, n)
           b == WalkStart(from)
           Is(g) == g = [n \in 0 .. N |-> IF n = 0 THEN b ELSE S(g[n - 1], n)]
           F == [n \in 1 .. N |-> [w \in WalkType |-> S(w, n)]]
           walk == CHOOSE g : Is(g)
<1>1. N \in Nat
  OBVIOUS
<1>2. ASSUME NEW w \in WalkType, NEW n \in 1 .. N PROVE S(w, n) \in WalkType
  BY StepStays
<1>4. b \in WalkType
  BY DEF WalkStart, WalkType
<1> HIDE DEF S, N, b
<1>3. Steps(F, N, WalkType)
  BY <1>2 DEF Steps
<1> HIDE DEF F, Is, walk
<1>5. PICK g : Walked(g, F, N, WalkType, b)
  BY <1>1, <1>3, <1>4, Iterates
<1>6. Is(g)
  <2>1. ASSUME NEW k \in 0 .. N PROVE g[k] = IF k = 0 THEN b ELSE S(g[k - 1], k)
    <3>1. CASE k = 0
      BY <3>1, <1>5 DEF Walked
    <3>2. CASE k # 0
      <4>1. k \in 1 .. N /\ k - 1 \in 0 .. N
        BY <3>2, <1>1
      <4>2. g[k - 1] \in WalkType /\ g[k] = F[k][g[k - 1]]
        BY <4>1, <1>5 DEF Walked
      <4> QED BY <3>2, <4>1, <4>2 DEF F
    <3> QED BY <3>1, <3>2
  <2> QED BY <2>1, <1>5 DEF Is, Walked
<1>7. Is(walk)
  BY <1>6 DEF walk
<1>8. walk[0] = b /\ \A k \in 1 .. N : walk[k] = S(walk[k - 1], k)
  BY <1>1, <1>7 DEF Is
<1>9. \A k \in 0 .. N : walk[k] \in WalkType
  <2>1. walk[0] \in WalkType
    BY <1>4, <1>8
  <2>2. \A k \in 1 .. N : walk[k - 1] \in WalkType => walk[k] \in WalkType
    BY <1>2, <1>8
  <2> QED BY <1>1, <2>1, <2>2, StaysIn
<1>10. walk \in [0 .. N -> WalkType]
  BY <1>7, <1>9 DEF Is
<1>11. SplitIntoSegments(ids, from, to) = Flush(walk[N], to, FALSE)
  BY DEF SplitIntoSegments, walk, S, N, Is, b, WalkStart, WalkStep
<1> QED BY <1>8, <1>10, <1>11 DEF S, N, b
-----------------------------------------------------------------------------
LEMMA SplitTyped ==
    ASSUME NEW ids \in Seq(Int), NEW from \in Int, NEW to \in Int
    PROVE  SplitIntoSegments(ids, from, to) \in WalkType
<1>1. PICK walk \in [0 .. Len(ids) -> WalkType] :
        SplitIntoSegments(ids, from, to) = Flush(walk[Len(ids)], to, FALSE)
  BY SplitWalk
<1>2. walk[Len(ids)] \in WalkType
  OBVIOUS
<1> QED BY <1>1, <1>2, FlushIs DEF Flushed

\* The closed segments come one after another, inside from..last.
InOrder(out, from, last) ==
    /\ \A i \in DOMAIN out : out[i].closed => from <= out[i].start /\ out[i].end <= last
    /\ \A i, j \in DOMAIN out :
         i < j /\ out[i].closed /\ out[j].closed => out[i].end <= out[j].start

LEMMA AppendInOrder ==
    ASSUME NEW out \in Seq(SegmentType), NEW from \in Int, NEW last \in Int,
           NEW s \in SegmentType, NEW next \in Int, InOrder(out, from, last),
           last <= next, s.closed => last <= s.start /\ from <= s.start /\ s.end <= next
    PROVE  InOrder(Append(out, s), from, next)
<1> DEFINE n == Len(out)
           o == Append(out, s)
<1>1. n \in Nat /\ DOMAIN out = 1 .. n /\ DOMAIN o = 1 .. n + 1
      /\ o[n + 1] = s /\ \A i \in 1 .. n : o[i] = out[i]
  BY AppendProperties
<1>2. \A i \in 1 .. n : out[i].start \in Int /\ out[i].end \in Int
  <2>1. \A i \in 1 .. Len(out) : out[i] \in SegmentType
    OBVIOUS
  <2> QED BY <2>1 DEF SegmentType
<1>3. s.start \in Int /\ s.end \in Int
  BY DEF SegmentType
<1> HIDE DEF o, n
<1>4. ASSUME NEW i \in 1 .. n + 1, o[i].closed
      PROVE  from <= o[i].start /\ o[i].end <= next
  <2>1. CASE i \in 1 .. n
    BY <1>1, <1>2, <1>4, <2>1 DEF InOrder
  <2>2. CASE i = n + 1
    BY <1>1, <1>4, <2>2
  <2> QED BY <1>1, <2>1, <2>2
<1>5. ASSUME NEW i \in 1 .. n + 1, NEW j \in 1 .. n + 1, i < j, o[i].closed, o[j].closed
      PROVE  o[i].end <= o[j].start
  <2>1. i \in 1 .. n
    BY <1>1, <1>5
  <2>2. CASE j \in 1 .. n
    BY <1>1, <1>5, <2>1, <2>2 DEF InOrder
  <2>3. CASE j = n + 1
    <3>1. out[i].end <= last /\ last <= s.start
      BY <1>1, <1>5, <2>1, <2>3 DEF InOrder
    <3> QED BY <1>1, <1>2, <1>3, <2>1, <2>3, <3>1
  <2> QED BY <1>1, <2>2, <2>3
<1> QED BY <1>1, <1>4, <1>5 DEF InOrder, o

\* The time of a mark.
Time(ids, from, k) == from + (ids[k] - TsBase) * TsStep

IsMark(ids, k) == ids[k] >= TsBase

LEMMA TimesGoForward ==
    ASSUME NEW ids \in Seq(Int), NEW from \in Nat, Monotone(ids), file.clip \in Nat
    PROVE  /\ \A k \in DOMAIN ids : IsMark(ids, k) =>
                /\ Time(ids, from, k) \in Int /\ from <= Time(ids, from, k)
                /\ Time(ids, from, k) <= from + file.clip * Ticks
           /\ \A i, j \in DOMAIN ids :
                i < j /\ IsMark(ids, i) /\ IsMark(ids, j)
                  => Time(ids, from, i) <= Time(ids, from, j)
<1>1. TsStep \in Nat /\ Ticks \in Nat /\ file.clip * Ticks \in Nat
  BY TimeAssumption
<1>2. ASSUME NEW k \in DOMAIN ids, IsMark(ids, k)
      PROVE  /\ ids[k] - TsBase \in Nat /\ (ids[k] - TsBase) * TsStep \in Nat
             /\ (ids[k] - TsBase) * TsStep <= file.clip * Ticks
  <2>1. ids[k] - TsBase \in Nat
    BY <1>2 DEF IsMark, TsBase
  <2>2. (ids[k] - TsBase) * TsStep \in Nat
    BY <2>1, <1>1
  <2>3. k \in {h \in DOMAIN ids : ids[h] >= TsBase}
    BY <1>2 DEF IsMark
  <2> QED BY <2>1, <2>2, <2>3 DEF Monotone
<1>3. ASSUME NEW i \in DOMAIN ids, NEW j \in DOMAIN ids, i < j,
             IsMark(ids, i), IsMark(ids, j)
      PROVE  (ids[i] - TsBase) * TsStep <= (ids[j] - TsBase) * TsStep
  <2>1. ids[i] <= ids[j]
    <3>1. i \in {h \in DOMAIN ids : ids[h] >= TsBase}
          /\ j \in {h \in DOMAIN ids : ids[h] >= TsBase}
      BY <1>3 DEF IsMark
    <3> QED BY <1>3, <3>1 DEF Monotone
  <2> DEFINE a == ids[i] - TsBase
             b == ids[j] - TsBase
  <2>2. a \in Int /\ b \in Int /\ a <= b
    BY <2>1, <1>2, <1>3 DEF TsBase
  <2> HIDE DEF a, b
  <2>3. TsStep * a <= TsStep * b /\ TsStep * a = a * TsStep /\ TsStep * b = b * TsStep
    BY <1>1, <2>2, MulMono
  <2> QED BY <2>3 DEF a, b
<1>4. ASSUME NEW k \in DOMAIN ids, IsMark(ids, k)
      PROVE /\ Time(ids, from, k) \in Int /\ from <= Time(ids, from, k)
            /\ Time(ids, from, k) <= from + file.clip * Ticks
  <2> DEFINE t == (ids[k] - TsBase) * TsStep
             c == file.clip * Ticks
  <2>1. t \in Nat /\ t <= c /\ c \in Nat /\ Time(ids, from, k) = from + t
    BY <1>1, <1>2, <1>4 DEF Time
  <2> HIDE DEF t
  <2> QED BY <2>1
<1>5. ASSUME NEW i \in DOMAIN ids, NEW j \in DOMAIN ids, i < j,
             IsMark(ids, i), IsMark(ids, j)
      PROVE  Time(ids, from, i) <= Time(ids, from, j)
  <2> DEFINE t == (ids[i] - TsBase) * TsStep
             u == (ids[j] - TsBase) * TsStep
  <2>1. t \in Nat /\ u \in Nat /\ t <= u
        /\ Time(ids, from, i) = from + t /\ Time(ids, from, j) = from + u
    BY <1>2, <1>3, <1>5 DEF Time
  <2> HIDE DEF t, u
  <2> QED BY <2>1
<1> QED BY <1>4, <1>5

\* The walk, once n ids are read: what it closed is in order and ends no later than the
\* mark it stands at, and no mark still to be read is earlier.
WalkInOrder(w, ids, from, n) ==
    /\ InOrder(w.out, from, w.last_end)
    /\ w.last_end <= w.start /\ from <= w.start /\ w.start <= from + file.clip * Ticks
    /\ \A k \in n + 1 .. Len(ids) : IsMark(ids, k) => w.start <= Time(ids, from, k)

LEMMA StepInOrder ==
    ASSUME NEW ids \in Seq(Int), NEW from \in Nat, Monotone(ids), file.clip \in Nat,
           NEW n \in 1 .. Len(ids), NEW w \in WalkType, WalkInOrder(w, ids, from, n - 1)
    PROVE  WalkInOrder(WalkStep(ids, from, w, n), ids, from, n)
<1> DEFINE t == Time(ids, from, n)
           limit == from + file.clip * Ticks
           m == WalkStep(ids, from, w, n)
<1>1. n \in DOMAIN ids /\ DOMAIN ids = 1 .. Len(ids) /\ Len(ids) \in Nat
  OBVIOUS
<1>2. /\ w.start \in Int /\ w.last_end \in Int /\ w.out \in Seq(SegmentType)
  BY DEF WalkType
<1>3. limit \in Int
  BY TimeAssumption
<1>4. CASE IsMark(ids, n)
  <2>1. t \in Int /\ from <= t /\ t <= limit /\ w.start <= t
    <3>1. n \in (n - 1) + 1 .. Len(ids)
      BY <1>1
    <3>2. w.start <= t
      BY <3>1, <1>4 DEF WalkInOrder
    <3> QED BY <1>1, <1>4, <3>2, TimesGoForward
  <2>2. m = Mark(w, t)
    BY <1>4 DEF WalkStep, Time, IsMark
  <2> HIDE DEF t, m, limit
  <2>3. Marked(m, w, t)
    BY <2>1, <2>2, MarkIs
  <2>4. m.start = t /\ m.last_end \in Int /\ m.last_end <= t
    BY <2>1, <2>3, <1>2 DEF Marked, WalkInOrder, WalkType
  <2>5. InOrder(m.out, from, m.last_end)
    <3>1. CASE m.out = w.out /\ m.last_end = w.last_end
      BY <3>1 DEF WalkInOrder
    <3>2. CASE ~(m.out = w.out /\ m.last_end = w.last_end)
      <4>1. PICK s \in SegmentType : /\ m.out = Append(w.out, s) /\ s.start = w.start
                                     /\ s.end = t /\ s.closed
        BY <2>3, <3>2 DEF Marked
      <4>2. m.last_end = t
        BY <2>3, <3>2 DEF Marked
      <4>3. InOrder(w.out, from, w.last_end) /\ w.last_end <= w.start /\ from <= w.start
        BY DEF WalkInOrder
      <4>4. w.last_end <= t /\ (s.closed => w.last_end <= s.start /\ from <= s.start
                                             /\ s.end <= t)
        BY <1>2, <2>1, <4>1, <4>3
      <4>5. from \in Int
        OBVIOUS
      <4>6. InOrder(Append(w.out, s), from, t)
        BY <1>2, <2>1, <4>3, <4>4, <4>5, AppendInOrder
      <4> QED BY <4>1, <4>2, <4>6
    <3> QED BY <3>1, <3>2
  <2>6. ASSUME NEW k \in n + 1 .. Len(ids), IsMark(ids, k) PROVE t <= Time(ids, from, k)
    <3>1. k \in DOMAIN ids /\ n < k
      BY <1>1
    <3> QED BY <1>1, <1>4, <2>6, <3>1, TimesGoForward DEF t
  <2> QED BY <2>1, <2>4, <2>5, <2>6 DEF WalkInOrder, limit, m
<1>5. CASE ~IsMark(ids, n)
  <2>1. m = [w EXCEPT !.pending = Append(@, ids[n])]
    BY <1>5 DEF WalkStep, IsMark
  <2> HIDE DEF m
  <2>2. m.start = w.start /\ m.out = w.out /\ m.last_end = w.last_end
    BY <2>1 DEF WalkType
  <2>3. \A k \in n + 1 .. Len(ids) : k \in (n - 1) + 1 .. Len(ids)
    BY <1>1
  <2> QED BY <2>2, <2>3 DEF WalkInOrder, m
<1> QED BY <1>4, <1>5

\* The segments closed in a decode whose timestamps go forward inside its clip.
LEMMA SplitInOrder ==
    ASSUME NEW ids \in Seq(Int), NEW from \in Nat, NEW to \in Int, Monotone(ids),
           file.clip \in Nat
    PROVE  LET w == SplitIntoSegments(ids, from, to)
           IN InOrder(w.out, from, w.last_end) /\ w.last_end <= from + file.clip * Ticks
<1>0. from \in Int
  OBVIOUS
<1>1. PICK walk \in [0 .. Len(ids) -> WalkType] :
             /\ walk[0] = WalkStart(from)
             /\ \A k \in 1 .. Len(ids) : walk[k] = WalkStep(ids, from, walk[k - 1], k)
             /\ SplitIntoSegments(ids, from, to) = Flush(walk[Len(ids)], to, FALSE)
  BY <1>0, SplitWalk
<1> DEFINE N == Len(ids)
           s == SplitIntoSegments(ids, from, to)
<1> HIDE DEF s
<1>2. N \in Nat /\ DOMAIN ids = 1 .. N
  OBVIOUS
<1> DEFINE T == {n \in 0 .. N : WalkInOrder(walk[n], ids, from, n)}
<1>3. 0 \in T
  <2>1. walk[0].out = << >> /\ walk[0].start = from /\ walk[0].last_end = -1
    BY <1>1 DEF WalkStart
  <2>2. InOrder(walk[0].out, from, walk[0].last_end)
    BY <2>1 DEF InOrder
  <2>3. from <= from + file.clip * Ticks
    BY TimeAssumption
  <2>4. \A k \in 0 + 1 .. N : IsMark(ids, k) => from <= Time(ids, from, k)
    BY <1>2, TimesGoForward
  <2> QED BY <1>2, <2>1, <2>2, <2>3, <2>4 DEF WalkInOrder
<1>4. ASSUME NEW n \in 1 .. N, n - 1 \in T PROVE n \in T
  <2>1. walk[n - 1] \in WalkType /\ WalkInOrder(walk[n - 1], ids, from, n - 1)
    BY <1>4
  <2>2. walk[n] = WalkStep(ids, from, walk[n - 1], n)
    BY <1>1
  <2>3. WalkInOrder(walk[n], ids, from, n)
    BY <2>1, <2>2, StepInOrder
  <2> QED BY <2>3
<1>5. N \in T
  <2> HIDE DEF T
  <2>1. \A k \in 0 .. N : k \in T
    BY <1>2, <1>3, <1>4, CountsUp
  <2> QED BY <2>1, <1>2
<1> DEFINE w == walk[N]
<1>6. w \in WalkType /\ WalkInOrder(w, ids, from, N) /\ Flushed(s, w, to, FALSE)
  BY <1>1, <1>2, <1>5, FlushIs DEF s
<1> HIDE DEF w
<1>7. /\ w.start \in Int /\ w.last_end \in Int /\ w.out \in Seq(SegmentType)
      /\ file.clip * Ticks \in Int
  BY <1>6, TimeAssumption DEF WalkType
<1>8. s.last_end = w.last_end /\ w.last_end <= from + file.clip * Ticks
  BY <1>6, <1>7 DEF Flushed, WalkInOrder
<1>9. InOrder(s.out, from, w.last_end)
  <2>1. InOrder(w.out, from, w.last_end)
    BY <1>6 DEF WalkInOrder
  <2>2. CASE s.out = w.out
    BY <2>1, <2>2
  <2>3. CASE s.out # w.out
    <3>1. PICK g \in SegmentType : s.out = Append(w.out, g) /\ ~g.closed
      BY <2>3, <1>6 DEF Flushed
    <3>2. w.last_end <= w.last_end /\ (g.closed => w.last_end <= g.start /\ from <= g.start
                                                    /\ g.end <= w.last_end)
      BY <1>7, <3>1
    <3>3. InOrder(Append(w.out, g), from, w.last_end)
      BY <1>0, <1>7, <2>1, <3>2, AppendInOrder
    <3> QED BY <3>1, <3>3
  <2> QED BY <2>2, <2>3
<1> QED BY <1>8, <1>9 DEF s
-----------------------------------------------------------------------------
(* What the files declare, and what the models answer *)

LEMMA FileTyped ==
    ASSUME model \in DOMAIN Files
    PROVE  /\ file.clip \in Nat /\ file.chunk \in Nat /\ file.prev_cap \in Nat
           /\ LongType(file.long)
           /\ file.quiet.max \in Nat /\ file.quiet.search \in Nat
           /\ file.quiet.frame \in Nat /\ file.quiet.min \in Nat
           /\ file.answers \subseteq Seq(Int)
           /\ Lengths[model] \subseteq Nat
           /\ Babble \subseteq Seq(Int)
BY FilesAssumption DEF file, LongType

LEMMA CeilDivMonotone ==
    ASSUME NEW a \in Nat, NEW c \in Nat, a <= c, NEW b \in Nat \ {0}
    PROVE  CeilDiv(a, b) <= CeilDiv(c, b)
<1> DEFINE q == CeilDiv(a, b)
           r == CeilDiv(c, b)
<1>1. /\ q \in Nat /\ r \in Nat /\ b * q < a + b /\ c <= b * r
  BY CeilDivBounds
<1> HIDE DEF q, r
<1> SUFFICES ASSUME ~(q <= r) PROVE FALSE
  BY DEF q, r
<1>2. b * (r + 1) <= b * q /\ b * (r + 1) = b * r + b /\ b * r \in Int /\ b * q \in Int
  <2>1. r + 1 \in Int /\ q \in Int /\ r \in Int /\ r + 1 <= q /\ r <= r /\ b \in Nat
    BY <1>1
  <2> QED BY <2>1, MulMono
<1> QED BY <1>1, <1>2

LEMMA SubSeqTyped ==
    ASSUME NEW S, NEW s \in Seq(S), NEW m \in Nat, NEW n \in Nat, m > 0, n <= Len(s)
    PROVE  SubSeq(s, m, n) \in Seq(S)
<1>1. \A i \in m .. n : s[i] \in S
  BY LenProperties
<1> QED BY <1>1, SubSeqProperties

LEMMA WordsTyped ==
    ASSUME samples \in Nat, NEW w \in WindowType, Ends(w) <= samples
    PROVE  WordsIn(w) \in Seq(Int)
<1>1. WordEvery \in Nat \ {0} /\ w.start \in Nat /\ Ends(w) \in Nat
  BY TimeAssumption DEF WindowType, Ends
<1>2. Spoken(samples) \in Nat /\ Spoken(w.start) \in Nat /\ Spoken(Ends(w)) \in Nat
  BY <1>1, CeilDivBounds DEF Spoken
<1>3. Spoken(Ends(w)) <= Spoken(samples)
  BY <1>1, CeilDivMonotone DEF Spoken
<1>4. Speech \in Seq(Int) /\ Len(Speech) = Spoken(samples)
  <2> DEFINE n == Spoken(samples)
  <2> HIDE DEF n
  <2>1. \A i \in 1 .. n : (i - 1) * WordEvery \in Int
    BY <1>1
  <2>2. [i \in 1 .. n |-> (i - 1) * WordEvery] \in [1 .. n -> Int]
    BY <2>1
  <2>3. n \in Nat
    BY <1>2 DEF n
  <2>4. [i \in 1 .. n |-> (i - 1) * WordEvery] \in Seq(Int)
        /\ Len([i \in 1 .. n |-> (i - 1) * WordEvery]) = n
    BY <2>2, <2>3, IsSequence
  <2> QED BY <2>4 DEF Speech, n
<1>5. Spoken(w.start) + 1 \in Nat /\ Spoken(w.start) + 1 > 0
  BY <1>2
<1> HIDE DEF Speech
<1> QED BY <1>2, <1>3, <1>4, <1>5, SubSeqTyped DEF WordsIn

LEMMA HeardTyped ==
    ASSUME samples \in Nat, NEW words \in Seq(Int), NEW k \in Nat, NEW first, NEW last,
           NEW t \in HeardAt(words, k, first, last)
    PROVE  t \in Seq(Int)
<1>1. Len(words) \in Nat /\ DOMAIN words = 1 .. Len(words)
  BY LenProperties
<1>2. ASSUME NEW i \in {1, 2}, NEW c \in {0, 1}
      PROVE  SubSeq(words, i, Len(words) - c) \in Seq(Int)
  <2>1. \A j \in i .. Len(words) - c : words[j] \in Int
    BY <1>1
  <2>2. i \in Int /\ Len(words) - c \in Int
    BY <1>1
  <2> QED BY <2>1, <2>2, SubSeqProperties
<1> DEFINE n == Len(words)
           h == [i \in DOMAIN words |->
                  IF (i = 1 /\ ~first) \/ (i = Len(words) /\ ~last)
                  THEN Misheard(words[i], k) ELSE words[i]]
<1>3. h \in Seq(Int)
  <2>1. \A i \in 1 .. n : words[i] \in Int /\ Misheard(words[i], k) \in Int
    BY <1>1 DEF Misheard
  <2>2. h \in [1 .. n -> Int]
    BY <1>1, <2>1
  <2>3. n \in Nat
    BY <1>1
  <2> HIDE DEF n, h
  <2> QED BY <2>2, <2>3, IsSequence
<1>4. CASE t = h
  BY <1>3, <1>4
<1>5. CASE t # h
  <2> DEFINE A == IF first THEN {"whole"} ELSE {"whole", "lost"}
             B == IF last THEN {"whole"} ELSE {"whole", "lost"}
             C(head, tail) == SubSeq(words, IF head = "lost" THEN 2 ELSE 1,
                                     Len(words) - IF tail = "lost" THEN 1 ELSE 0)
  <2>0. HeardAt(words, k, first, last) = {C(head, tail) : head \in A, tail \in B} \cup {h}
    BY DEF HeardAt
  <2>1. \A head, tail : C(head, tail) \in Seq(Int)
    <3> TAKE head, tail
    <3>1. (IF head = "lost" THEN 2 ELSE 1) \in {1, 2}
          /\ (IF tail = "lost" THEN 1 ELSE 0) \in {0, 1}
      OBVIOUS
    <3> QED BY <1>2, <3>1
  <2> HIDE DEF h, A, B, C
  <2>2. t \in {C(head, tail) : head \in A, tail \in B}
    BY <1>5, <2>0
  <2>3. PICK head \in A, tail \in B : t = C(head, tail)
    BY <2>2
  <2> QED BY <2>1, <2>3
<1> QED BY <1>4, <1>5

LEMMA AnswersTyped ==
    ASSUME model \in DOMAIN Files, samples \in Nat, NEW w \in WindowType,
           Ends(w) <= samples, NEW k \in Nat, NEW n, NEW ids \in Answers(w, k, n)
    PROVE  ids \in Seq(Int)
<1>1. \A t \in Seq(Int) : Append(t, EOS) \in Seq(Int)
  BY DEF EOS
<1>2. CASE file.hears = "speech"
  <2>1. PICK t \in HeardAt(WordsIn(w), k, k = 1, k = n) : ids = Append(t, EOS)
    BY <1>2 DEF Answers
  <2>2. t \in Seq(Int)
    BY <2>1, WordsTyped, HeardTyped
  <2> QED BY <1>1, <2>1, <2>2
<1>3. CASE file.hears = "anything"
  <2>1. PICK t \in Babble : ids = Append(t, EOS)
    BY <1>3 DEF Answers
  <2>2. t \in Seq(Int)
    BY FileTyped
  <2> QED BY <1>1, <2>1, <2>2
<1>4. CASE file.hears # "speech" /\ file.hears # "anything"
  <2>1. ids \in file.answers
    BY <1>4 DEF Answers
  <2> QED BY <2>1, FileTyped
<1> QED BY <1>2, <1>3, <1>4
-----------------------------------------------------------------------------
(* The invariant of transcribe *)

\* How far the seek moves at the least.
Stride == AtMost(Rate, file.clip)

\* The model answers with timestamps that go forward.
Steady == file.hears = "answers" /\ \A ids \in file.answers : Monotone(ids)

CallInv ==
    /\ model \in DOMAIN Files /\ samples \in Nat
    /\ phase \in {"resolve", "cut", "decode", "done", "refused"}
    /\ phase = "resolve" => Fresh

ArgsInv ==
    IF phase = "resolve" THEN args = NoArgs
    ELSE /\ args = [role \in Roles |-> Resolved(role)]
         /\ phase # "refused" => \A role \in Roles : Resolved(role) # "refused"

\* What may stay unheard at the end of the plan.
Untold == IF Quiet THEN Larger(1, file.quiet.min) ELSE 1

\* The pieces that are planned follow one another, and what was heard is the first of them.
PiecesInv ==
    /\ Chained(plan) /\ Reach(plan, Len(plan)) <= samples
    /\ ~Quiet => Planned(plan, samples, file.long.overlap)
    /\ heard \in Seq(Seq(Int)) /\ Len(heard) <= Len(plan)
    /\ covered = Reach(plan, Len(heard))
    /\ prev = << >> /\ cut \in 0 .. samples
    /\ phase = "cut" => Quiet /\ heard = << >> /\ cut = Reach(plan, Len(plan))
    /\ phase \in {"decode", "done"} => samples - Reach(plan, Len(plan)) < Untold
    /\ phase = "done" => Len(heard) = Len(plan)

\* The seek leaves nothing behind it unheard, and moves by a stride a decode.
SeekInv ==
    /\ phase # "cut"
    /\ plan = << >> /\ heard = << >> /\ cut = 0
    /\ seek \in Nat /\ covered \in 0 .. samples
    /\ seek <= covered \/ covered = samples
    /\ windows \in Nat /\ Stride * windows <= seek
    /\ windows > 0 => Stride * (windows - 1) < samples
    /\ prev \in Seq(Int) /\ Len(prev) <= file.prev_cap
    /\ phase = "done" => seek >= samples

\* The segments closed so far end where the seek stands, give or take half a sample.
SegmentsInv ==
    /\ segments \in Seq(SegmentType)
    /\ Steady =>
        /\ \A i \in DOMAIN segments :
             segments[i].closed => 2 * (seek * Ticks - segments[i].end) >= -Ticks
        /\ \A i, j \in DOMAIN segments :
             i < j /\ segments[i].closed /\ segments[j].closed
               => 2 * (segments[j].start - segments[i].end) >= -Ticks

TInv ==
    /\ CallInv /\ ArgsInv
    /\ ~Seeks /\ phase # "resolve" => PiecesInv
    /\ Seeks /\ phase # "resolve" => SeekInv /\ SegmentsInv
-----------------------------------------------------------------------------
LEMMA ReachGoesUp ==
    ASSUME NEW ws, Chained(ws)
    PROVE  /\ Len(ws) \in Nat
           /\ \A k \in 0 .. Len(ws) : /\ Reach(ws, k) \in Nat
                                      /\ Reach(ws, k) <= Reach(ws, Len(ws))
<1> DEFINE n == Len(ws)
<1>1. ws \in Seq(WindowType) /\ n \in Nat
  BY LenProperties DEF Chained
<1>2. ASSUME NEW k \in 0 .. n PROVE Reach(ws, k) \in Nat
  <2>1. k > 0 => ws[k] \in WindowType
    BY <1>1
  <2>2. k > 0 => ws[k].start \in Nat /\ ws[k].real \in Nat
    BY <2>1 DEF WindowType
  <2> QED BY <2>2, <1>1 DEF Reach, Ends
<1>3. ASSUME NEW k \in 1 .. n PROVE Reach(ws, k - 1) <= Reach(ws, k)
  BY DEF Chained
<1> DEFINE T == {d \in 0 .. n : Reach(ws, n - d) <= Reach(ws, n)}
<1>4. 0 \in T
  <2>1. n - 0 = n /\ n \in 0 .. n /\ 0 \in 0 .. n
    BY <1>1
  <2> QED BY <1>2, <2>1
<1>5. ASSUME NEW d \in 1 .. n, d - 1 \in T PROVE d \in T
  <2>1. n - (d - 1) \in 1 .. n /\ n - d \in 0 .. n /\ (n - (d - 1)) - 1 = n - d
        /\ n \in 0 .. n /\ n - (d - 1) \in 0 .. n
    BY <1>1
  <2>2. Reach(ws, n - d) <= Reach(ws, n - (d - 1))
    BY <1>3, <2>1
  <2>3. Reach(ws, n - (d - 1)) <= Reach(ws, n)
    BY <1>5
  <2>4. Reach(ws, n - d) \in Nat /\ Reach(ws, n - (d - 1)) \in Nat /\ Reach(ws, n) \in Nat
    BY <1>2, <2>1
  <2> QED BY <2>2, <2>3, <2>4
<1>6. \A d \in 0 .. n : d \in T
  <2> HIDE DEF T
  <2> QED BY <1>1, <1>4, <1>5, CountsUp
<1>7. ASSUME NEW k \in 0 .. n PROVE Reach(ws, k) <= Reach(ws, n)
  <2>1. n - k \in T /\ n - (n - k) = k
    <3>1. n - k \in 0 .. n /\ n - (n - k) = k
      BY <1>1
    <3> HIDE DEF T
    <3> QED BY <3>1, <1>6
  <2> QED BY <2>1
<1> QED BY <1>1, <1>2, <1>7

LEMMA NothingIsChained ==
    Chained(<< >>) /\ Len(<< >>) = 0 /\ Reach(<< >>, 0) = 0
BY DEF Chained, Reach

LEMMA ChainedAppend ==
    ASSUME NEW ws, Chained(ws), NEW w \in WindowType,
           w.start = Reach(ws, Len(ws)), w.real <= w.padded
    PROVE  /\ Chained(Append(ws, w))
           /\ Len(Append(ws, w)) = Len(ws) + 1
           /\ Reach(Append(ws, w), Len(ws) + 1) = Ends(w)
<1> DEFINE n == Len(ws)
           o == Append(ws, w)
<1>1. ws \in Seq(WindowType) /\ n \in Nat
  BY LenProperties DEF Chained
<1>2. o \in Seq(WindowType) /\ Len(o) = n + 1
      /\ o[n + 1] = w /\ \A i \in 1 .. n : o[i] = ws[i]
  BY <1>1, AppendProperties
<1>3. w.start \in Nat /\ w.real \in Nat
  BY DEF WindowType
<1> HIDE DEF o, n
<1>4. \A k \in 0 .. n : Reach(o, k) = Reach(ws, k)
  BY <1>1, <1>2 DEF Reach
<1>5. Reach(o, n + 1) = Ends(w)
  BY <1>1, <1>2 DEF Reach
<1>6. ASSUME NEW k \in 1 .. n + 1
      PROVE  /\ o[k].start <= Reach(o, k - 1)
             /\ Reach(o, k - 1) <= Reach(o, k)
             /\ o[k].real <= o[k].padded
  <2>1. CASE k \in 1 .. n
    <3>1. k - 1 \in 0 .. n /\ k \in 0 .. n
      BY <1>1, <2>1
    <3> QED BY <1>2, <1>4, <2>1, <3>1 DEF Chained, n
  <2>2. CASE k = n + 1
    <3>1. k - 1 = n /\ n \in 0 .. n
      BY <1>1, <2>2
    <3>2. o[k].start = Reach(o, k - 1) /\ o[k].real <= o[k].padded
      BY <1>2, <1>4, <2>2, <3>1 DEF n
    <3>3. Reach(o, k) = w.start + w.real /\ Reach(o, k - 1) = w.start
      BY <1>5, <3>1, <3>2, <2>2, <1>2 DEF Ends
    <3> QED BY <1>3, <3>2, <3>3
  <2> QED BY <1>1, <2>1, <2>2
<1>7. Chained(o)
  BY <1>2, <1>6 DEF Chained
<1> QED BY <1>2, <1>5, <1>7 DEF o, n

LEMMA PaddedEnough ==
    ASSUME model \in DOMAIN Files, NEW n \in Nat
    PROVE  PaddedToChunk(n) \in Nat /\ n <= PaddedToChunk(n)
<1>1. file.chunk \in Nat
  BY FileTyped
<1>2. CASE file.chunk = 0
  BY <1>2 DEF PaddedToChunk
<1>3. CASE file.chunk # 0
  <2> DEFINE c == file.chunk
             q == CeilDiv(n, c)
  <2>1. c \in Nat \ {0}
    BY <1>1, <1>3
  <2> HIDE DEF c
  <2>2. q \in Nat /\ n <= c * q
    BY <2>1, CeilDivBounds
  <2> HIDE DEF q
  <2>3. c * q = q * c /\ q * c \in Nat
    BY <2>1, <2>2
  <2>4. PaddedToChunk(n) = q * c
    BY <1>3 DEF PaddedToChunk, q, c
  <2> QED BY <2>2, <2>3, <2>4
<1> QED BY <1>2, <1>3

\* A cut goes forward, stays inside the audio, and its piece is kept.
LEMMA CutsForward ==
    ASSUME model \in DOMAIN Files, samples \in Nat, Quiet, NEW start \in Nat,
           MoreToCut(start, samples, file.quiet), NEW c \in QuietCuts(start, file.quiet)
    PROVE  c \in Nat /\ start < c /\ c <= samples /\ Kept(start, c, file.quiet)
<1> DEFINE q == file.quiet
<1>1. q.max \in Nat /\ q.search \in Nat /\ q.frame \in Nat /\ q.min \in Nat
  BY FileTyped
<1>2. q.frame > 0 /\ q.search <= q.max /\ QuietDeclared(q)
  BY DEF Quiet, QuietDeclared
<1>3. samples - start > q.max
  BY DEF MoreToCut
<1>4. q.max - q.search + q.frame \div 2 > 0 /\ q.max - q.search + q.frame \div 2 >= q.min
  BY <1>2, QuietAssumption DEF file
<1>5. PICK k \in 0 .. (q.search \div q.frame) - 1 :
        c = start + q.max - q.search + k * q.frame + q.frame \div 2
  BY DEF QuietCuts
<1> DEFINE f == q.frame
           s == q.search
           h == f \div 2
           d == s \div f
<1>6. f \in Nat \ {0} /\ s \in Nat
  BY <1>1, <1>2
<1>7. h \in Nat /\ h <= f
  BY <1>6
<1>8. d \in Nat /\ f * d <= s
  <2> HIDE DEF f, s
  <2>1. s = f * d + (s % f) /\ (s % f) \in 0 .. f - 1 /\ d \in Nat
    BY <1>6, DivMod
  <2> HIDE DEF d
  <2>2. f * d \in Nat
    BY <1>6, <2>1
  <2> QED BY <2>1, <2>2
<1>9. k \in Nat /\ k * f \in Nat /\ k * f + f <= s
  <2>1. k \in Nat /\ k + 1 <= d
    BY <1>8
  <2> HIDE DEF f, s, d, h
  <2>2. f \in Nat /\ k + 1 \in Int /\ d \in Int
    BY <1>6, <1>8, <2>1
  <2>3. f * (k + 1) <= f * d /\ f * (k + 1) \in Int /\ f * d \in Int
    BY <2>1, <2>2, MulMono
  <2>4. f * (k + 1) = k * f + f /\ k * f \in Nat
    BY <2>1, <2>2
  <2> QED BY <1>6, <1>8, <2>1, <2>3, <2>4
<1> DEFINE x == k * f
<1>10. x \in Nat /\ x + h <= s
  BY <1>6, <1>7, <1>9
<1>11. c = start + q.max - s + x + h
  BY <1>5
<1>12. s <= q.max /\ q.max - s + h > 0 /\ q.max - s + h >= q.min
  BY <1>2, <1>4
<1> HIDE DEF x, h, s, f
<1>13. c \in Nat /\ start < c /\ c <= samples /\ c - start >= q.min
  BY <1>1, <1>3, <1>6, <1>7, <1>10, <1>11, <1>12
<1> QED BY <1>13 DEF Kept
-----------------------------------------------------------------------------
LEMMA NothingYet == NoTranscription \/ Init => TInv
<1> SUFFICES ASSUME NoTranscription \/ Init PROVE TInv
  OBVIOUS
<1>1. model \in DOMAIN Files /\ Fresh /\ samples \in Nat
  <2>1. CASE Init
    BY <2>1, FileTyped DEF Init
  <2>2. CASE NoTranscription
    <3>1. (CHOOSE m \in DOMAIN Files : TRUE) \in DOMAIN Files
      BY FilesAssumption
    <3> QED BY <2>2, <3>1 DEF NoTranscription
  <2> QED BY <2>1, <2>2
<1> QED BY <1>1 DEF TInv, CallInv, ArgsInv, Fresh

\* What the file declares does not change during the call.
LEMMA SameCall ==
    ASSUME UNCHANGED inputs
    PROVE  /\ file' = file /\ Seeks' = Seeks /\ Quiet' = Quiet /\ Untold' = Untold
           /\ Stride' = Stride /\ Steady' = Steady
           /\ \A role \in Roles : Resolved(role)' = Resolved(role)
<1>1. file' = file /\ model' = model /\ samples' = samples /\ request' = request
  BY DEF file, inputs
<1>2. Seeks' = Seeks /\ Quiet' = Quiet /\ Stride' = Stride
  BY <1>1 DEF Seeks, Quiet, Stride
<1>3. Untold' = Untold
  BY <1>1, <1>2 DEF Untold
<1>4. \A ids : Monotone(ids)' = Monotone(ids)
  BY <1>1 DEF Monotone
<1>5. Steady' = Steady
  BY <1>1, <1>4 DEF Steady
<1>6. ASSUME NEW role \in Roles PROVE Resolved(role)' = Resolved(role)
  <2>1. Legacy' = Legacy
    BY <1>1 DEF Legacy
  <2>2. Offers(role)' = Offers(role)
    BY <1>1, <1>2, <2>1 DEF Offers
  <2> QED BY <1>1, <1>2, <2>1, <2>2
       DEF Resolved, HasToken, Redundant, Contradicted
<1> QED BY <1>1, <1>2, <1>3, <1>5, <1>6

\* A step that leaves the arguments alone.
LEMMA ArgsStay ==
    ASSUME ArgsInv, phase # "resolve", phase' # "resolve", phase # "refused",
           UNCHANGED <<inputs, args>>
    PROVE  ArgsInv'
BY SameCall DEF ArgsInv

LEMMA ResolveInv == TInv /\ Resolve => TInv'
<1> SUFFICES ASSUME TInv, Resolve PROVE TInv'
  OBVIOUS
<1>1. /\ model \in DOMAIN Files /\ samples \in Nat /\ phase = "resolve" /\ Fresh
      /\ UNCHANGED <<inputs, cut, heard, segments, windows, seek, prev, covered>>
      /\ model' = model /\ samples' = samples
  BY DEF TInv, CallInv, Resolve, inputs
<1>2. /\ phase' \in {"refused", "cut", "decode"}
      /\ phase' = "cut" => Quiet
      /\ phase' = "decode" => ~Quiet
      /\ phase' # "refused" => \A role \in Roles : Resolved(role) # "refused"
      /\ args' = [role \in Roles |-> Resolved(role)]
  BY DEF Resolve
<1>3. CallInv'
  BY <1>1, <1>2 DEF CallInv
<1>4. ArgsInv'
  BY <1>1, <1>2, SameCall DEF ArgsInv
<1>5. cut = 0 /\ heard = << >> /\ segments = << >> /\ windows = 0 /\ seek = 0
      /\ prev = << >> /\ covered = 0
  BY <1>1 DEF Fresh
<1>6. cut' = 0 /\ heard' = << >> /\ segments' = << >> /\ windows' = 0 /\ seek' = 0
      /\ prev' = << >> /\ covered' = 0
  BY <1>1, <1>5
<1>7. ASSUME ~Seeks PROVE PiecesInv'
  <2>1. /\ Chained(plan') /\ Reach(plan', Len(plan')) <= samples
        /\ Reach(plan', Len(plan')) \in Nat /\ Len(plan') \in Nat
        /\ Quiet => plan' = << >>
        /\ ~Quiet => /\ Planned(plan', samples, file.long.overlap)
                     /\ samples - Reach(plan', Len(plan')) < 1
    <3>1. CASE Quiet
      <4>1. plan' = << >>
        BY <3>1 DEF Resolve
      <4> QED BY <1>1, <3>1, <4>1, NothingIsChained
    <3>2. CASE ~Quiet
      <4>1. Planned(plan', samples, file.long.overlap)
        <5>1. CASE file.chunk = 0
          <6>1. plan' = PlanWindows(samples, file.long)
            BY <1>7, <3>2, <5>1 DEF Resolve
          <6>2. LongType(file.long)
            BY <1>1, FileTyped
          <6> QED BY <1>1, <6>1, <6>2, PlanIsChained
        <5>2. CASE file.chunk # 0
          <6>1. plan' = Whole(samples)
            BY <1>7, <3>2, <5>2 DEF Resolve
          <6> QED BY <1>1, <6>1, WholeIsChained
        <5> QED BY <5>1, <5>2
      <4>2. Chained(plan') /\ Reach(plan', Len(plan')) = samples /\ Len(plan') \in Nat
        BY <4>1 DEF Planned
      <4> QED BY <1>1, <3>2, <4>1, <4>2
    <3> QED BY <3>1, <3>2
  <2>2. << >> \in Seq(Seq(Int)) /\ Len(<< >>) = 0 /\ Reach(plan', 0) = 0
    BY DEF Reach
  <2>3. Quiet' = Quiet /\ Untold' = Untold /\ file' = file
    BY <1>1, SameCall
  <2>4. phase' = "cut" => plan' = << >>
    BY <1>2, <2>1
  <2>5. phase' \in {"decode", "done"} => samples - Reach(plan', Len(plan')) < Untold
    BY <1>2, <2>1 DEF Untold
  <2>6. phase' = "cut" => cut' = Reach(plan', Len(plan'))
    BY <1>6, <2>4, NothingIsChained
  <2> HIDE DEF Quiet
  <2> QED BY <1>1, <1>2, <1>6, <2>1, <2>2, <2>3, <2>5, <2>6 DEF PiecesInv
<1>8. ASSUME Seeks PROVE SeekInv' /\ SegmentsInv'
  <2>1. plan' = << >> /\ phase' # "cut"
    BY <1>2, <1>8 DEF Resolve, Quiet
  <2>2. << >> \in Seq(Int) /\ Len(<< >>) = 0 /\ file.prev_cap \in Nat /\ phase' # "done"
    BY <1>1, <1>2, FileTyped
  <2>3. Stride \in Nat /\ Stride * 0 = 0
    BY <1>1, FileTyped, TimeAssumption DEF Stride, AtMost
  <2>4. Stride' = Stride /\ file' = file
    BY <1>1, SameCall
  <2>5. SeekInv'
    BY <1>1, <1>6, <2>1, <2>2, <2>3, <2>4 DEF SeekInv
  <2>6. << >> \in Seq(SegmentType) /\ DOMAIN << >> = {}
    OBVIOUS
  <2>7. SegmentsInv'
    BY <1>6, <2>6 DEF SegmentsInv
  <2> QED BY <2>5, <2>7
<1>9. Seeks' = Seeks
  BY <1>1, SameCall
<1> QED BY <1>3, <1>4, <1>7, <1>8, <1>9 DEF TInv

\* The piece that ends a cut joins the plan, or is not worth decoding.
LEMMA PieceIsChained ==
    ASSUME model \in DOMAIN Files, Chained(plan), cut \in Nat,
           cut = Reach(plan, Len(plan)), NEW end \in Nat, cut <= end
    PROVE  /\ Chained(WithPiece(end)) /\ Len(WithPiece(end)) \in Nat
           /\ Reach(WithPiece(end), Len(WithPiece(end)))
                = IF Kept(cut, end, file.quiet) THEN end ELSE cut
<1> DEFINE w == Window(cut, end - cut, PaddedToChunk(end - cut))
<1>1. end - cut \in Nat
  OBVIOUS
<1>2. PaddedToChunk(end - cut) \in Nat /\ end - cut <= PaddedToChunk(end - cut)
  BY <1>1, PaddedEnough
<1>3. w \in WindowType /\ w.start = cut /\ w.real <= w.padded /\ Ends(w) = end
  BY <1>1, <1>2 DEF Window, WindowType, Ends
<1> HIDE DEF w
<1>4. Len(plan) \in Nat
  BY LenProperties DEF Chained
<1>5. CASE Kept(cut, end, file.quiet)
  <2>1. WithPiece(end) = Append(plan, w)
    BY <1>5 DEF WithPiece, w
  <2> QED BY <1>3, <1>4, <1>5, <2>1, ChainedAppend
<1>6. CASE ~Kept(cut, end, file.quiet)
  <2>1. WithPiece(end) = plan
    BY <1>6 DEF WithPiece
  <2> QED BY <1>4, <1>6, <2>1
<1> QED BY <1>5, <1>6

LEMMA CutInv == TInv /\ (CutAtQuiet \/ LastPiece) => TInv'
<1> SUFFICES ASSUME TInv, CutAtQuiet \/ LastPiece PROVE TInv'
  OBVIOUS
<1>1. /\ model \in DOMAIN Files /\ samples \in Nat /\ phase = "cut"
      /\ UNCHANGED <<inputs, args, heard, segments, windows, seek, prev, covered>>
      /\ model' = model /\ samples' = samples /\ phase' \in {"cut", "decode"}
  BY DEF TInv, CallInv, CutAtQuiet, LastPiece, inputs
<1>2. ~Seeks /\ PiecesInv
  BY <1>1 DEF TInv, SeekInv
<1>3. /\ Chained(plan) /\ cut \in 0 .. samples /\ cut = Reach(plan, Len(plan))
      /\ Quiet /\ heard = << >> /\ prev = << >> /\ covered = Reach(plan, Len(heard))
  BY <1>1, <1>2 DEF PiecesInv
<1>4. covered = 0 /\ Len(heard) = 0
  BY <1>3 DEF Reach
<1>5. /\ Chained(plan') /\ Len(plan') \in Nat /\ cut' \in 0 .. samples
      /\ Reach(plan', Len(plan')) \in 0 .. samples
      /\ phase' = "cut" => cut' = Reach(plan', Len(plan'))
      /\ phase' = "decode" => samples - Reach(plan', Len(plan')) < Untold
  <2>1. CASE CutAtQuiet
    <3>1. cut' \in QuietCuts(cut, file.quiet) /\ MoreToCut(cut, samples, file.quiet)
          /\ plan' = WithPiece(cut') /\ phase' = "cut"
      BY <1>1, <2>1 DEF CutAtQuiet
    <3> DEFINE c == cut'
    <3>2. c \in QuietCuts(cut, file.quiet) /\ cut \in Nat /\ plan' = WithPiece(c)
      BY <1>3, <3>1
    <3> HIDE DEF c
    <3>3. c \in Nat /\ cut < c /\ c <= samples /\ Kept(cut, c, file.quiet)
      BY <1>1, <1>3, <3>1, <3>2, CutsForward
    <3>4. cut <= c
      BY <3>2, <3>3
    <3>5. Chained(plan') /\ Len(plan') \in Nat /\ Reach(plan', Len(plan')) = c
      BY <1>1, <1>3, <3>2, <3>3, <3>4, PieceIsChained
    <3> QED BY <1>1, <3>1, <3>3, <3>5 DEF c
  <2>2. CASE LastPiece
    <3>1. plan' = WithPiece(samples) /\ cut' = cut /\ phase' = "decode"
      BY <2>2 DEF LastPiece
    <3>2. cut \in Nat /\ cut <= samples
      BY <1>1, <1>3
    <3>3. Chained(plan') /\ Len(plan') \in Nat
          /\ Reach(plan', Len(plan')) = IF Kept(cut, samples, file.quiet)
                                        THEN samples ELSE cut
      BY <1>1, <1>3, <3>1, <3>2, PieceIsChained
    <3>4. samples - Reach(plan', Len(plan')) < Larger(1, file.quiet.min)
      <4>1. file.quiet.min \in Nat
        BY <1>1, FileTyped
      <4>2. CASE Kept(cut, samples, file.quiet)
        BY <1>1, <3>3, <4>1, <4>2 DEF Larger
      <4>3. CASE ~Kept(cut, samples, file.quiet)
        BY <1>1, <3>2, <3>3, <4>1, <4>3 DEF Larger, Kept
      <4> QED BY <4>2, <4>3
    <3> QED BY <1>1, <1>3, <3>1, <3>2, <3>3, <3>4 DEF Untold
  <2> QED BY <2>1, <2>2
<1>6. CallInv'
  BY <1>1 DEF CallInv
<1>7. ArgsInv'
  BY <1>1, ArgsStay DEF TInv
<1>8. Seeks' = Seeks /\ Quiet' = Quiet /\ Untold' = Untold
  BY <1>1, SameCall
<1>9. PiecesInv'
  <2>1. heard' = << >> /\ prev' = << >> /\ covered' = 0 /\ Reach(plan', 0) = 0
    BY <1>1, <1>3, <1>4 DEF Reach
  <2>2. << >> \in Seq(Seq(Int)) /\ Len(<< >>) = 0
    OBVIOUS
  <2> HIDE DEF Quiet
  <2> QED BY <1>1, <1>3, <1>5, <1>8, <2>1, <2>2 DEF PiecesInv
<1> QED BY <1>2, <1>6, <1>7, <1>8, <1>9 DEF TInv
-----------------------------------------------------------------------------
LEMMA DecodeNextInv == TInv /\ DecodeNext => TInv'
<1> SUFFICES ASSUME TInv, DecodeNext PROVE TInv'
  OBVIOUS
<1> DEFINE n == Len(heard)
           w == plan[n + 1]
<1>1. /\ model \in DOMAIN Files /\ samples \in Nat /\ phase = "decode" /\ ~Seeks
      /\ UNCHANGED <<inputs, phase, args, cut, plan, segments, windows, seek, prev>>
      /\ model' = model /\ samples' = samples
  BY DEF TInv, CallInv, DecodeNext, inputs
<1>2. PiecesInv
  BY <1>1 DEF TInv
<1>3. /\ Chained(plan) /\ Reach(plan, Len(plan)) <= samples
      /\ heard \in Seq(Seq(Int)) /\ covered = Reach(plan, n) /\ n < Len(plan)
      /\ n \in Nat /\ Len(plan) \in Nat
  BY <1>2, ReachGoesUp, LenProperties DEF PiecesInv, DecodeNext
<1>4. n + 1 \in 1 .. Len(plan) /\ (n + 1) - 1 = n /\ n \in 0 .. Len(plan)
      /\ n + 1 \in 0 .. Len(plan) /\ Len(plan) \in 0 .. Len(plan)
  BY <1>3
<1>5. /\ w \in WindowType /\ w.start <= covered /\ covered <= Ends(w)
      /\ Reach(plan, n + 1) = Ends(w)
  <2>1. plan \in Seq(WindowType)
    BY <1>3 DEF Chained
  <2>2. Reach(plan, n + 1) = Ends(w)
    BY <1>3 DEF Reach
  <2> QED BY <1>3, <1>4, <2>1, <2>2 DEF Chained
<1>6. Ends(w) \in Nat /\ Ends(w) <= samples /\ covered \in Nat
  <2>1. /\ Reach(plan, n + 1) \in Nat /\ Reach(plan, n + 1) <= Reach(plan, Len(plan))
        /\ Reach(plan, n) \in Nat /\ Reach(plan, Len(plan)) \in Nat
    BY <1>3, <1>4, ReachGoesUp
  <2> QED BY <1>1, <1>3, <1>5, <2>1
<1>7. covered' = Covered(w.start, Ends(w))
  BY DEF DecodeNext
<1>8. PICK ids \in Answers(w, n + 1, Len(plan)) :
        heard' = Append(heard, IF Quiet \/ Len(plan) = 1 THEN Detokenize(ids)
                               ELSE TextOnly(ids))
  BY DEF DecodeNext
<1> HIDE DEF w
<1>9. covered' = Reach(plan, n + 1)
  BY <1>5, <1>6, <1>7 DEF Covered, Larger
<1>10. heard' \in Seq(Seq(Int)) /\ Len(heard') = n + 1
  <2>1. ids \in Seq(Int)
    BY <1>1, <1>3, <1>5, <1>6, <1>8, AnswersTyped
  <2>2. Detokenize(ids) \in Seq(Int)
    BY <2>1, DetokenizeTyped
  <2>3. heard' = Append(heard, Detokenize(ids))
    BY <1>8 DEF TextOnly
  <2> DEFINE t == Detokenize(ids)
             V == Seq(Int)
  <2> HIDE DEF t, V
  <2>4. t \in V /\ heard \in Seq(V) /\ heard' = Append(heard, t)
    BY <1>3, <2>2, <2>3 DEF t, V
  <2>5. heard' \in Seq(V) /\ Len(heard') = Len(heard) + 1
    BY <2>4, AppendProperties
  <2> QED BY <2>5 DEF V
<1>11. Seeks' = Seeks /\ Quiet' = Quiet /\ Untold' = Untold /\ file' = file
  BY <1>1, SameCall
<1>12. CallInv' /\ ArgsInv'
  <2>1. ArgsInv'
    BY <1>1, ArgsStay DEF TInv
  <2> QED BY <1>1, <2>1 DEF CallInv
<1>13. plan' = plan /\ prev' = prev /\ cut' = cut /\ phase' = phase
  BY <1>1
<1> HIDE DEF Quiet, n
<1>14. PiecesInv'
  <2>1. /\ Chained(plan') /\ Reach(plan', Len(plan')) <= samples'
        /\ Len(heard') <= Len(plan') /\ heard' \in Seq(Seq(Int))
        /\ covered' = Reach(plan', Len(heard'))
    BY <1>1, <1>3, <1>4, <1>9, <1>10, <1>13
  <2>2. /\ prev' = << >> /\ cut' \in 0 .. samples'
        /\ ~Quiet' => Planned(plan', samples', file'.long.overlap)
        /\ samples' - Reach(plan', Len(plan')) < Untold'
    BY <1>1, <1>2, <1>11, <1>13 DEF PiecesInv
  <2> QED BY <1>1, <1>13, <2>1, <2>2 DEF PiecesInv
<1> QED BY <1>1, <1>11, <1>12, <1>14 DEF TInv

LEMMA FinishInv == TInv /\ (Finish \/ FinishSeek) => TInv'
<1> SUFFICES ASSUME TInv, Finish \/ FinishSeek PROVE TInv'
  OBVIOUS
<1>1. /\ model \in DOMAIN Files /\ samples \in Nat /\ phase = "decode" /\ phase' = "done"
      /\ UNCHANGED <<inputs, args, cut, plan, heard, seek, prev, covered>>
      /\ model' = model /\ samples' = samples
  BY DEF TInv, CallInv, Finish, FinishSeek, inputs
<1>2. /\ Seeks' = Seeks /\ Quiet' = Quiet /\ Untold' = Untold /\ file' = file
      /\ Stride' = Stride /\ Steady' = Steady
  BY <1>1, SameCall
<1>3. CallInv' /\ ArgsInv'
  <2>1. ArgsInv'
    BY <1>1, ArgsStay DEF TInv
  <2> QED BY <1>1, <2>1 DEF CallInv
<1>4. ASSUME ~Seeks PROVE PiecesInv'
  <2>1. PiecesInv /\ Len(heard) = Len(plan)
    BY <1>1, <1>4 DEF TInv, Finish, FinishSeek
  <2>2. plan' = plan /\ heard' = heard /\ covered' = covered /\ prev' = prev /\ cut' = cut
    BY <1>1
  <2> QED BY <1>1, <1>2, <2>1, <2>2 DEF PiecesInv
<1>5. ASSUME Seeks PROVE SeekInv' /\ SegmentsInv'
  <2>1. SeekInv /\ SegmentsInv /\ seek >= samples
        /\ UNCHANGED <<segments, windows>>
    BY <1>1, <1>5 DEF TInv, Finish, FinishSeek
  <2>2. plan' = plan /\ heard' = heard /\ covered' = covered /\ prev' = prev /\ cut' = cut
        /\ seek' = seek /\ segments' = segments /\ windows' = windows
    BY <1>1, <2>1
  <2>3. SeekInv'
    BY <1>1, <1>2, <2>1, <2>2 DEF SeekInv
  <2>4. SegmentsInv'
    BY <1>2, <2>1, <2>2 DEF SegmentsInv
  <2> QED BY <2>3, <2>4
<1> QED BY <1>2, <1>3, <1>4, <1>5 DEF TInv

LEMMA ThrowInv == TInv /\ DriverThrows => TInv'
<1> SUFFICES ASSUME TInv, DriverThrows PROVE TInv'
  OBVIOUS
<1>1. /\ model \in DOMAIN Files /\ samples \in Nat /\ phase = "decode" /\ phase' = "refused"
      /\ UNCHANGED <<inputs, args, cut, plan, heard, segments, windows, seek, prev, covered>>
      /\ model' = model /\ samples' = samples
  BY DEF TInv, CallInv, DriverThrows, inputs
<1>2. /\ Seeks' = Seeks /\ Quiet' = Quiet /\ Untold' = Untold /\ file' = file
      /\ Stride' = Stride /\ Steady' = Steady
  BY <1>1, SameCall
<1>3. CallInv' /\ ArgsInv'
  <2>1. ArgsInv'
    BY <1>1, ArgsStay DEF TInv
  <2> QED BY <1>1, <2>1 DEF CallInv
<1>4. plan' = plan /\ heard' = heard /\ covered' = covered /\ prev' = prev /\ cut' = cut
      /\ seek' = seek /\ segments' = segments /\ windows' = windows
  BY <1>1
<1>5. ASSUME ~Seeks PROVE PiecesInv'
  <2>1. PiecesInv
    BY <1>1, <1>5 DEF TInv
  <2> QED BY <1>1, <1>2, <1>4, <2>1 DEF PiecesInv
<1>6. ASSUME Seeks PROVE SeekInv' /\ SegmentsInv'
  <2>1. SeekInv /\ SegmentsInv
    BY <1>1, <1>6 DEF TInv
  <2>2. SeekInv'
    BY <1>1, <1>2, <1>4, <2>1 DEF SeekInv
  <2>3. SegmentsInv'
    BY <1>2, <1>4, <2>1 DEF SegmentsInv
  <2> QED BY <2>2, <2>3
<1> QED BY <1>2, <1>3, <1>5, <1>6 DEF TInv
-----------------------------------------------------------------------------
(* The seek *)

LEMMA StrideMoves ==
    ASSUME model \in DOMAIN Files, Seeks
    PROVE  /\ Stride \in Nat \ {0} /\ Stride <= file.clip /\ Stride <= Rate
           /\ file.clip \in Nat \ {0} /\ Rate \in Nat \ {0} /\ Ticks \in Nat \ {0}
<1>1. file.clip \in Nat /\ file.clip > 0 /\ Rate \in Nat \ {0} /\ Ticks \in Nat \ {0}
  BY FileTyped, TimeAssumption DEF Seeks
<1> QED BY <1>1 DEF Stride, AtMost

\* llround is off by half a sample at most.
LEMMA RoundedNear ==
    ASSUME NEW t \in Nat
    PROVE  Rounded(t) \in Nat /\ 2 * (Rounded(t) * Ticks - t) >= -Ticks
<1> DEFINE a == 2 * t + Ticks
           k == 2 * Ticks
           q == a \div k
<1>1. Ticks \in Nat \ {0} /\ a \in Nat /\ k \in Nat \ {0}
  BY TimeAssumption
<1>2. Rounded(t) = q
  BY DEF Rounded
<1>3. a = k * q + (a % k) /\ (a % k) < k /\ (a % k) \in Nat /\ q \in Nat
  <2> HIDE DEF a, k
  <2> QED BY <1>1, DivMod
<1> HIDE DEF q
<1>4. k * q = 2 * (q * Ticks) /\ q * Ticks \in Nat
  BY <1>1, <1>3
<1> DEFINE x == q * Ticks
           r == a % k
<1>5. 2 * t + Ticks = 2 * x + r /\ r < 2 * Ticks /\ r \in Nat /\ x \in Nat
  BY <1>3, <1>4
<1> HIDE DEF x, r
<1>6. 2 * (x - t) >= -Ticks
  BY <1>1, <1>5
<1> QED BY <1>2, <1>3, <1>6 DEF x

LEMMA AdvanceBounds ==
    ASSUME model \in DOMAIN Files, Seeks, NEW last \in Int, NEW from \in Nat
    PROVE  /\ Advance(last, from) \in Nat
           /\ Stride <= Advance(last, from) /\ Advance(last, from) <= file.clip
           /\ last <= from + file.clip * Ticks
                => 2 * (from + Advance(last, from) * Ticks - last) >= -Ticks
<1> DEFINE c == file.clip
           t == last - from
           candidate == Larger(Rounded(t), Rate)
           a == Advance(last, from)
<1>1. c \in Nat \ {0} /\ Rate \in Nat \ {0} /\ Ticks \in Nat \ {0}
      /\ Stride \in Nat \ {0} /\ Stride <= c /\ Stride <= Rate
  BY StrideMoves
<1>2. a = IF last > from /\ candidate <= c THEN candidate ELSE c
  BY DEF Advance
<1> HIDE DEF a, c
<1>3. CASE last > from
  <2>1. t \in Nat
    BY <1>3
  <2> DEFINE r == Rounded(t)
  <2>2. r \in Nat /\ 2 * (r * Ticks - t) >= -Ticks
    BY <2>1, RoundedNear
  <2> HIDE DEF r
  <2>3. candidate \in Nat /\ r <= candidate /\ Rate <= candidate
    BY <1>1, <2>2 DEF Larger, r
  <2> HIDE DEF candidate
  <2>4. a \in Nat /\ Stride <= a /\ a <= c
    BY <1>1, <1>2, <2>3
  <2>5. ASSUME last <= from + c * Ticks PROVE 2 * (from + a * Ticks - last) >= -Ticks
    <3>1. CASE candidate <= c
      <4>1. a = candidate
        BY <1>2, <1>3, <3>1
      <4>2. Ticks * r <= Ticks * a /\ Ticks * r = r * Ticks /\ Ticks * a = a * Ticks
            /\ r * Ticks \in Int /\ a * Ticks \in Int
        <5>1. Ticks \in Nat /\ r \in Int /\ a \in Int /\ r <= a
          BY <1>1, <2>2, <2>3, <2>4, <4>1
        <5> QED BY <5>1, MulMono
      <4> DEFINE x == r * Ticks
                 y == a * Ticks
      <4>3. x \in Int /\ y \in Int /\ x <= y /\ 2 * (x - t) >= -Ticks
        BY <2>2, <4>2
      <4> HIDE DEF x, y
      <4>4. 2 * (from + y - last) >= -Ticks
        BY <1>1, <4>3
      <4> QED BY <4>4 DEF y
    <3>2. CASE ~(candidate <= c)
      <4>1. a = c
        BY <1>2, <3>2
      <4> DEFINE y == c * Ticks
      <4>2. y \in Int /\ last <= from + y
        BY <1>1, <2>5
      <4> HIDE DEF y
      <4>3. 2 * (from + y - last) >= -Ticks
        BY <1>1, <4>2
      <4> QED BY <4>1, <4>3 DEF y
    <3> QED BY <3>1, <3>2
  <2> QED BY <2>4, <2>5 DEF a, c
<1>4. CASE ~(last > from)
  <2>1. a = c
    BY <1>2, <1>4
  <2> DEFINE y == c * Ticks
  <2>2. y \in Nat
    BY <1>1
  <2> HIDE DEF y
  <2>3. 2 * (from + y - last) >= -Ticks
    BY <1>1, <1>4, <2>2
  <2> QED BY <1>1, <2>1, <2>3 DEF y, a, c
<1> QED BY <1>3, <1>4

LEMMA LastOfTyped ==
    ASSUME NEW S, NEW s \in Seq(S), NEW n \in Nat
    PROVE  LastOf(s, n) \in Seq(S) /\ Len(LastOf(s, n)) = AtMost(Len(s), n)
           /\ AtMost(Len(s), n) \in Nat /\ AtMost(Len(s), n) <= n
           /\ AtMost(Len(s), n) <= Len(s)
<1> DEFINE l == Len(s)
           m == AtMost(l, n)
<1>1. l \in Nat
  OBVIOUS
<1>2. m \in Nat /\ m <= n /\ m <= l
  BY <1>1 DEF AtMost
<1> HIDE DEF m
<1>3. l - m + 1 \in Int /\ l \in Int /\ \A i \in l - m + 1 .. l : s[i] \in S
  BY <1>1, <1>2
<1>4. /\ SubSeq(s, l - m + 1, l) \in Seq(S)
      /\ Len(SubSeq(s, l - m + 1, l)) = IF l - m + 1 <= l THEN l - (l - m + 1) + 1 ELSE 0
  BY <1>3, SubSeqProperties
<1>5. LastOf(s, n) = SubSeq(s, l - m + 1, l)
  BY DEF LastOf, m
<1> QED BY <1>1, <1>2, <1>4, <1>5 DEF m

\* The segments of one decode.
Cast(ids, from, to, timed) ==
    IF timed THEN SplitIntoSegments(ids, from, to).out
    ELSE << [start |-> from, end |-> to, text |-> Detokenize(ids), closed |-> FALSE] >>

LastClosed(ids, from, to, timed) ==
    IF timed THEN SplitIntoSegments(ids, from, to).last_end ELSE -1

LEMMA CastTyped ==
    ASSUME NEW ids \in Seq(Int), NEW from \in Nat, NEW to \in Nat, NEW timed
    PROVE  /\ Cast(ids, from, to, timed) \in Seq(SegmentType)
           /\ LastClosed(ids, from, to, timed) \in Int
<1>1. from \in Int /\ to \in Int
  OBVIOUS
<1>2. SplitIntoSegments(ids, from, to) \in WalkType
  BY <1>1, SplitTyped
<1>3. [start |-> from, end |-> to, text |-> Detokenize(ids), closed |-> FALSE] \in SegmentType
  BY <1>1, DetokenizeTyped DEF SegmentType
<1> DEFINE g == [start |-> from, end |-> to, text |-> Detokenize(ids), closed |-> FALSE]
<1> HIDE DEF g
<1>4. << g >> \in Seq(SegmentType)
  BY <1>3 DEF g
<1> QED BY <1>2, <1>4 DEF Cast, LastClosed, WalkType, g

LEMMA CastInOrder ==
    ASSUME NEW ids \in Seq(Int), NEW from \in Nat, NEW to \in Nat, NEW timed,
           Monotone(ids), file.clip \in Nat
    PROVE  /\ InOrder(Cast(ids, from, to, timed), from, LastClosed(ids, from, to, timed))
           /\ LastClosed(ids, from, to, timed) <= from + file.clip * Ticks
<1>1. CASE timed
  <2>1. to \in Int
    OBVIOUS
  <2> QED BY <1>1, <2>1, SplitInOrder DEF Cast, LastClosed
<1>2. CASE ~timed
  <2> DEFINE g == [start |-> from, end |-> to, text |-> Detokenize(ids), closed |-> FALSE]
  <2>1. Cast(ids, from, to, timed) = << g >> /\ LastClosed(ids, from, to, timed) = -1
    BY <1>2 DEF Cast, LastClosed
  <2>2. ~g.closed
    OBVIOUS
  <2> HIDE DEF g
  <2>3. DOMAIN << g >> = {1} /\ << g >>[1] = g
    OBVIOUS
  <2>4. InOrder(<< g >>, from, -1)
    BY <2>2, <2>3 DEF InOrder
  <2>5. file.clip * Ticks \in Nat
    BY TimeAssumption
  <2> QED BY <2>1, <2>4, <2>5
<1> QED BY <1>1, <1>2
-----------------------------------------------------------------------------
\* Segments that ended by `before` and ones in order from there on.
LEMMA JoinedInOrder ==
    ASSUME NEW old \in Seq(SegmentType), NEW new \in Seq(SegmentType),
           NEW before \in Int, NEW after \in Int, NEW last \in Int, Ticks \in Nat,
           before <= after,
           \A i \in DOMAIN old : old[i].closed => 2 * (before - old[i].end) >= -Ticks,
           \A i, j \in DOMAIN old : i < j /\ old[i].closed /\ old[j].closed
               => 2 * (old[j].start - old[i].end) >= -Ticks,
           InOrder(new, before, last), 2 * (after - last) >= -Ticks
    PROVE  LET all == old \o new IN
           /\ \A i \in DOMAIN all : all[i].closed => 2 * (after - all[i].end) >= -Ticks
           /\ \A i, j \in DOMAIN all : i < j /\ all[i].closed /\ all[j].closed
                => 2 * (all[j].start - all[i].end) >= -Ticks
<1> DEFINE m == Len(old)
           n == Len(new)
           all == old \o new
<1>1. m \in Nat /\ n \in Nat /\ DOMAIN old = 1 .. m /\ DOMAIN new = 1 .. n
  BY LenProperties
<1>2. /\ DOMAIN all = 1 .. m + n
      /\ \A i \in 1 .. m : all[i] = old[i]
      /\ \A i \in m + 1 .. m + n : all[i] = new[i - m]
  <2>1. all \in Seq(SegmentType) /\ Len(all) = m + n
        /\ \A i \in 1 .. m + n : all[i] = IF i <= m THEN old[i] ELSE new[i - m]
    BY ConcatProperties
  <2> HIDE DEF all, m, n
  <2>2. DOMAIN all = 1 .. m + n
    BY <2>1, LenProperties
  <2> QED BY <1>1, <2>1, <2>2
<1>3. \A i \in DOMAIN old : old[i].start \in Int /\ old[i].end \in Int
  <2>1. \A i \in DOMAIN old : old[i] \in SegmentType
    OBVIOUS
  <2> QED BY <2>1 DEF SegmentType
<1>4. \A i \in DOMAIN new : new[i].start \in Int /\ new[i].end \in Int
  <2>1. \A i \in DOMAIN new : new[i] \in SegmentType
    OBVIOUS
  <2> QED BY <2>1 DEF SegmentType
<1> HIDE DEF all, m, n
<1>5. ASSUME NEW i \in 1 .. n, new[i].closed
      PROVE  before <= new[i].start /\ new[i].end <= last
  BY <1>1, <1>5 DEF InOrder
<1>6. ASSUME NEW i \in 1 .. m + n, all[i].closed
      PROVE  2 * (after - all[i].end) >= -Ticks
  <2>1. CASE i \in 1 .. m
    <3>1. 2 * (before - old[i].end) >= -Ticks /\ all[i] = old[i] /\ old[i].end \in Int
      BY <1>1, <1>2, <1>3, <1>6, <2>1
    <3> DEFINE e == old[i].end
    <3>2. e \in Int /\ 2 * (before - e) >= -Ticks /\ all[i].end = e
      BY <3>1
    <3> HIDE DEF e
    <3>3. 2 * (after - e) >= -Ticks
      BY <3>2
    <3> QED BY <3>2, <3>3
  <2>2. CASE i \in m + 1 .. m + n
    <3>1. i - m \in 1 .. n /\ all[i] = new[i - m]
      BY <1>1, <1>2, <2>2
    <3>2. new[i - m].end \in Int /\ new[i - m].end <= last
      BY <1>1, <1>4, <1>5, <1>6, <3>1
    <3> QED BY <3>1, <3>2
  <2> QED BY <1>1, <2>1, <2>2
<1>7. ASSUME NEW i \in 1 .. m + n, NEW j \in 1 .. m + n, i < j, all[i].closed, all[j].closed
      PROVE  2 * (all[j].start - all[i].end) >= -Ticks
  <2>1. CASE j \in 1 .. m
    <3>1. i \in 1 .. m
      BY <1>1, <1>7, <2>1
    <3> QED BY <1>1, <1>2, <1>7, <2>1, <3>1
  <2>2. CASE j \in m + 1 .. m + n
    <3>1. j - m \in 1 .. n /\ all[j] = new[j - m]
      BY <1>1, <1>2, <2>2
    <3>2. new[j - m].start \in Int /\ before <= new[j - m].start
      BY <1>1, <1>4, <1>5, <1>7, <3>1
    <3>3. CASE i \in 1 .. m
      <4>1. 2 * (before - old[i].end) >= -Ticks /\ all[i] = old[i] /\ old[i].end \in Int
        BY <1>1, <1>2, <1>3, <1>7, <3>3
      <4> DEFINE a == old[i].end
                 z == new[j - m].start
      <4>2. a \in Int /\ z \in Int /\ 2 * (before - a) >= -Ticks /\ before <= z
        BY <3>2, <4>1
      <4>3. all[i].end = a /\ all[j].start = z
        BY <3>1, <4>1
      <4> HIDE DEF all, m, n, a, z
      <4>4. 2 * (z - a) >= -Ticks
        BY <4>2
      <4> QED BY <4>3, <4>4
    <3>4. CASE i \in m + 1 .. m + n
      <4>1. i - m \in 1 .. n /\ all[i] = new[i - m] /\ i - m < j - m
        BY <1>1, <1>2, <1>7, <2>2, <3>4
      <4>2. new[i - m].end <= new[j - m].start /\ new[i - m].end \in Int
        <5>1. i - m \in DOMAIN new /\ j - m \in DOMAIN new
          BY <1>1, <3>1, <4>1
        <5>2. new[i - m].closed /\ new[j - m].closed
          BY <1>7, <3>1, <4>1
        <5> QED BY <1>4, <4>1, <5>1, <5>2 DEF InOrder
      <4> QED BY <3>1, <3>2, <4>1, <4>2
    <3> QED BY <1>1, <3>3, <3>4
  <2> QED BY <1>1, <2>1, <2>2
<1> QED BY <1>2, <1>6, <1>7 DEF all

\* What a decode of the seek loop does.
Sought(ids) ==
    LET from == seek * Ticks
        to == (seek + AtMost(file.clip, samples - seek)) * Ticks
        timed == file.can_timestamp /\ WantTimestamps
    IN /\ segments' = segments \o Cast(ids, from, to, timed)
       /\ seek' = seek + Advance(LastClosed(ids, from, to, timed), from)
       /\ prev' = IF request.condition THEN LastOf(prev \o ids, file.prev_cap) ELSE prev

LEMMA ClipIsSought ==
    ASSUME DecodeClip
    PROVE  \E ids \in Answers(Window(seek, AtMost(file.clip, samples - seek), file.clip), 1, 1) :
             Sought(ids)
BY DEF DecodeClip, Sought, Cast, LastClosed

LEMMA DecodeClipInv == TInv /\ DecodeClip => TInv'
<1> SUFFICES ASSUME TInv, DecodeClip PROVE TInv'
  OBVIOUS
<1> DEFINE avail == AtMost(file.clip, samples - seek)
           from == seek * Ticks
           to == (seek + avail) * Ticks
           timed == file.can_timestamp /\ WantTimestamps
           next == Window(seek, avail, file.clip)
<1>1. /\ model \in DOMAIN Files /\ samples \in Nat /\ phase = "decode" /\ Seeks
      /\ UNCHANGED <<inputs, phase, args, cut, plan, heard>>
      /\ model' = model /\ samples' = samples /\ phase' = "decode"
      /\ seek < samples /\ windows' = windows + 1
      /\ covered' = Covered(seek, seek + avail)
  BY DEF TInv, CallInv, DecodeClip, inputs
<1>2. SeekInv /\ SegmentsInv
  BY <1>1 DEF TInv
<1>3. /\ file.clip \in Nat \ {0} /\ Stride \in Nat \ {0} /\ Ticks \in Nat \ {0}
      /\ Stride <= file.clip
  BY <1>1, StrideMoves
<1>4. /\ seek \in Nat /\ covered \in 0 .. samples /\ windows \in Nat /\ seek <= covered
  BY <1>1, <1>2 DEF SeekInv
<1>5. /\ avail \in Nat /\ seek + avail <= samples /\ avail <= file.clip
      /\ avail = file.clip \/ seek + avail = samples
  BY <1>1, <1>3, <1>4 DEF AtMost
<1>6. from \in Nat /\ to \in Nat /\ next \in WindowType /\ Ends(next) <= samples
  <2> HIDE DEF avail
  <2>1. from \in Nat /\ to \in Nat
    BY <1>3, <1>4, <1>5
  <2> QED BY <1>3, <1>4, <1>5, <2>1 DEF Window, WindowType, Ends
<1>7. PICK ids \in Answers(next, 1, 1) : Sought(ids)
  BY ClipIsSought
<1>8. ids \in Seq(Int)
  <2> HIDE DEF next
  <2> QED BY <1>1, <1>6, <1>7, AnswersTyped
<1> DEFINE last == LastClosed(ids, from, to, timed)
           cast == Cast(ids, from, to, timed)
           adv == Advance(last, from)
<1>9. /\ segments' = segments \o cast /\ seek' = seek + adv
      /\ prev' = IF request.condition THEN LastOf(prev \o ids, file.prev_cap) ELSE prev
  BY <1>7 DEF Sought
<1> HIDE DEF from, to, timed, next, avail
<1>10. cast \in Seq(SegmentType) /\ last \in Int
  BY <1>6, <1>8, CastTyped
<1>11. adv \in Nat /\ Stride <= adv /\ adv <= file.clip
  <2> HIDE DEF last
  <2> QED BY <1>1, <1>6, <1>10, AdvanceBounds
<1> HIDE DEF adv, cast
<1>12. /\ Seeks' = Seeks /\ Quiet' = Quiet /\ Untold' = Untold /\ file' = file
       /\ Stride' = Stride /\ Steady' = Steady
  BY <1>1, SameCall
<1>13. CallInv' /\ ArgsInv'
  <2>1. ArgsInv'
    BY <1>1, ArgsStay DEF TInv
  <2> QED BY <1>1, <2>1 DEF CallInv
<1>14. seek' \in Nat /\ covered' \in 0 .. samples /\ (seek' <= covered' \/ covered' = samples)
  <2>1. covered' = Larger(covered, seek + avail)
    BY <1>1, <1>4 DEF Covered
  <2> QED BY <1>1, <1>3, <1>4, <1>5, <1>9, <1>11, <2>1 DEF Larger
<1>15. Stride * windows' <= seek' /\ Stride * (windows' - 1) < samples
  <2>1. Stride * windows <= seek
    BY <1>2 DEF SeekInv
  <2>2. Stride * (windows + 1) = Stride * windows + Stride /\ Stride * windows \in Int
    <3>1. Stride \in Nat /\ windows \in Int /\ windows <= windows
      BY <1>3, <1>4
    <3> QED BY <3>1, MulMono
  <2>3. windows' - 1 = windows
    BY <1>1, <1>4
  <2> QED BY <1>1, <1>3, <1>4, <1>9, <1>11, <2>1, <2>2, <2>3
<1>16. prev' \in Seq(Int) /\ Len(prev') <= file.prev_cap
  <2>1. prev \in Seq(Int) /\ Len(prev) <= file.prev_cap /\ file.prev_cap \in Nat
    BY <1>1, <1>2, FileTyped DEF SeekInv
  <2> DEFINE both == prev \o ids
  <2>2. both \in Seq(Int)
    BY <1>8, <2>1, ConcatProperties
  <2> HIDE DEF both
  <2>3. LastOf(both, file.prev_cap) \in Seq(Int)
        /\ Len(LastOf(both, file.prev_cap)) <= file.prev_cap
    BY <2>1, <2>2, LastOfTyped
  <2> QED BY <1>9, <2>1, <2>3 DEF both
<1>17. SeekInv'
  <2>1. plan' = << >> /\ heard' = << >> /\ cut' = 0
    BY <1>1, <1>2 DEF SeekInv
  <2>2. windows' \in Nat
    BY <1>1, <1>4
  <2>3. file'.prev_cap = file.prev_cap /\ Stride' = Stride /\ samples' = samples
        /\ phase' = "decode"
    BY <1>1, <1>12
  <2> QED BY <1>14, <1>15, <1>16, <2>1, <2>2, <2>3 DEF SeekInv
<1>18. segments \in Seq(SegmentType) /\ segments' \in Seq(SegmentType)
  BY <1>2, <1>9, <1>10, ConcatProperties DEF SegmentsInv
<1>19. ASSUME Steady
       PROVE  /\ \A i \in DOMAIN segments' :
                   segments'[i].closed => 2 * (seek' * Ticks - segments'[i].end) >= -Ticks
              /\ \A i, j \in DOMAIN segments' :
                   i < j /\ segments'[i].closed /\ segments'[j].closed
                     => 2 * (segments'[j].start - segments'[i].end) >= -Ticks
  <2>1. Monotone(ids)
    <3>1. ids \in file.answers
      BY <1>7, <1>19 DEF Steady, Answers
    <3> QED BY <1>19, <3>1 DEF Steady
  <2>2. InOrder(cast, from, last) /\ last <= from + file.clip * Ticks
    BY <1>3, <1>6, <1>8, <2>1, CastInOrder DEF cast
  <2> HIDE DEF last
  <2>3. 2 * (from + Advance(last, from) * Ticks - last) >= -Ticks
    BY <1>1, <1>6, <1>10, <2>2, AdvanceBounds
  <2> DEFINE y == adv * Ticks
             after == from + y
  <2>4. y \in Nat
    BY <1>3, <1>11
  <2>5. 2 * (after - last) >= -Ticks
    <3>1. Advance(last, from) * Ticks = y
      BY DEF adv
    <3> HIDE DEF y
    <3>2. 2 * (from + (y - last)) >= -Ticks
      BY <2>3, <3>1
    <3> QED BY <1>3, <1>6, <1>10, <2>4, <3>2
  <2>6. after \in Int /\ from <= after /\ from \in Int /\ seek' * Ticks = after
    <3>1. (seek + adv) * Ticks = seek * Ticks + adv * Ticks
      BY <1>3, <1>4, <1>11
    <3>2. seek' * Ticks = after
      BY <1>9, <3>1 DEF from
    <3> HIDE DEF y
    <3> QED BY <1>6, <2>4, <3>2
  <2> HIDE DEF after
  <2>7. /\ \A i \in DOMAIN segments :
             segments[i].closed => 2 * (from - segments[i].end) >= -Ticks
        /\ \A i, j \in DOMAIN segments :
             i < j /\ segments[i].closed /\ segments[j].closed
               => 2 * (segments[j].start - segments[i].end) >= -Ticks
    BY <1>2, <1>19 DEF SegmentsInv, from
  <2>8. Ticks \in Nat
    BY <1>3
  <2> DEFINE s == segments
             t == segments'
  <2>9. t = s \o cast /\ s \in Seq(SegmentType)
    BY <1>9, <1>18
  <2>10. /\ \A i \in DOMAIN s : s[i].closed => 2 * (from - s[i].end) >= -Ticks
        /\ \A i, j \in DOMAIN s : i < j /\ s[i].closed /\ s[j].closed
             => 2 * (s[j].start - s[i].end) >= -Ticks
    BY <2>7
  <2> HIDE DEF s, t
  <2>11. LET all == s \o cast IN
        /\ \A i \in DOMAIN all : all[i].closed => 2 * (after - all[i].end) >= -Ticks
        /\ \A i, j \in DOMAIN all : i < j /\ all[i].closed /\ all[j].closed
             => 2 * (all[j].start - all[i].end) >= -Ticks
    BY <1>10, <2>2, <2>5, <2>6, <2>8, <2>9, <2>10, JoinedInOrder
  <2>12. /\ \A i \in DOMAIN t : t[i].closed => 2 * (after - t[i].end) >= -Ticks
         /\ \A i, j \in DOMAIN t : i < j /\ t[i].closed /\ t[j].closed
              => 2 * (t[j].start - t[i].end) >= -Ticks
    BY <2>9, <2>11
  <2> QED BY <2>6, <2>12 DEF t
<1>20. SegmentsInv'
  BY <1>12, <1>18, <1>19 DEF SegmentsInv
<1> QED BY <1>1, <1>12, <1>13, <1>17, <1>20 DEF TInv
-----------------------------------------------------------------------------
LEMMA TInvStep == TInv /\ [DoorNext]_doorVars => TInv'
<1> SUFFICES ASSUME TInv, [DoorNext]_doorVars PROVE TInv'
  OBVIOUS
<1>1. CASE UNCHANGED vars
  <2>1. UNCHANGED inputs /\ phase' = phase /\ args' = args /\ cut' = cut /\ plan' = plan
        /\ heard' = heard /\ segments' = segments /\ windows' = windows /\ seek' = seek
        /\ prev' = prev /\ covered' = covered /\ model' = model /\ samples' = samples
    BY <1>1 DEF vars, inputs
  <2>2. /\ Seeks' = Seeks /\ Quiet' = Quiet /\ Untold' = Untold /\ file' = file
        /\ Stride' = Stride /\ Steady' = Steady
        /\ \A role \in Roles : Resolved(role)' = Resolved(role)
    BY <2>1, SameCall
  <2>3. CallInv'
    BY <2>1 DEF TInv, CallInv, Fresh
  <2>4. ArgsInv'
    BY <2>1, <2>2 DEF TInv, ArgsInv
  <2>5. PiecesInv => PiecesInv'
    BY <2>1, <2>2 DEF PiecesInv
  <2>6. SeekInv => SeekInv'
    BY <2>1, <2>2 DEF SeekInv
  <2>7. SegmentsInv => SegmentsInv'
    BY <2>1, <2>2 DEF SegmentsInv
  <2> QED BY <2>1, <2>2, <2>3, <2>4, <2>5, <2>6, <2>7 DEF TInv
<1>2. CASE Next
  BY <1>2, ResolveInv, CutInv, DecodeNextInv, FinishInv, DecodeClipInv, ThrowInv DEF Next
<1> QED BY <1>1, <1>2 DEF DoorNext, CallTranscribe, CallGenerate, doorVars

LEMMA TInvHolds == DoorSpec => []TInv
<1>1. DoorInit => TInv
  BY NothingYet DEF DoorInit
<1> QED BY <1>1, TInvStep, PTL DEF DoorSpec

\* Every variable of transcribe keeps its type, the plan is never overrun and what was
\* covered is the call's own audio (transcribe.cpp).
THEOREM TranscribeTyped == DoorSpec => []TypeOK
<1>1. TInv => TypeOK
  <2> SUFFICES ASSUME TInv PROVE TypeOK
    OBVIOUS
  <2>1. /\ samples \in Nat /\ file.prev_cap \in Nat
        /\ phase \in {"resolve", "cut", "decode"} \/ Over
    BY FileTyped DEF TInv, CallInv, Over
  <2>2. args \in [Roles -> {"omitted", "token", "ignored", "refused", "dropped"}]
    <3>1. \A role \in Roles :
            Resolved(role) \in {"omitted", "token", "ignored", "refused", "dropped"}
      BY DEF Resolved
    <3> QED BY <3>1 DEF TInv, ArgsInv, NoArgs
  <2>3. /\ cut \in 0 .. samples /\ Len(heard) <= Len(plan)
        /\ \A k \in DOMAIN plan : plan[k].real <= plan[k].padded
        /\ Len(prev) <= file.prev_cap /\ covered \in 0 .. samples
    <3>1. CASE phase = "resolve"
      <4>1. cut = 0 /\ plan = << >> /\ heard = << >> /\ prev = << >> /\ covered = 0
        BY <3>1 DEF TInv, CallInv, Fresh
      <4> QED BY <2>1, <4>1
    <3>2. CASE phase # "resolve" /\ Seeks
      <4>1. SeekInv
        BY <3>2 DEF TInv
      <4>2. plan = << >> /\ heard = << >> /\ cut = 0
        BY <4>1 DEF SeekInv
      <4> QED BY <2>1, <4>1, <4>2 DEF SeekInv
    <3>3. CASE phase # "resolve" /\ ~Seeks
      <4>1. PiecesInv
        BY <3>3 DEF TInv
      <4>2. /\ Chained(plan) /\ Reach(plan, Len(plan)) <= samples
            /\ heard \in Seq(Seq(Int)) /\ Len(heard) <= Len(plan)
            /\ covered = Reach(plan, Len(heard)) /\ prev = << >> /\ cut \in 0 .. samples
        BY <4>1 DEF PiecesInv
      <4>3. Len(heard) \in 0 .. Len(plan) /\ Len(plan) \in 0 .. Len(plan)
        BY <4>2, ReachGoesUp, LenProperties
      <4>4. covered \in Nat /\ covered <= Reach(plan, Len(plan))
            /\ Reach(plan, Len(plan)) \in Nat
        BY <4>2, <4>3, ReachGoesUp
      <4>5. \A k \in DOMAIN plan : plan[k].real <= plan[k].padded
        BY <4>2, LenProperties DEF Chained
      <4> QED BY <2>1, <4>2, <4>4, <4>5
    <3> QED BY <3>1, <3>2, <3>3
  <2> QED BY <2>1, <2>2, <2>3 DEF TypeOK
<1> QED BY <1>1, TInvHolds, PTL

\* transcribe decodes all of its audio, whichever way it is cut, wherever the quiet frames
\* are and whatever segments the model closes; only a quiet tail too short to be kept is
\* left (asr_long_form.h:18-21, 88-96).
THEOREM AllAudioHeard == DoorSpec => []EverySampleHeard
<1>1. TInv => EverySampleHeard
  <2> SUFFICES ASSUME TInv, phase = "done"
               PROVE  samples - covered < IF Quiet THEN Larger(1, file.quiet.min) ELSE 1
    BY DEF EverySampleHeard
  <2>1. CASE Seeks
    <3>1. SeekInv /\ samples \in Nat /\ ~Quiet
      BY <2>1 DEF TInv, CallInv, Quiet
    <3>2. covered = samples
      BY <3>1 DEF SeekInv
    <3> QED BY <3>1, <3>2
  <2>2. CASE ~Seeks
    <3>1. covered = Reach(plan, Len(plan)) /\ samples - Reach(plan, Len(plan)) < Untold
      BY <2>2 DEF TInv, PiecesInv
    <3> QED BY <3>1 DEF Untold
  <2> QED BY <2>1, <2>2
<1> QED BY <1>1, TInvHolds, PTL

\* The windows of every long audio keep the promise of plan_windows (asr_long_form.h:74-80).
THEOREM PlanCovers == DoorSpec => []WindowsCover
<1>1. TInv => WindowsCover
  <2> SUFFICES ASSUME TInv, Len(plan) > 1, ~Quiet
               PROVE  Covers(plan, samples, file.long.overlap)
    BY DEF WindowsCover
  <2>1. plan # << >>
    <3>1. ~(Len(<< >>) > 1)
      OBVIOUS
    <3> QED BY <3>1
  <2>2. phase # "resolve" /\ ~Seeks
    BY <2>1 DEF TInv, CallInv, Fresh, SeekInv
  <2>3. Planned(plan, samples, file.long.overlap)
    BY <2>2 DEF TInv, PiecesInv
  <2> QED BY <2>3 DEF Planned
<1> QED BY <1>1, TInvHolds, PTL

\* A seek takes no more decodes than the audio has seconds, or clips if those are shorter,
\* however short the segments the model closes (transcribe.cpp:457-461).
THEOREM SeekIsBounded == DoorSpec => []BoundedWork
<1>1. TInv => BoundedWork
  <2> SUFFICES ASSUME TInv, Seeks PROVE windows <= CeilDiv(samples, Stride)
    BY DEF BoundedWork, Stride
  <2>1. Stride \in Nat \ {0} /\ samples \in Nat
    BY StrideMoves DEF TInv, CallInv
  <2> DEFINE q == CeilDiv(samples, Stride)
  <2>2. q \in Nat /\ samples <= Stride * q
    BY <2>1, CeilDivBounds
  <2> HIDE DEF q
  <2>3. CASE phase = "resolve"
    BY <2>2, <2>3 DEF TInv, CallInv, Fresh, q
  <2>4. CASE phase # "resolve"
    <3>1. windows \in Nat /\ (windows > 0 => Stride * (windows - 1) < samples)
      BY <2>4 DEF TInv, SeekInv
    <3>2. ~(q <= windows - 1) \/ windows = 0
      <4> SUFFICES ASSUME q <= windows - 1, windows # 0 PROVE FALSE
        OBVIOUS
      <4>1. q \in Int /\ windows - 1 \in Int /\ Stride \in Nat
        BY <2>1, <2>2, <3>1
      <4>2. Stride * q <= Stride * (windows - 1) /\ Stride * q \in Int
            /\ Stride * (windows - 1) \in Int
        BY <4>1, MulMono
      <4> QED BY <2>1, <2>2, <3>1, <4>2
    <3> QED BY <2>2, <3>1, <3>2 DEF q
  <2> QED BY <2>3, <2>4
<1> QED BY <1>1, TInvHolds, PTL

\* When the timestamps of every answer go forward, the segments a call closes come out in
\* order across its decodes, give or take llround's half sample (transcribe.h:20-24).
THEOREM SegmentsInOrder == DoorSpec => []ClosedInOrder
<1>1. TInv => ClosedInOrder
  <2> SUFFICES ASSUME TInv, Seeks, Steady,
                      NEW i \in {k \in DOMAIN segments : segments[k].closed},
                      NEW j \in {k \in DOMAIN segments : segments[k].closed}, i < j
               PROVE  2 * (segments[j].start - segments[i].end) >= -Ticks
    BY DEF ClosedInOrder, Steady
  <2>1. CASE phase = "resolve"
    <3>1. segments = << >>
      BY <2>1 DEF TInv, CallInv, Fresh
    <3> QED BY <3>1
  <2>2. CASE phase # "resolve"
    BY <2>2 DEF TInv, SegmentsInv
  <2> QED BY <2>1, <2>2
<1> QED BY <1>1, TInvHolds, PTL

\* A name the caller gives reaches the model, is ignored by a file that has no choice to make
\* there, or is one a file in chunks has and drops: nothing else becomes of it in a call that
\* goes on (transcribe.cpp:214-224, 315-325).
THEOREM NamesAreAccounted == DoorSpec => []NamesAccounted
<1>1. TInv => NamesAccounted
  <2> SUFFICES ASSUME TInv, NEW role \in Roles
               PROVE  LET name == request.names[role] IN
                      /\ args[role] = "ignored" =>
                           /\ name \notin file.tables[role]
                           /\ role = "language" => file.speaks = {} \/ name \in file.speaks
                           /\ role = "task" => name # "translate"
                           /\ Seeks /\ file.bpe /\ file.tables["language"] = {}
                                => ~file.probes[role]
                      /\ args[role] = "dropped" =>
                           /\ file.chunk > 0 /\ file.clip = 0
                           /\ \/ name \in file.tables[role]
                              \/ file.bpe /\ name \in file.pieces
                      /\ phase \notin {"resolve", "refused"} /\ name # Unnamed
                         => args[role] \in {"token", "ignored", "dropped"}
    BY DEF NamesAccounted
  <2>1. CASE phase = "resolve"
    <3>1. args[role] = "omitted"
      BY <2>1 DEF TInv, ArgsInv, NoArgs
    <3> QED BY <2>1, <3>1
  <2>2. CASE phase # "resolve"
    <3>1. args[role] = Resolved(role) /\ (phase # "refused" => Resolved(role) # "refused")
      BY <2>2 DEF TInv, ArgsInv
    <3> DEFINE name == request.names[role]
    <3>2. ASSUME Resolved(role) = "ignored"
          PROVE  ~HasToken(role, name) /\ Redundant(role, name)
      BY <3>2 DEF Resolved
    <3>3. ASSUME Resolved(role) = "ignored"
          PROVE  /\ name \notin file.tables[role]
                 /\ role = "language" => file.speaks = {} \/ name \in file.speaks
                 /\ role = "task" => name # "translate"
                 /\ Seeks /\ file.bpe /\ file.tables["language"] = {} => ~file.probes[role]
      BY <3>2, <3>3 DEF HasToken, Redundant, Contradicted, Offers, Legacy
    <3>4. ASSUME Resolved(role) # "refused", name # Unnamed
          PROVE  Resolved(role) \in {"token", "ignored", "dropped"}
      BY <3>4 DEF Resolved
    <3>5. file.clip \in Nat /\ file.chunk \in Nat
      BY FileTyped DEF TInv, CallInv
    <3>6. ASSUME Resolved(role) = "dropped"
          PROVE  /\ file.chunk > 0 /\ file.clip = 0
                 /\ name \in file.tables[role] \/ (file.bpe /\ name \in file.pieces)
      <4>1. HasToken(role, name) /\ ~Seeks /\ file.chunk # 0
        BY <3>6 DEF Resolved
      <4> QED BY <3>5, <4>1 DEF HasToken, Legacy, Seeks
    <3> QED BY <3>1, <3>3, <3>4, <3>6
  <2> QED BY <2>1, <2>2
<1> QED BY <1>1, TInvHolds, PTL
-----------------------------------------------------------------------------
(* The merge: the table of common runs *)

\* A run that ends at a cell is no longer than either text up to there.
IsTable(run, M, N) ==
    /\ DOMAIN run = (0 .. M) \X (0 .. N)
    /\ \A i \in 0 .. M, j \in 0 .. N :
         run[<<i, j>>] \in Nat /\ run[<<i, j>>] <= i /\ run[<<i, j>>] <= j

\* The table is the one its definition asks for.
IsRunTable(run, x, y) ==
    /\ DOMAIN run = (0 .. Len(x)) \X (0 .. Len(y))
    /\ \A i \in 0 .. Len(x), j \in 0 .. Len(y) :
         run[<<i, j>>] = IF i = 0 \/ j = 0 THEN 0
                         ELSE IF x[i] = y[j] THEN run[<<i - 1, j - 1>>] + 1 ELSE 0

LEMMA RunTableWalk ==
    ASSUME NEW x \in Seq(Int), NEW y \in Seq(Int)
    PROVE  IsRunTable(RunTable(x, y), x, y)
<1> DEFINE M == Len(x)
           N == Len(y)
           C == Cells(x, y)
           E(r, c) == IF c[1] = 0 \/ c[2] = 0 THEN 0
                      ELSE IF x[c[1]] = y[c[2]] THEN r[<<c[1] - 1, c[2] - 1>>] + 1 ELSE 0
           Is(r) == r = [c \in C |-> E(r, c)]
           Row == [0 .. N -> Nat]
           RowAfter(i, row) == [j \in 0 .. N |->
                               IF j = 0 THEN 0 ELSE IF x[i] = y[j] THEN row[j - 1] + 1 ELSE 0]
           F == [i \in 1 .. M |-> [row \in Row |-> RowAfter(i, row)]]
           zeros == [j \in 0 .. N |-> 0]
           run == CHOOSE r : Is(r)
<1>1. M \in Nat /\ N \in Nat /\ C = (0 .. M) \X (0 .. N)
  BY LenProperties DEF Cells
<1>2. ASSUME NEW i \in 1 .. M, NEW row \in Row PROVE RowAfter(i, row) \in Row
  <2>1. \A j \in 0 .. N : j # 0 => j - 1 \in 0 .. N
    BY <1>1
  <2>2. ASSUME NEW j \in 0 .. N
        PROVE  (IF j = 0 THEN 0 ELSE IF x[i] = y[j] THEN row[j - 1] + 1 ELSE 0) \in Nat
    <3>1. ASSUME j # 0 PROVE row[j - 1] + 1 \in Nat
      <4>1. row[j - 1] \in Nat
        BY <2>1, <3>1
      <4> QED BY <4>1
    <3>2. CASE j = 0 \/ x[i] # y[j]
      BY <3>2
    <3>3. CASE ~(j = 0 \/ x[i] # y[j])
      <4>1. row[j - 1] + 1 \in Nat
        BY <3>1, <3>3
      <4> QED BY <3>3, <4>1
    <3> QED BY <3>2, <3>3
  <2> QED BY <2>2
<1>3. Steps(F, M, Row)
  <2> HIDE DEF RowAfter, Row
  <2> QED BY <1>2 DEF Steps
<1>4. zeros \in Row
  OBVIOUS
<1> HIDE DEF M, N, C, Is, F, Row, run, RowAfter, zeros
<1>5. PICK g : Walked(g, F, M, Row, zeros)
  BY <1>1, <1>3, <1>4, Iterates
<1> DEFINE h == [c \in C |-> g[c[1]][c[2]]]
<1>6. Is(h)
  <2>1. ASSUME NEW i \in 0 .. M, NEW j \in 0 .. N
        PROVE  g[i][j] = E(h, <<i, j>>)
    <3>1. CASE i = 0
      <4>1. g[i] = zeros
        BY <1>5, <3>1 DEF Walked
      <4> QED BY <3>1, <4>1 DEF zeros
    <3>2. CASE i # 0
      <4>1. i \in 1 .. M /\ i - 1 \in 0 .. M
        BY <1>1, <3>2
      <4>2. g[i - 1] \in Row /\ g[i] = F[i][g[i - 1]]
        BY <1>5, <4>1 DEF Walked
      <4>3. g[i] = RowAfter(i, g[i - 1])
        BY <4>1, <4>2 DEF F
      <4>4. g[i][j] = IF j = 0 THEN 0 ELSE IF x[i] = y[j] THEN g[i - 1][j - 1] + 1 ELSE 0
        BY <4>3 DEF RowAfter
      <4>5. CASE j = 0
        BY <4>4, <4>5
      <4>6. CASE j # 0
        <5>1. j - 1 \in 0 .. N
          BY <1>1, <4>6
        <5>2. <<i - 1, j - 1>> \in C
          BY <1>1, <4>1, <5>1
        <5>3. h[<<i - 1, j - 1>>] = g[i - 1][j - 1]
          BY <5>2
        <5> HIDE DEF h
        <5> QED BY <3>2, <4>4, <4>6, <5>3
      <4> QED BY <4>5, <4>6
    <3> QED BY <3>1, <3>2
  <2>2. ASSUME NEW c \in C PROVE g[c[1]][c[2]] = E(h, c)
    <3>1. PICK i \in 0 .. M, j \in 0 .. N : c = <<i, j>>
      BY <1>1
    <3>2. c[1] = i /\ c[2] = j
      BY <3>1
    <3> HIDE DEF h, E
    <3> QED BY <2>1, <3>1, <3>2
  <2> DEFINE hh == h
  <2>3. hh = [c \in C |-> g[c[1]][c[2]]]
    OBVIOUS
  <2>4. \A c \in C : g[c[1]][c[2]] = E(hh, c)
    BY <2>2
  <2> HIDE DEF hh, E
  <2>5. hh = [c \in C |-> E(hh, c)]
    BY <2>3, <2>4
  <2> QED BY <2>5 DEF hh, Is
<1> HIDE DEF h
<1>7. Is(run)
  BY <1>6 DEF run
<1>8. DOMAIN run = C /\ \A i \in 0 .. M, j \in 0 .. N :
        run[<<i, j>>] = IF i = 0 \/ j = 0 THEN 0
                        ELSE IF x[i] = y[j] THEN run[<<i - 1, j - 1>>] + 1 ELSE 0
  <2>1. run = [c \in C |-> E(run, c)]
    BY <1>7 DEF Is
  <2> HIDE DEF E
  <2>2. \A c \in C : run[c] = E(run, c)
    BY <2>1
  <2>3. DOMAIN run = C
    BY <2>1
  <2>4. ASSUME NEW i \in 0 .. M, NEW j \in 0 .. N
        PROVE  run[<<i, j>>] = E(run, <<i, j>>)
    BY <1>1, <2>2
  <2>5. ASSUME NEW i \in 0 .. M, NEW j \in 0 .. N
        PROVE  E(run, <<i, j>>) = IF i = 0 \/ j = 0 THEN 0
                        ELSE IF x[i] = y[j] THEN run[<<i - 1, j - 1>>] + 1 ELSE 0
    BY DEF E
  <2> QED BY <2>3, <2>4, <2>5
<1>9. RunTable(x, y) = run
  BY DEF RunTable, run, Is, C
<1> QED BY <1>1, <1>8, <1>9 DEF IsRunTable, M, N

LEMMA RunTableIs ==
    ASSUME NEW x \in Seq(Int), NEW y \in Seq(Int)
    PROVE  IsTable(RunTable(x, y), Len(x), Len(y))
<1> DEFINE M == Len(x)
           N == Len(y)
           run == RunTable(x, y)
<1>1. M \in Nat /\ N \in Nat
  BY LenProperties
<1>2. DOMAIN run = (0 .. M) \X (0 .. N) /\ \A i \in 0 .. M, j \in 0 .. N :
        run[<<i, j>>] = IF i = 0 \/ j = 0 THEN 0
                        ELSE IF x[i] = y[j] THEN run[<<i - 1, j - 1>>] + 1 ELSE 0
  <2>1. IsRunTable(run, x, y)
    BY RunTableWalk
  <2> HIDE DEF run
  <2> QED BY <2>1 DEF IsRunTable
<1> HIDE DEF M, N, run
<1> DEFINE Good(i) == \A j \in 0 .. N :
              run[<<i, j>>] \in Nat /\ run[<<i, j>>] <= i /\ run[<<i, j>>] <= j
           T == {i \in 0 .. M : Good(i)}
<1>3. 0 \in T
  <2>1. 0 \in 0 .. M
    BY <1>1
  <2>2. \A j \in 0 .. N : run[<<0, j>>] = 0
    <3> TAKE j \in 0 .. N
    <3> QED BY <1>2, <2>1
  <2>3. Good(0)
    <3> SUFFICES ASSUME NEW j \in 0 .. N
                 PROVE  run[<<0, j>>] \in Nat /\ run[<<0, j>>] <= 0 /\ run[<<0, j>>] <= j
      OBVIOUS
    <3>1. run[<<0, j>>] = 0 /\ 0 <= j
      BY <2>2, <1>1
    <3> QED BY <3>1
  <2> QED BY <2>1, <2>3
<1>4. ASSUME NEW i \in 1 .. M, i - 1 \in T PROVE i \in T
  <2>1. ASSUME NEW j \in 0 .. N
        PROVE  run[<<i, j>>] \in Nat /\ run[<<i, j>>] <= i /\ run[<<i, j>>] <= j
    <3>1. i \in 0 .. M /\ i \in Nat /\ i > 0 /\ j \in Nat
      BY <1>1
    <3>2. run[<<i, j>>] = IF i = 0 \/ j = 0 THEN 0
                          ELSE IF x[i] = y[j] THEN run[<<i - 1, j - 1>>] + 1 ELSE 0
      BY <1>2, <3>1
    <3>3. CASE j = 0
      BY <3>1, <3>2, <3>3
    <3>4. CASE j # 0
      <4>1. j - 1 \in 0 .. N
        BY <1>1, <3>4
      <4>2. run[<<i - 1, j - 1>>] \in Nat /\ run[<<i - 1, j - 1>>] <= i - 1
            /\ run[<<i - 1, j - 1>>] <= j - 1
        BY <1>4, <4>1
      <4> DEFINE u == run[<<i, j>>]
                 v == run[<<i - 1, j - 1>>]
      <4>3. u = v + 1 \/ u = 0
        BY <3>1, <3>2, <3>4
      <4>4. v \in Nat /\ v <= i - 1 /\ v <= j - 1
        BY <4>2
      <4> HIDE DEF u, v
      <4>5. u \in Nat /\ u <= i /\ u <= j
        BY <3>1, <4>3, <4>4
      <4> QED BY <4>5 DEF u
    <3> QED BY <3>3, <3>4
  <2>2. i \in 0 .. M
    BY <1>1
  <2> QED BY <2>1, <2>2
<1>5. \A i \in 0 .. M : i \in T
  <2> HIDE DEF T
  <2> QED BY <1>1, <1>3, <1>4, CountsUp
<1> QED BY <1>1, <1>2, <1>5 DEF IsTable, M, N, run
-----------------------------------------------------------------------------
\* A nonempty set of numbers that has a bound has a greatest one.
LEMMA GreatestNumber ==
    ASSUME NEW b \in Nat, NEW S, S \subseteq 0 .. b, S # {}
    PROVE  \E x \in S : \A y \in S : y <= x
<1> DEFINE T == {k \in 0 .. b : b - k \in S}
<1>1. T \subseteq Nat /\ T # {}
  <2>1. PICK s \in S : TRUE
    OBVIOUS
  <2>2. b - s \in 0 .. b /\ b - (b - s) = s
    BY <2>1
  <2>3. b - s \in T
    BY <2>2
  <2>4. T \subseteq Nat
    OBVIOUS
  <2> HIDE DEF T
  <2> QED BY <2>3, <2>4
<1>2. PICK k \in T : \A y \in T : k <= y
  <2> HIDE DEF T
  <2> QED BY <1>1, LeastNumber
<1>3. b - k \in S /\ k \in 0 .. b
  OBVIOUS
<1>4. ASSUME NEW y \in S PROVE y <= b - k
  <2>1. y \in 0 .. b /\ b - y \in 0 .. b /\ b - (b - y) = y
    OBVIOUS
  <2>2. b - y \in T
    BY <2>1
  <2>3. k <= b - y
    BY <1>2, <2>2
  <2> QED BY <1>3, <2>1, <2>3
<1> QED BY <1>3, <1>4

\* Every nonempty set of cells has a last one.
LEMMA LastCell ==
    ASSUME NEW M \in Nat, NEW N \in Nat, NEW S, S \subseteq (0 .. M) \X (0 .. N), S # {}
    PROVE  \E c \in S : \A d \in S : Later(c, d)
<1>1. ASSUME NEW c \in S
      PROVE  c[1] \in 0 .. M /\ c[2] \in 0 .. N /\ c = <<c[1], c[2]>>
  OBVIOUS
<1> DEFINE R == {c[1] : c \in S}
<1>2. R \subseteq 0 .. M /\ R # {}
  BY <1>1
<1>3. PICK i \in R : \A y \in R : y <= i
  <2> HIDE DEF R
  <2> QED BY <1>2, GreatestNumber
<1> DEFINE Q == {j \in 0 .. N : <<i, j>> \in S}
<1>4. Q \subseteq 0 .. N /\ Q # {}
  <2>1. PICK c \in S : c[1] = i
    OBVIOUS
  <2> QED BY <1>1, <2>1
<1>5. PICK j \in Q : \A y \in Q : y <= j
  <2> HIDE DEF Q
  <2> QED BY <1>4, GreatestNumber
<1>6. <<i, j>> \in S
  OBVIOUS
<1>7. ASSUME NEW d \in S PROVE Later(<<i, j>>, d)
  <2>1. d[1] <= i /\ d[1] \in 0 .. M /\ d[2] \in 0 .. N /\ i \in 0 .. M /\ j \in 0 .. N
    BY <1>1, <1>2, <1>3, <1>5
  <2>2. d[1] = i => d[2] <= j
    <3>1. d[1] = i => d[2] \in Q
      BY <1>1
    <3> HIDE DEF Q
    <3> QED BY <1>5, <3>1
  <2>3. <<i, j>>[1] = i /\ <<i, j>>[2] = j
    OBVIOUS
  <2> QED BY <2>1, <2>2, <2>3 DEF Later
<1> QED BY <1>6, <1>7

LEMMA LastLongestIs ==
    ASSUME NEW M \in Nat, NEW N \in Nat, NEW run, IsTable(run, M, N)
    PROVE  \E i \in 0 .. M, j \in 0 .. N : LastLongest(run) = <<i, j>>
<1> DEFINE D == (0 .. M) \X (0 .. N)
           V == {run[c] : c \in D}
           longest == {c \in DOMAIN run : \A d \in DOMAIN run : run[c] >= run[d]}
<1>1. DOMAIN run = D /\ \A c \in D : run[c] \in 0 .. M
  <2>1. ASSUME NEW c \in D PROVE run[c] \in 0 .. M
    <3>1. PICK i \in 0 .. M, j \in 0 .. N : c = <<i, j>>
      OBVIOUS
    <3> QED BY <3>1 DEF IsTable
  <2> QED BY <2>1 DEF IsTable
<1>2. <<0, 0>> \in D
  OBVIOUS
<1>3. V \subseteq 0 .. M /\ V # {}
  BY <1>1, <1>2
<1>4. PICK v \in V : \A y \in V : y <= v
  <2> HIDE DEF V
  <2> QED BY <1>3, GreatestNumber
<1>5. longest \subseteq D /\ longest # {}
  <2>1. PICK c \in D : v = run[c]
    OBVIOUS
  <2>2. \A d \in D : run[d] <= run[c] /\ run[d] \in Int /\ run[c] \in Int
    BY <1>1, <1>4, <2>1
  <2>3. c \in longest
    BY <1>1, <2>2
  <2> QED BY <1>1, <2>3
<1> HIDE DEF longest
<1>6. \E c \in longest : \A d \in longest : Later(c, d)
  BY <1>5, LastCell
<1> DEFINE l == CHOOSE c \in longest : \A d \in longest : Later(c, d)
<1>7. l \in longest
  BY <1>6
<1>8. LastLongest(run) = <<0, 0>> \/ LastLongest(run) = l
  BY DEF LastLongest, longest
<1> HIDE DEF l
<1>9. LastLongest(run) \in D
  BY <1>2, <1>5, <1>7, <1>8
<1> QED BY <1>9
-----------------------------------------------------------------------------
(* The partial branch *)

\* What the scan holds: a cell and the length of the run that ends there.
HeldType(M, N) == [i : 0 .. M, j : -1 .. N, len : Nat, upto : 0 .. N]

Holds(run, held) == held.len > 0 => held.j >= 0 /\ run[<<held.i, held.j>>] = held.len

LEMMA LongerStays ==
    ASSUME NEW M \in Nat, NEW N \in Nat, NEW run, IsTable(run, M, N),
           NEW held \in HeldType(M, N), NEW i \in 0 .. M, NEW j \in 0 .. N
    PROVE  /\ Longer(run, held, <<i, j>>) \in HeldType(M, N)
           /\ Holds(run, held) => Holds(run, Longer(run, held, <<i, j>>))
<1>1. run[<<i, j>>] \in Nat
  BY DEF IsTable
<1>2. <<i, j>>[1] = i /\ <<i, j>>[2] = j
  OBVIOUS
<1> DEFINE g == [i |-> i, j |-> j, len |-> run[<<i, j>>], upto |-> j]
<1>3. g \in HeldType(M, N) /\ Holds(run, g)
  BY <1>1 DEF HeldType, Holds
<1>4. Longer(run, held, <<i, j>>) = held \/ Longer(run, held, <<i, j>>) = g
  BY <1>2 DEF Longer
<1> HIDE DEF g
<1> QED BY <1>3, <1>4

\* The k-th cell of the scan.
Scan(k, M, N) == <<M - (k - 1) \div (N + 1), (k - 1) % (N + 1)>>

LEMMA ScanStays ==
    ASSUME NEW M \in Nat, NEW N \in Nat, NEW k \in 1 .. (M + 1) * (N + 1)
    PROVE  \E i \in 0 .. M, j \in 0 .. N : Scan(k, M, N) = <<i, j>>
<1> DEFINE n == N + 1
           q == (k - 1) \div n
           r == (k - 1) % n
<1>1. n \in Nat \ {0} /\ k - 1 \in Nat /\ (M + 1) * n \in Nat /\ k <= (M + 1) * n
  OBVIOUS
<1>2. k - 1 = n * q + r /\ r \in 0 .. n - 1 /\ q \in Nat
  <2> HIDE DEF n
  <2> QED BY <1>1, DivMod
<1> HIDE DEF q, r
<1>3. q <= M
  <2> SUFFICES ASSUME M + 1 <= q PROVE FALSE
    BY <1>2
  <2> HIDE DEF n
  <2>1. n * (M + 1) <= n * q /\ n * (M + 1) \in Int /\ n * q \in Int
    BY <1>1, <1>2, MulMono
  <2>2. n * (M + 1) = (M + 1) * n
    BY <1>1
  <2> QED BY <1>1, <1>2, <2>1, <2>2
<1>4. M - q \in 0 .. M /\ r \in 0 .. N
  BY <1>2, <1>3
<1>5. Scan(k, M, N) = <<M - q, r>>
  BY DEF Scan, q, r
<1> QED BY <1>4, <1>5

LEMMA LeftmostWalk ==
    ASSUME NEW M \in Nat, NEW N \in Nat, NEW run, IsTable(run, M, N)
    PROVE  \E held :
             /\ held[0] = [i |-> M, j |-> -1, len |-> 0, upto |-> N]
             /\ \A k \in 1 .. (M + 1) * (N + 1) :
                  held[k] = Longer(run, held[k - 1], Scan(k, M, N))
             /\ \A k \in 0 .. (M + 1) * (N + 1) :
                  held[k] \in HeldType(M, N) /\ Holds(run, held[k])
             /\ Leftmost(run, M, N) = held[(M + 1) * (N + 1)]
<1> DEFINE K == (M + 1) * (N + 1)
           V == {h \in HeldType(M, N) : Holds(run, h)}
           S(h, k) == Longer(run, h, Scan(k, M, N))
           b == [i |-> M, j |-> -1, len |-> 0, upto |-> N]
           Is(g) == g = [k \in 0 .. K |-> IF k = 0 THEN b ELSE S(g[k - 1], k)]
           F == [k \in 1 .. K |-> [h \in V |-> S(h, k)]]
           held == CHOOSE g : Is(g)
<1>1. K \in Nat
  OBVIOUS
<1>2. ASSUME NEW h \in V, NEW k \in 1 .. K PROVE S(h, k) \in V
  <2>1. PICK i \in 0 .. M, j \in 0 .. N : Scan(k, M, N) = <<i, j>>
    BY ScanStays
  <2>2. h \in HeldType(M, N) /\ Holds(run, h)
    OBVIOUS
  <2>3. Longer(run, h, <<i, j>>) \in HeldType(M, N) /\ Holds(run, Longer(run, h, <<i, j>>))
    BY <2>2, LongerStays
  <2> QED BY <2>1, <2>3
<1>3. b \in V
  BY DEF HeldType, Holds
<1> HIDE DEF S, K, b, V
<1>4. Steps(F, K, V)
  BY <1>2 DEF Steps
<1> HIDE DEF F, Is, held
<1>5. PICK g : Walked(g, F, K, V, b)
  BY <1>1, <1>3, <1>4, Iterates
<1>6. Is(g)
  <2>1. ASSUME NEW k \in 0 .. K PROVE g[k] = IF k = 0 THEN b ELSE S(g[k - 1], k)
    <3>1. CASE k = 0
      BY <3>1, <1>5 DEF Walked
    <3>2. CASE k # 0
      <4>1. k \in 1 .. K /\ k - 1 \in 0 .. K
        BY <3>2, <1>1
      <4>2. g[k - 1] \in V /\ g[k] = F[k][g[k - 1]]
        BY <4>1, <1>5 DEF Walked
      <4> QED BY <3>2, <4>1, <4>2 DEF F
    <3> QED BY <3>1, <3>2
  <2> QED BY <2>1, <1>5 DEF Is, Walked
<1>7. Is(held)
  BY <1>6 DEF held
<1>8. held[0] = b /\ \A k \in 1 .. K : held[k] = S(held[k - 1], k)
  BY <1>1, <1>7 DEF Is
<1>9. \A k \in 0 .. K : held[k] \in V
  <2>1. held[0] \in V
    BY <1>3, <1>8
  <2>2. \A k \in 1 .. K : held[k - 1] \in V => held[k] \in V
    BY <1>2, <1>8
  <2> QED BY <1>1, <2>1, <2>2, StaysIn
<1>10. Leftmost(run, M, N) = held[K]
  BY DEF Leftmost, held, S, K, Is, b, Scan
<1> QED BY <1>8, <1>9, <1>10 DEF V, S, K, b

LEMMA LeftmostIs ==
    ASSUME NEW M \in Nat, NEW N \in Nat, NEW run, IsTable(run, M, N)
    PROVE  Leftmost(run, M, N) \in HeldType(M, N) /\ Holds(run, Leftmost(run, M, N))
<1> DEFINE K == (M + 1) * (N + 1)
<1>1. K \in Nat /\ K \in 0 .. K
  OBVIOUS
<1>2. PICK held :
        /\ held[0] = [i |-> M, j |-> -1, len |-> 0, upto |-> N]
        /\ \A k \in 1 .. K : held[k] = Longer(run, held[k - 1], Scan(k, M, N))
        /\ \A k \in 0 .. K : held[k] \in HeldType(M, N) /\ Holds(run, held[k])
        /\ Leftmost(run, M, N) = held[K]
  BY LeftmostWalk
<1> HIDE DEF K
<1> QED BY <1>1, <1>2

DownType == [skip : Nat, by : Nat]

\* However many columns the gaps make it skip, the run is extended inside the row.
LEMMA ExpansionWalk ==
    ASSUME NEW M \in Nat, NEW N \in Nat, NEW run, NEW from,
           from.i \in 0 .. M, from.j \in 0 .. N
    PROVE  \E down :
             /\ down[0] = [skip |-> 0, by |-> 0]
             /\ \A k \in 1 .. M - from.i :
                  down[k] = NextRow(run, from.i + k, from.j + k, N, down[k - 1])
             /\ \A k \in 0 .. M - from.i :
                  down[k] \in DownType /\ from.j + down[k].by <= N
             /\ Expansion(run, from, M, N) = down[M - from.i].by
<1> DEFINE K == M - from.i
           S(d, k) == NextRow(run, from.i + k, from.j + k, N, d)
           b == [skip |-> 0, by |-> 0]
           Is(g) == g = [k \in 0 .. K |-> IF k = 0 THEN b ELSE S(g[k - 1], k)]
           F == [k \in 1 .. K |-> [d \in DownType |-> S(d, k)]]
           down == CHOOSE g : Is(g)
           Fits(d, k) == d.skip <= k /\ from.j + d.by <= N
<1>1. K \in Nat
  OBVIOUS
<1>2. ASSUME NEW d \in DownType, NEW k \in 1 .. K
      PROVE  S(d, k) \in DownType /\ (Fits(d, k - 1) => Fits(S(d, k), k))
  <2> DEFINE row == from.i + k
             column == from.j + k
             seen == {c \in column .. column + d.skip : c <= N}
             gaps == {c \in seen : At(run, row, c) = 0}
             hits == seen \ gaps
             more == IF \E g \in gaps, h \in hits : g < h THEN 1 ELSE 0
             skip == d.skip + IF gaps = {} THEN 0 ELSE 1
             by == IF hits = {} THEN d.by ELSE 1 + d.skip + more
  <2>1. S(d, k) = [skip |-> skip, by |-> by]
    BY DEF NextRow
  <2>2. d.skip \in Nat /\ d.by \in Nat /\ more \in {0, 1} /\ k \in Nat /\ column \in Nat
    BY DEF DownType
  <2>3. \A c \in seen : c \in Int /\ column <= c /\ c <= N
    BY <2>2
  <2>4. \A h \in hits : h \in seen
    OBVIOUS
  <2>5. \A g \in gaps : g \in seen
    OBVIOUS
  <2>6. hits # {} => column + more <= N
    <3>1. CASE \E g \in gaps, h \in hits : g < h
      <4>1. PICK g \in gaps, h \in hits : g < h
        BY <3>1
      <4>2. g \in Int /\ h \in Int /\ column <= g /\ h <= N
        BY <2>3, <2>4, <2>5
      <4> HIDE DEF seen, gaps, hits, column
      <4> QED BY <2>2, <4>1, <4>2
    <3>2. CASE ~(\E g \in gaps, h \in hits : g < h)
      <4>1. more = 0
        BY <3>2
      <4>2. hits # {} => column <= N
        <5> HIDE DEF seen, hits, column
        <5> QED BY <2>2, <2>3, <2>4
      <4> HIDE DEF seen, gaps, hits, column, more
      <4> QED BY <2>2, <4>1, <4>2
    <3> QED BY <3>1, <3>2
  <2> HIDE DEF seen, gaps, hits, more
  <2>7. skip \in Nat /\ by \in Nat /\ (d.skip <= k - 1 => skip <= k)
    BY <2>2
  <2>8. d.skip <= k - 1 /\ from.j + d.by <= N => from.j + by <= N
    BY <2>2, <2>6
  <2> HIDE DEF skip, by
  <2>9. S(d, k) \in DownType /\ S(d, k).skip = skip /\ S(d, k).by = by
    BY <2>1, <2>7 DEF DownType
  <2> HIDE DEF S
  <2> QED BY <2>7, <2>8, <2>9
<1>3. b \in DownType
  BY DEF DownType
<1> HIDE DEF S, K, b
<1>4. Steps(F, K, DownType)
  BY <1>2 DEF Steps
<1> HIDE DEF F, Is, down, Fits
<1>5. PICK g : Walked(g, F, K, DownType, b)
  BY <1>1, <1>3, <1>4, Iterates
<1>6. Is(g)
  <2>1. ASSUME NEW k \in 0 .. K PROVE g[k] = IF k = 0 THEN b ELSE S(g[k - 1], k)
    <3>1. CASE k = 0
      BY <3>1, <1>5 DEF Walked
    <3>2. CASE k # 0
      <4>1. k \in 1 .. K /\ k - 1 \in 0 .. K
        BY <3>2, <1>1
      <4>2. g[k - 1] \in DownType /\ g[k] = F[k][g[k - 1]]
        BY <4>1, <1>5 DEF Walked
      <4> QED BY <3>2, <4>1, <4>2 DEF F
    <3> QED BY <3>1, <3>2
  <2> QED BY <2>1, <1>5 DEF Is, Walked
<1>7. Is(down)
  BY <1>6 DEF down
<1>8. down[0] = b /\ \A k \in 1 .. K : down[k] = S(down[k - 1], k)
  BY <1>1, <1>7 DEF Is
<1> DEFINE T == {k \in 0 .. K : down[k] \in DownType /\ Fits(down[k], k)}
<1>9. 0 \in T
  <2>1. Fits(b, 0)
    BY DEF Fits, b
  <2> QED BY <1>1, <1>3, <1>8, <2>1
<1>10. ASSUME NEW k \in 1 .. K, k - 1 \in T PROVE k \in T
  <2>1. down[k] = S(down[k - 1], k) /\ k \in 0 .. K
    BY <1>8
  <2> QED BY <1>2, <1>10, <2>1
<1>11. \A k \in 0 .. K : k \in T
  <2> HIDE DEF T
  <2> QED BY <1>1, <1>9, <1>10, CountsUp
<1>12. Expansion(run, from, M, N) = down[K].by
  BY DEF Expansion, down, S, K, Is, b
<1>13. \A k \in 0 .. K : down[k] \in DownType /\ from.j + down[k].by <= N
  BY <1>11 DEF Fits
<1> HIDE DEF T
<1> QED BY <1>8, <1>12, <1>13 DEF S, K, b

LEMMA ExpansionIs ==
    ASSUME NEW M \in Nat, NEW N \in Nat, NEW run, NEW from,
           from.i \in 0 .. M, from.j \in 0 .. N
    PROVE  /\ Expansion(run, from, M, N) \in Nat
           /\ from.j + Expansion(run, from, M, N) <= N
<1> DEFINE K == M - from.i
<1>1. K \in 0 .. K
  OBVIOUS
<1> HIDE DEF K
<1>2. PICK down : /\ \A k \in 0 .. K : down[k] \in DownType /\ from.j + down[k].by <= N
                  /\ Expansion(run, from, M, N) = down[K].by
  BY ExpansionWalk DEF K
<1> QED BY <1>1, <1>2 DEF DownType
-----------------------------------------------------------------------------
AlignmentType(M, N) == [i : 0 .. M, j : 0 .. N, length : Nat, inside : {TRUE}]

LEMMA StepBackStays ==
    ASSUME NEW M \in Nat, NEW N \in Nat, NEW run, IsTable(run, M, N),
           NEW a \in AlignmentType(M, N)
    PROVE  StepBack(run, a) \in AlignmentType(M, N)
<1> DEFINE skip == IF At(run, a.i, a.j) = 0 THEN 1 ELSE 0
           step == IF a.j > skip THEN 1 ELSE 0
           b == Alignment(a.i - step, a.j - skip - step, a.length + skip + step,
                          a.inside /\ <<a.i, a.j>> \in DOMAIN run)
<1>1. a.i \in 0 .. M /\ a.j \in 0 .. N /\ a.length \in Nat /\ a.inside = TRUE
  BY DEF AlignmentType
<1>2. StepBack(run, a) = IF a.i <= 0 \/ a.j <= 0 THEN a ELSE b
  BY DEF StepBack
<1>3. skip \in {0, 1}
  OBVIOUS
<1> HIDE DEF skip
<1>4. CASE a.i <= 0 \/ a.j <= 0
  BY <1>2, <1>4
<1>5. CASE ~(a.i <= 0 \/ a.j <= 0)
  <2>1. step \in {0, 1} /\ (step = 1 => a.j > skip)
    OBVIOUS
  <2> HIDE DEF step
  <2>2. /\ a.i - step \in 0 .. M /\ a.j - skip - step \in 0 .. N
        /\ a.length + skip + step \in Nat
    BY <1>1, <1>3, <1>5, <2>1
  <2>3. <<a.i, a.j>> \in DOMAIN run
    BY <1>1 DEF IsTable
  <2>4. (a.inside /\ <<a.i, a.j>> \in DOMAIN run) = TRUE
    BY <1>1, <2>3
  <2> DEFINE in == a.inside /\ <<a.i, a.j>> \in DOMAIN run
             x == a.i - step
             y == a.j - skip - step
             z == a.length + skip + step
  <2>5. b = [i |-> x, j |-> y, length |-> z, inside |-> in]
    BY DEF Alignment
  <2>6. in = TRUE /\ x \in 0 .. M /\ y \in 0 .. N /\ z \in Nat
    BY <2>2, <2>4
  <2> HIDE DEF in, x, y, z, b
  <2>7. b \in AlignmentType(M, N)
    BY <2>5, <2>6 DEF AlignmentType
  <2> QED BY <1>2, <1>5, <2>7
<1> QED BY <1>4, <1>5

LEMMA BacktrackWalk ==
    ASSUME NEW M \in Nat, NEW N \in Nat, NEW run, IsTable(run, M, N),
           NEW i \in 0 .. M, NEW j \in 0 .. N
    PROVE  \E back :
             /\ back[0].i = i /\ back[0].j = j /\ back[0].length = 0
             /\ \A k \in 1 .. i : back[k] = StepBack(run, back[k - 1])
             /\ \A k \in 0 .. i : back[k] \in AlignmentType(M, N)
             /\ Backtrack(run, i, j) = back[i]
<1> DEFINE V == AlignmentType(M, N)
           S(a) == StepBack(run, a)
           b == Alignment(i, j, 0, TRUE)
           Is(g) == g = [k \in 0 .. i |-> IF k = 0 THEN b ELSE S(g[k - 1])]
           F == [k \in 1 .. i |-> [a \in V |-> S(a)]]
           back == CHOOSE g : Is(g)
<1>1. i \in Nat
  OBVIOUS
<1>2. ASSUME NEW a \in V PROVE S(a) \in V
  BY StepBackStays
<1>3. b \in V
  BY DEF AlignmentType, Alignment
<1> HIDE DEF S, b, V
<1>4. Steps(F, i, V)
  BY <1>2 DEF Steps
<1> HIDE DEF F, Is, back
<1>5. PICK g : Walked(g, F, i, V, b)
  BY <1>1, <1>3, <1>4, Iterates
<1>6. Is(g)
  <2>1. ASSUME NEW k \in 0 .. i PROVE g[k] = IF k = 0 THEN b ELSE S(g[k - 1])
    <3>1. CASE k = 0
      BY <3>1, <1>5 DEF Walked
    <3>2. CASE k # 0
      <4>1. k \in 1 .. i /\ k - 1 \in 0 .. i
        BY <3>2, <1>1
      <4>2. g[k - 1] \in V /\ g[k] = F[k][g[k - 1]]
        BY <4>1, <1>5 DEF Walked
      <4> QED BY <3>2, <4>1, <4>2 DEF F
    <3> QED BY <3>1, <3>2
  <2> QED BY <2>1, <1>5 DEF Is, Walked
<1>7. Is(back)
  BY <1>6 DEF back
<1>8. back[0] = b /\ \A k \in 1 .. i : back[k] = S(back[k - 1])
  BY <1>1, <1>7 DEF Is
<1>9. \A k \in 0 .. i : back[k] \in V
  <2>1. back[0] \in V
    BY <1>3, <1>8
  <2>2. \A k \in 1 .. i : back[k - 1] \in V => back[k] \in V
    BY <1>2, <1>8
  <2> QED BY <1>1, <2>1, <2>2, StaysIn
<1>10. Backtrack(run, i, j) = back[i]
  BY DEF Backtrack, back, S, Is, b
<1>11. b.i = i /\ b.j = j /\ b.length = 0
  BY DEF b, Alignment
<1> QED BY <1>8, <1>9, <1>10, <1>11 DEF V, S

LEMMA BacktrackIs ==
    ASSUME NEW M \in Nat, NEW N \in Nat, NEW run, IsTable(run, M, N),
           NEW i \in 0 .. M, NEW j \in 0 .. N
    PROVE  Backtrack(run, i, j) \in AlignmentType(M, N)
<1>1. PICK back : /\ back[0].i = i /\ back[0].j = j /\ back[0].length = 0
                  /\ \A k \in 1 .. i : back[k] = StepBack(run, back[k - 1])
                  /\ \A k \in 0 .. i : back[k] \in AlignmentType(M, N)
                  /\ Backtrack(run, i, j) = back[i]
  BY BacktrackWalk
<1>2. i \in 0 .. i
  OBVIOUS
<1> QED BY <1>1, <1>2

\* Whatever the two texts, the alignment is inside both and was read inside the table.
LEMMA AlignmentInside ==
    ASSUME NEW x \in Seq(Int), NEW y \in Seq(Int)
    PROVE  LongestCommonRun(x, y) \in AlignmentType(Len(x), Len(y))
<1> DEFINE M == Len(x)
           N == Len(y)
           run == RunTable(x, y)
           end == LastLongest(run)
           from == Leftmost(run, M, N)
<1>1. M \in Nat /\ N \in Nat
  BY LenProperties
<1>2. IsTable(run, M, N)
  BY RunTableIs
<1> HIDE DEF run
<1>3. PICK i \in 0 .. M, j \in 0 .. N : end = <<i, j>>
  BY <1>1, <1>2, LastLongestIs
<1>4. from \in HeldType(M, N) /\ Holds(run, from)
  BY <1>1, <1>2, LeftmostIs
<1>5. LongestCommonRun(x, y) =
        IF end[1] = M THEN Alignment(end[1] - run[end], end[2] - run[end], run[end], TRUE)
        ELSE Partial(run, M, N)
  BY DEF LongestCommonRun, run
<1>6. Partial(run, M, N) =
        IF ~Trusted(from.len) THEN Alignment(from.i, 0, 0, TRUE)
        ELSE Backtrack(run, from.i, from.j + Expansion(run, from, M, N))
  BY DEF Partial
<1> HIDE DEF end, from, M, N
<1>7. Alignment(i - run[<<i, j>>], j - run[<<i, j>>], run[<<i, j>>], TRUE)
        \in AlignmentType(M, N)
  <2> DEFINE l == run[<<i, j>>]
  <2>1. l \in Nat /\ l <= i /\ l <= j
    BY <1>2 DEF IsTable
  <2> HIDE DEF l
  <2>2. i - l \in 0 .. M /\ j - l \in 0 .. N
    BY <1>1, <2>1
  <2>3. Alignment(i - l, j - l, l, TRUE) \in AlignmentType(M, N)
    BY <2>1, <2>2 DEF Alignment, AlignmentType
  <2> QED BY <2>3 DEF l
<1>8. Partial(run, M, N) \in AlignmentType(M, N)
  <2>1. from.i \in 0 .. M /\ from.len \in Nat /\ from.j \in -1 .. N
    BY <1>4 DEF HeldType
  <2>2. Alignment(from.i, 0, 0, TRUE) \in AlignmentType(M, N)
    BY <1>1, <2>1 DEF Alignment, AlignmentType
  <2>3. ASSUME Trusted(from.len)
        PROVE  Backtrack(run, from.i, from.j + Expansion(run, from, M, N))
                 \in AlignmentType(M, N)
    <3>1. from.j \in 0 .. N
      BY <1>1, <1>4, <2>1, <2>3 DEF Holds, Trusted
    <3> DEFINE e == Expansion(run, from, M, N)
    <3>2. e \in Nat /\ from.j + e <= N
      BY <1>1, <2>1, <3>1, ExpansionIs
    <3> HIDE DEF e
    <3>3. from.j + e \in 0 .. N
      BY <1>1, <3>1, <3>2
    <3>4. Backtrack(run, from.i, from.j + e) \in AlignmentType(M, N)
      BY <1>1, <1>2, <2>1, <3>3, BacktrackIs
    <3> QED BY <3>4 DEF e
  <2> QED BY <1>6, <2>2, <2>3
<1>9. end[1] = i /\ end[2] = j
  BY <1>3
<1> QED BY <1>3, <1>5, <1>7, <1>8, <1>9 DEF M, N
-----------------------------------------------------------------------------
LEMMA TextSliceTyped ==
    ASSUME NEW s \in Seq(Int), NEW m \in Nat, NEW n \in Nat, m > 0, n <= Len(s)
    PROVE  /\ SubSeq(s, m, n) \in Seq(Int)
           /\ Len(SubSeq(s, m, n)) = IF m <= n THEN n - m + 1 ELSE 0
           /\ \A k \in 1 .. n - m + 1 : SubSeq(s, m, n)[k] = s[m + k - 1]
<1>1. m \in Int /\ n \in Int /\ \A i \in m .. n : s[i] \in Int
  BY LenProperties
<1> QED BY <1>1, SubSeqProperties

\* What a merge of the head of a text leaves: the old text up to `kept`, and more.
Grown(old, new, kept) ==
    /\ new \in Seq(Int)
    /\ kept <= Len(new)
    /\ \A k \in 1 .. kept : new[k] = old[k]

LEMMA AppendGrows ==
    ASSUME NEW old \in Seq(Int), NEW new \in Seq(Int), NEW data \in Seq(Int),
           NEW kept \in 0 .. Len(old), Grown(old, new, kept)
    PROVE  Grown(old, new \o data, kept)
<1>1. Len(new) \in Nat /\ Len(data) \in Nat
  BY LenProperties
<1>2. /\ new \o data \in Seq(Int) /\ Len(new \o data) = Len(new) + Len(data)
      /\ \A i \in 1 .. Len(new) + Len(data) :
           (new \o data)[i] = IF i <= Len(new) THEN new[i] ELSE data[i - Len(new)]
  BY ConcatProperties
<1>3. kept <= Len(new) /\ kept \in Nat
  BY <1>1 DEF Grown
<1>4. ASSUME NEW k \in 1 .. kept PROVE (new \o data)[k] = old[k]
  <2>1. k \in 1 .. Len(new) + Len(data) /\ k <= Len(new)
    BY <1>1, <1>3
  <2> QED BY <1>2, <2>1 DEF Grown
<1> QED BY <1>1, <1>2, <1>3, <1>4 DEF Grown

LEMMA AtMostIs ==
    ASSUME NEW bound \in Nat, NEW n \in Nat
    PROVE  /\ AtMost(bound, n) \in Nat
           /\ AtMost(bound, n) <= bound /\ AtMost(bound, n) <= n
           /\ AtMost(bound, n) = bound \/ AtMost(bound, n) = n
BY DEF AtMost

\* The old text before the last `search` tokens.
Untouched(old, search) == Larger(0, Len(old) - search)

LEMMA MergeKeeps ==
    ASSUME NEW old \in Seq(Int), NEW data \in Seq(Int), NEW search \in Nat
    PROVE  /\ Untouched(old, search) \in 0 .. Len(old)
           /\ Grown(old, Merge(old, data, search), Untouched(old, search))
<1> DEFINE l == Len(old)
           kept == Untouched(old, search)
           tail == LastOf(old, search)
           a == LongestCommonRun(tail, data)
           base == l - Len(tail)
           upto == AtMost(l, base + a.i + a.length)
           rest == AtMost(Len(data), a.j + a.length) + 1
           left == SubSeq(old, 1, upto)
           right == SubSeq(data, rest, Len(data))
<1>1. l \in Nat /\ Len(data) \in Nat /\ kept \in 0 .. l
  BY LenProperties DEF Untouched, Larger
<1>2. tail \in Seq(Int) /\ Len(tail) \in Nat /\ Len(tail) <= l /\ base \in Nat /\ base = kept
  <2>1. tail \in Seq(Int) /\ Len(tail) = AtMost(l, search)
        /\ AtMost(l, search) \in Nat /\ AtMost(l, search) <= l
    BY LastOfTyped
  <2>2. l - AtMost(l, search) = kept
    <3>1. kept = IF 0 > l - search THEN 0 ELSE l - search
      BY DEF Untouched, Larger
    <3>2. AtMost(l, search) = IF search < l THEN search ELSE l
      BY DEF AtMost
    <3> HIDE DEF l, kept
    <3> QED BY <1>1, <3>1, <3>2
  <2> QED BY <1>1, <2>1, <2>2
<1> HIDE DEF kept, tail
<1>3. a.i \in Nat /\ a.j \in Nat /\ a.length \in Nat
  <2>1. a \in AlignmentType(Len(tail), Len(data))
    BY <1>2, AlignmentInside
  <2> HIDE DEF a
  <2> QED BY <1>1, <1>2, <2>1 DEF AlignmentType
<1> HIDE DEF a, base
<1>4. upto \in 0 .. l /\ kept <= upto /\ rest \in Nat /\ rest > 0
  <2>1. base + a.i + a.length \in Nat /\ kept <= base + a.i + a.length
    <3> HIDE DEF l
    <3>1. base \in Nat /\ base = kept
      BY <1>2
    <3> QED BY <1>3, <3>1
  <2>2. a.j + a.length \in Nat
    BY <1>3
  <2>3. AtMost(Len(data), a.j + a.length) \in Nat
    BY <1>1, <2>2, AtMostIs
  <2>4. upto \in Nat /\ upto <= l /\ (upto = l \/ upto = base + a.i + a.length)
    <3> HIDE DEF l
    <3> QED BY <1>1, <2>1, AtMostIs
  <2> HIDE DEF upto, l
  <2> QED BY <1>1, <2>1, <2>3, <2>4
<1> HIDE DEF upto, rest
<1>5. left \in Seq(Int) /\ Len(left) = upto /\ \A k \in 1 .. upto : left[k] = old[k]
  <2>1. 1 \in Nat /\ 1 > 0 /\ upto \in Nat /\ upto <= Len(old)
    BY <1>4
  <2>2. /\ left \in Seq(Int) /\ Len(left) = IF 1 <= upto THEN upto - 1 + 1 ELSE 0
        /\ \A k \in 1 .. upto - 1 + 1 : left[k] = old[1 + k - 1]
    BY <2>1, TextSliceTyped
  <2> HIDE DEF left
  <2>3. Len(left) = upto
    BY <2>1, <2>2
  <2>4. ASSUME NEW k \in 1 .. upto PROVE left[k] = old[k]
    <3>1. k \in 1 .. upto - 1 + 1 /\ 1 + k - 1 = k
      BY <2>1
    <3> QED BY <2>2, <3>1
  <2> QED BY <2>2, <2>3, <2>4
<1>6. right \in Seq(Int)
  BY <1>1, <1>4, TextSliceTyped
<1> HIDE DEF left, right
<1>7. Grown(old, left, kept)
  <2>1. \A k \in 1 .. kept : k \in 1 .. upto
    BY <1>1, <1>4
  <2> QED BY <1>1, <1>4, <1>5, <2>1 DEF Grown
<1>8. Grown(old, left \o right, kept)
  BY <1>1, <1>5, <1>6, <1>7, AppendGrows
<1>9. Grown(old, old \o data, kept)
  <2>1. Grown(old, old, kept)
    BY <1>1 DEF Grown
  <2> QED BY <1>1, <2>1, AppendGrows
<1>10. Merge(old, data, search) = old \o data \/ Merge(old, data, search) = left \o right
  BY DEF Merge, Join, tail, a, base, upto, rest, left, right
<1> QED BY <1>1, <1>8, <1>9, <1>10 DEF kept

\* The end of a concatenation.
LEMMA LastOfConcat ==
    ASSUME NEW s \in Seq(Int), NEW t \in Seq(Int)
    PROVE  LastOf(s \o t, Len(t)) = t
<1> DEFINE m == Len(s)
           n == Len(t)
           c == s \o t
<1>1. m \in Nat /\ n \in Nat
  BY LenProperties
<1>2. /\ c \in Seq(Int) /\ Len(c) = m + n
      /\ \A i \in 1 .. m + n : c[i] = IF i <= m THEN s[i] ELSE t[i - m]
  BY ConcatProperties
<1> HIDE DEF c
<1>3. LastOf(c, n) = SubSeq(c, m + 1, m + n)
  <2>1. AtMost(m + n, n) = n
    BY <1>1 DEF AtMost
  <2>2. (m + n) - n + 1 = m + 1
    BY <1>1
  <2> HIDE DEF m, n
  <2>3. LastOf(c, n) = SubSeq(c, (m + n) - n + 1, m + n)
    BY <1>2, <2>1 DEF LastOf
  <2> QED BY <2>2, <2>3
<1> DEFINE u == SubSeq(c, m + 1, m + n)
<1>4. /\ u \in Seq(Int) /\ Len(u) = n
      /\ \A k \in 1 .. n : u[k] = t[k]
  <2> HIDE DEF m, n
  <2>1. m + 1 \in Nat /\ m + n \in Nat /\ m + 1 > 0 /\ m + n <= Len(c)
    BY <1>1, <1>2
  <2> DEFINE a == m + 1
             z == m + n
  <2>2. /\ u \in Seq(Int)
        /\ Len(u) = IF a <= z THEN z - a + 1 ELSE 0
        /\ \A k \in 1 .. z - a + 1 : u[k] = c[a + k - 1]
    <3>1. a \in Nat /\ z \in Nat /\ a > 0 /\ z <= Len(c) /\ u = SubSeq(c, a, z)
      BY <2>1
    <3> HIDE DEF a, z, u
    <3> QED BY <1>2, <3>1, TextSliceTyped
  <2> HIDE DEF u
  <2>3. Len(u) = n
    BY <1>1, <2>2
  <2>4. ASSUME NEW k \in 1 .. n PROVE u[k] = t[k]
    <3>1. /\ k \in 1 .. (m + n) - (m + 1) + 1 /\ (m + 1) + k - 1 = m + k
          /\ m + k \in 1 .. m + n /\ ~(m + k <= m) /\ (m + k) - m = k
      BY <1>1
    <3>2. u[k] = c[m + k]
      BY <2>2, <3>1
    <3>3. c[m + k] = IF m + k <= m THEN s[m + k] ELSE t[(m + k) - m]
      BY <1>2, <3>1
    <3> QED BY <3>1, <3>2, <3>3
  <2> QED BY <2>2, <2>3, <2>4
<1>5. u = t
  <2> HIDE DEF u
  <2> QED BY <1>4, SeqEqual
<1> QED BY <1>3, <1>5 DEF c

LEMMA StitchCuts ==
    ASSUME NEW old \in Seq(Int), NEW new \in Seq(Int), NEW p, LongType(p)
    PROVE  Stitch(old, new, p) \in Seq(Int) /\ CutsOnlyOverlap(old, new, p)
<1> DEFINE l == Len(new)
           head == AtMost(l, p.merge_head)
           data == SubSeq(new, 1, head)
           rest == SubSeq(new, head + 1, l)
           kept == Untouched(old, p.merge_search)
           m == Merge(old, data, p.merge_search)
           merged == Stitch(old, new, p)
<1>1. /\ l \in Nat /\ Len(old) \in Nat
      /\ p.merge_head \in Nat /\ p.merge_search \in Nat
  BY LenProperties DEF LongType
<1>2. head \in 0 .. l
  BY <1>1 DEF AtMost
<1> HIDE DEF head
<1>3. data \in Seq(Int)
  BY <1>1, <1>2, TextSliceTyped
<1>4. rest \in Seq(Int) /\ Len(rest) = l - head
  <2>1. head + 1 \in Nat /\ head + 1 > 0 /\ l \in Nat /\ l <= Len(new)
    BY <1>1, <1>2
  <2>2. rest \in Seq(Int) /\ Len(rest) = IF head + 1 <= l THEN l - (head + 1) + 1 ELSE 0
    BY <2>1, TextSliceTyped
  <2> HIDE DEF rest, l
  <2> QED BY <1>1, <1>2, <2>2
<1> HIDE DEF data, rest, l
<1>5. kept \in 0 .. Len(old) /\ Grown(old, m, kept)
  BY <1>1, <1>3, MergeKeeps
<1> HIDE DEF m, kept
<1>6. merged = m \o rest
  BY DEF Stitch, m, data, rest, head, l
<1> HIDE DEF merged
<1>7. m \in Seq(Int) /\ kept <= Len(m) /\ Len(m) \in Nat
  BY <1>5, LenProperties DEF Grown
<1>8. Grown(old, merged, kept)
  BY <1>4, <1>5, <1>6, <1>7, AppendGrows
<1>9. merged \in Seq(Int) /\ kept <= Len(merged) /\ Len(merged) \in Nat
      /\ \A k \in 1 .. kept : merged[k] = old[k]
  BY <1>8, LenProperties DEF Grown
<1>10. Len(merged) >= kept + l - head
  <2>1. Len(merged) = Len(m) + Len(rest)
    BY <1>4, <1>6, <1>7, ConcatProperties
  <2> QED BY <1>1, <1>2, <1>4, <1>5, <1>7, <2>1
<1>11. LastOf(merged, l - head) = rest
  BY <1>4, <1>6, <1>7, LastOfConcat
<1>12. IsPrefix(SubSeq(old, 1, kept), merged)
  <2> DEFINE u == SubSeq(old, 1, kept)
             v == SubSeq(merged, 1, kept)
  <2>1. 1 \in Nat /\ 1 > 0 /\ kept \in Nat /\ kept <= Len(old) /\ kept <= Len(merged)
    BY <1>1, <1>5, <1>9
  <2>2. /\ u \in Seq(Int) /\ Len(u) = IF 1 <= kept THEN kept - 1 + 1 ELSE 0
        /\ \A k \in 1 .. kept - 1 + 1 : u[k] = old[1 + k - 1]
    BY <2>1, TextSliceTyped
  <2>3. /\ v \in Seq(Int) /\ Len(v) = IF 1 <= kept THEN kept - 1 + 1 ELSE 0
        /\ \A k \in 1 .. kept - 1 + 1 : v[k] = merged[1 + k - 1]
    BY <1>9, <2>1, TextSliceTyped
  <2> HIDE DEF u, v
  <2>4. Len(u) = kept /\ Len(v) = kept
    BY <2>1, <2>2, <2>3
  <2>5. ASSUME NEW k \in 1 .. kept PROVE u[k] = v[k]
    <3>1. k \in 1 .. kept - 1 + 1 /\ 1 + k - 1 = k
      BY <2>1
    <3> QED BY <1>9, <2>2, <2>3, <3>1
  <2>6. u = v
    BY <2>2, <2>3, <2>4, <2>5, SeqEqual
  <2>7. SubSeq(u, 1, kept) = u
    <3>1. kept <= Len(u)
      BY <2>1, <2>4
    <3> DEFINE t == SubSeq(u, 1, kept)
    <3>2. /\ t \in Seq(Int) /\ Len(t) = IF 1 <= kept THEN kept - 1 + 1 ELSE 0
          /\ \A k \in 1 .. kept - 1 + 1 : t[k] = u[1 + k - 1]
      BY <2>1, <2>2, <3>1, TextSliceTyped
    <3> HIDE DEF t
    <3>3. Len(t) = kept
      BY <2>1, <3>2
    <3>4. ASSUME NEW k \in 1 .. kept PROVE t[k] = u[k]
      <4>1. k \in 1 .. kept - 1 + 1 /\ 1 + k - 1 = k
        BY <2>1
      <4> QED BY <3>2, <4>1
    <3>5. t = u
      BY <2>2, <2>4, <3>2, <3>3, <3>4, SeqEqual
    <3> QED BY <3>5 DEF t
  <2>8. IsPrefix(u, merged)
    BY <2>1, <2>4, <2>6, <2>7 DEF IsPrefix, v
  <2> QED BY <2>8 DEF u
<1>13. LongestCommonRun(LastOf(old, p.merge_search), data).inside
  <2> DEFINE t == LastOf(old, p.merge_search)
             a == LongestCommonRun(t, data)
  <2>1. t \in Seq(Int)
    BY <1>1, LastOfTyped
  <2> HIDE DEF t
  <2>2. a \in AlignmentType(Len(t), Len(data))
    BY <1>3, <2>1, AlignmentInside
  <2> HIDE DEF a
  <2>3. a.inside = TRUE
    BY <2>2 DEF AlignmentType
  <2> QED BY <2>3 DEF a, t
<1> QED BY <1>9, <1>10, <1>11, <1>12, <1>13
     DEF CutsOnlyOverlap, merged, rest, data, head, l, kept, Untouched

\* Any number of texts are merged into a text.
LEMMA MergedWalk ==
    ASSUME NEW texts \in Seq(Seq(Int)), NEW p, LongType(p)
    PROVE  \E merged :
             /\ merged[0] = << >>
             /\ \A k \in 1 .. Len(texts) :
                  merged[k] = IF k = 1 THEN texts[1] ELSE Stitch(merged[k - 1], texts[k], p)
             /\ \A k \in 0 .. Len(texts) : merged[k] \in Seq(Int)
             /\ MergeWindows(texts, p) = merged[Len(texts)]
<1> DEFINE V == Seq(Int)
           K == Len(texts)
           S(v, k) == IF k = 1 THEN texts[1] ELSE Stitch(v, texts[k], p)
           Is(g) == g = [k \in 0 .. K |->
                          IF k = 0 THEN << >>
                          ELSE IF k = 1 THEN texts[1] ELSE Stitch(g[k - 1], texts[k], p)]
           F == [k \in 1 .. K |-> [v \in V |-> S(v, k)]]
           merged == CHOOSE g : Is(g)
<1>1. K \in Nat /\ \A k \in 1 .. K : texts[k] \in V
  BY LenProperties
<1>2. ASSUME NEW v \in V, NEW k \in 1 .. K PROVE S(v, k) \in V
  <2>1. texts[k] \in V
    BY <1>1
  <2>2. Stitch(v, texts[k], p) \in V
    BY <2>1, StitchCuts
  <2> QED BY <2>1, <2>2
<1>3. << >> \in V
  OBVIOUS
<1> HIDE DEF V, K, F, merged
<1>5. Steps(F, K, V)
  <2> HIDE DEF S
  <2> QED BY <1>2 DEF Steps, F
<1>6. PICK g : Walked(g, F, K, V, << >>)
  <2> HIDE DEF Is, S
  <2> QED BY <1>1, <1>3, <1>5, Iterates
<1>7. Is(g)
  <2>1. ASSUME NEW k \in 0 .. K PROVE g[k] = IF k = 0 THEN << >> ELSE S(g[k - 1], k)
    <3> HIDE DEF S, Is
    <3>1. CASE k = 0
      BY <3>1, <1>6 DEF Walked
    <3>2. CASE k # 0
      <4>1. k \in 1 .. K /\ k - 1 \in 0 .. K
        BY <3>2, <1>1
      <4>2. g[k - 1] \in V /\ g[k] = F[k][g[k - 1]]
        BY <4>1, <1>6 DEF Walked
      <4> QED BY <3>2, <4>1, <4>2 DEF F
    <3> QED BY <3>1, <3>2
  <2>2. g = [k \in 0 .. K |-> g[k]]
    BY <1>6 DEF Walked
  <2> QED BY <2>1, <2>2
<1>8. Is(merged)
  BY <1>7 DEF merged
<1>9. merged[0] = << >> /\ \A k \in 1 .. K : merged[k] = S(merged[k - 1], k)
  <2>1. \A k \in 1 .. K : k \in 0 .. K /\ k # 0
    BY <1>1
  <2>2. 0 \in 0 .. K
    BY <1>1
  <2> QED BY <1>8, <2>1, <2>2
<1> HIDE DEF S, Is
<1>10. \A k \in 0 .. K : merged[k] \in V
  <2>1. merged[0] \in V
    BY <1>3, <1>9
  <2>2. \A k \in 1 .. K : merged[k - 1] \in V => merged[k] \in V
    BY <1>2, <1>9
  <2> QED BY <1>1, <2>1, <2>2, StaysIn
<1>11. MergeWindows(texts, p) = merged[K]
  BY DEF MergeWindows, merged, K, Is
<1> QED BY <1>9, <1>10, <1>11 DEF V, S, K

LEMMA MergedTyped ==
    ASSUME NEW texts \in Seq(Seq(Int)), NEW p, LongType(p)
    PROVE  MergeWindows(texts, p) \in Seq(Int)
<1>1. PICK merged : /\ \A k \in 0 .. Len(texts) : merged[k] \in Seq(Int)
                    /\ MergeWindows(texts, p) = merged[Len(texts)]
  BY MergedWalk
<1>2. Len(texts) \in 0 .. Len(texts)
  BY LenProperties
<1> QED BY <1>1, <1>2

\* A merge cuts nothing outside the tokens it searches, and its walk never leaves the table
\* of common runs, whatever two texts a model answers with (asr_long_form.cpp:71-76).
THEOREM MergesCutOnlyOverlap == DoorSpec => []MergeCutsOnlyOverlap
<1>1. TInv => MergeCutsOnlyOverlap
  <2> SUFFICES ASSUME TInv, phase = "done", ~Seeks, NEW k \in 1 .. Len(heard) - 1
               PROVE  CutsOnlyOverlap(MergeWindows(SubSeq(heard, 1, k), file.long),
                                      heard[k + 1], file.long)
    BY DEF MergeCutsOnlyOverlap
  <2>1. heard \in Seq(Seq(Int)) /\ LongType(file.long)
    BY FileTyped DEF TInv, CallInv, PiecesInv
  <2> DEFINE V == Seq(Int)
  <2>2. Len(heard) \in Nat /\ heard \in Seq(V)
    BY <2>1, LenProperties
  <2> HIDE DEF V
  <2>3. heard[k + 1] \in V /\ k \in Nat /\ k <= Len(heard)
    BY <2>2, LenProperties
  <2>4. SubSeq(heard, 1, k) \in Seq(V)
    BY <2>2, <2>3, SubSeqTyped
  <2>5. MergeWindows(SubSeq(heard, 1, k), file.long) \in Seq(Int)
    BY <2>1, <2>4, MergedTyped DEF V
  <2> QED BY <2>1, <2>3, <2>5, StitchCuts DEF V
<1> QED BY <1>1, TInvHolds, PTL
-----------------------------------------------------------------------------
(* The words of a text *)

LEMMA WordsWalk ==
    ASSUME NEW ids \in Seq(Int)
    PROVE  \E said \in [0 .. Len(ids) -> Seq(Int)] :
             /\ said[0] = << >>
             /\ \A n \in 1 .. Len(ids) :
                  said[n] = IF ids[n] < 0 THEN said[n - 1] ELSE Append(said[n - 1], ids[n])
             /\ Words(ids) = said[Len(ids)]
<1> DEFINE Texts == Seq(Int)
           N == Len(ids)
           S(v, n) == IF ids[n] < 0 THEN v ELSE Append(v, ids[n])
           Is(g) == g = [n \in 0 .. N |-> IF n = 0 THEN << >> ELSE S(g[n - 1], n)]
           F == [n \in 1 .. N |-> [v \in Texts |-> S(v, n)]]
           said == CHOOSE g : Is(g)
<1>1. N \in Nat
  OBVIOUS
<1>2. ASSUME NEW v \in Texts, NEW n \in 1 .. N PROVE S(v, n) \in Texts
  OBVIOUS
<1> HIDE DEF S, N, Texts
<1>3. Steps(F, N, Texts)
  BY <1>2 DEF Steps
<1>4. << >> \in Texts
  BY DEF Texts
<1> HIDE DEF F, Is, said
<1>5. PICK g : Walked(g, F, N, Texts, << >>)
  BY <1>1, <1>3, <1>4, Iterates
<1>6. Is(g)
  <2>1. ASSUME NEW k \in 0 .. N PROVE g[k] = IF k = 0 THEN << >> ELSE S(g[k - 1], k)
    <3>1. CASE k = 0
      BY <3>1, <1>5 DEF Walked
    <3>2. CASE k # 0
      <4>1. k \in 1 .. N /\ k - 1 \in 0 .. N
        BY <3>2, <1>1
      <4>2. g[k - 1] \in Texts /\ g[k] = F[k][g[k - 1]]
        BY <4>1, <1>5 DEF Walked
      <4> QED BY <3>2, <4>1, <4>2 DEF F
    <3> QED BY <3>1, <3>2
  <2> QED BY <2>1, <1>5 DEF Is, Walked
<1>7. Is(said)
  BY <1>6 DEF said
<1>8. said[0] = << >> /\ \A k \in 1 .. N : said[k] = S(said[k - 1], k)
  BY <1>1, <1>7 DEF Is
<1>9. \A k \in 0 .. N : said[k] \in Texts
  <2>1. said[0] \in Texts
    BY <1>4, <1>8
  <2>2. \A k \in 1 .. N : said[k - 1] \in Texts => said[k] \in Texts
    BY <1>2, <1>8
  <2> QED BY <1>1, <2>1, <2>2, StaysIn
<1>10. said \in [0 .. N -> Texts]
  BY <1>7, <1>9 DEF Is
<1>11. Words(ids) = said[N]
  BY DEF Words, said, S, N, Is
<1> QED BY <1>8, <1>10, <1>11 DEF S, N, Texts

\* Word w of the speech, counted from 1.
Said(w) == (w - 1) * WordEvery

\* The first n tokens of a text say the first w words of the speech, in order; what else
\* is among them is no word.
Tells(ids, n, w) ==
    \E g \in [0 .. n -> Nat] :
        /\ g[0] = 0 /\ g[n] = w
        /\ \A i \in 1 .. n :
             IF ids[i] < 0 THEN g[i] = g[i - 1]
             ELSE g[i] = g[i - 1] + 1 /\ ids[i] = Said(g[i])

LEMMA SpeechTyped ==
    ASSUME samples \in Nat
    PROVE  /\ Spoken(samples) \in Nat /\ Speech \in Seq(Int)
           /\ Len(Speech) = Spoken(samples)
           /\ \A i \in 1 .. Spoken(samples) : Speech[i] = Said(i)
<1> DEFINE n == Spoken(samples)
           f == [i \in 1 .. n |-> (i - 1) * WordEvery]
<1>1. n \in Nat /\ WordEvery \in Nat
  BY TimeAssumption, CeilDivBounds DEF Spoken
<1>2. Speech = f
  BY DEF Speech
<1> HIDE DEF n
<1>3. f \in [1 .. n -> Int] /\ \A i \in 1 .. n : f[i] = Said(i)
  BY <1>1 DEF Said
<1> HIDE DEF f
<1>4. f \in Seq(Int) /\ Len(f) = n
  BY <1>1, <1>3, IsSequence
<1> QED BY <1>1, <1>2, <1>3, <1>4 DEF n

\* A text that tells the whole speech has no other words.
LEMMA TellsSpeech ==
    ASSUME samples \in Nat, NEW ids \in Seq(Int), Tells(ids, Len(ids), Spoken(samples))
    PROVE  Words(ids) = Speech
<1> DEFINE N == Len(ids)
           m == Spoken(samples)
<1>1. N \in Nat /\ \A i \in 1 .. N : ids[i] \in Int
  BY LenProperties
<1>2. PICK g \in [0 .. N -> Nat] :
        /\ g[0] = 0 /\ g[N] = m
        /\ \A i \in 1 .. N :
             IF ids[i] < 0 THEN g[i] = g[i - 1]
             ELSE g[i] = g[i - 1] + 1 /\ ids[i] = Said(g[i])
  BY DEF Tells
<1>3. PICK said \in [0 .. N -> Seq(Int)] :
        /\ said[0] = << >>
        /\ \A n \in 1 .. N :
             said[n] = IF ids[n] < 0 THEN said[n - 1] ELSE Append(said[n - 1], ids[n])
        /\ Words(ids) = said[N]
  BY WordsWalk
<1> HIDE DEF N, m
<1> DEFINE Good(n) == Len(said[n]) = g[n] /\ \A i \in 1 .. g[n] : said[n][i] = Said(i)
           T == {n \in 0 .. N : Good(n)}
<1>4. 0 \in T
  BY <1>1, <1>2, <1>3
<1>5. ASSUME NEW n \in 1 .. N, n - 1 \in T PROVE n \in T
  <2>1. n - 1 \in 0 .. N /\ n \in 0 .. N
    BY <1>1
  <2>2. g[n - 1] \in Nat /\ said[n - 1] \in Seq(Int) /\ Good(n - 1)
    BY <1>2, <1>3, <1>5, <2>1
  <2>3. CASE ids[n] < 0
    <3>1. g[n] = g[n - 1] /\ said[n] = said[n - 1]
      BY <1>2, <1>3, <2>3
    <3> QED BY <2>1, <2>2, <3>1
  <2>4. CASE ~(ids[n] < 0)
    <3>1. g[n] = g[n - 1] + 1 /\ ids[n] = Said(g[n]) /\ said[n] = Append(said[n - 1], ids[n])
      BY <1>2, <1>3, <2>4
    <3> DEFINE s == said[n - 1]
               l == g[n - 1]
               e == ids[n]
    <3>2. s \in Seq(Int) /\ l \in Nat /\ e \in Int /\ Len(s) = l
          /\ \A i \in 1 .. l : s[i] = Said(i)
      BY <1>1, <2>2
    <3>3. g[n] = l + 1 /\ e = Said(l + 1) /\ said[n] = Append(s, e)
      BY <3>1
    <3> HIDE DEF s, l, e, Good
    <3>4. /\ Len(Append(s, e)) = l + 1
          /\ \A i \in 1 .. l : Append(s, e)[i] = s[i]
          /\ Append(s, e)[l + 1] = e
      BY <3>2, AppendProperties
    <3>5. ASSUME NEW i \in 1 .. l + 1 PROVE Append(s, e)[i] = Said(i)
      <4>1. i \in 1 .. l \/ i = l + 1
        BY <3>2
      <4> QED BY <3>2, <3>3, <3>4, <4>1
    <3>6. Good(n)
      BY <3>3, <3>4, <3>5 DEF Good
    <3> QED BY <2>1, <3>6
  <2> QED BY <2>3, <2>4
<1>6. N \in T
  <2> HIDE DEF T
  <2>1. \A n \in 0 .. N : n \in T
    BY <1>1, <1>4, <1>5, CountsUp
  <2> QED BY <1>1, <2>1
<1>7. said[N] \in Seq(Int) /\ Len(said[N]) = m /\ \A i \in 1 .. m : said[N][i] = Said(i)
  BY <1>1, <1>2, <1>3, <1>6
<1>8. Speech \in Seq(Int) /\ Len(Speech) = m /\ \A i \in 1 .. m : Speech[i] = Said(i)
  BY SpeechTyped DEF m
<1> DEFINE s == said[N]
           t == Speech
<1>9. s \in Seq(Int) /\ t \in Seq(Int) /\ Len(s) = Len(t)
      /\ \A i \in 1 .. Len(s) : s[i] = t[i]
  BY <1>7, <1>8
<1> HIDE DEF s, t
<1>10. s = t
  BY <1>9, SeqEqual
<1> QED BY <1>3, <1>10 DEF s, t

\* A text keeps telling what it told when its next tokens are the next words.
LEMMA TellsOn ==
    ASSUME NEW ids \in Seq(Int), NEW q \in Nat, NEW u \in Nat, NEW m \in Nat,
           Tells(ids, q, u), \A j \in 1 .. m : ids[q + j] = Said(u + j)
    PROVE  Tells(ids, q + m, u + m)
<1>1. PICK g \in [0 .. q -> Nat] :
        /\ g[0] = 0 /\ g[q] = u
        /\ \A i \in 1 .. q :
             IF ids[i] < 0 THEN g[i] = g[i - 1]
             ELSE g[i] = g[i - 1] + 1 /\ ids[i] = Said(g[i])
  BY DEF Tells
<1> DEFINE h == [i \in 0 .. q + m |-> IF i <= q THEN g[i] ELSE u + (i - q)]
<1>2. h \in [0 .. q + m -> Nat]
  <2>1. ASSUME NEW i \in 0 .. q + m PROVE (IF i <= q THEN g[i] ELSE u + (i - q)) \in Nat
    <3>1. i <= q => g[i] \in Nat
      OBVIOUS
    <3> QED BY <3>1
  <2> QED BY <2>1
<1>3. h[0] = 0
  BY <1>1
<1>4. h[q + m] = u + m
  <2>1. CASE m = 0
    BY <1>1, <2>1
  <2>2. CASE m # 0
    BY <2>2
  <2> QED BY <2>1, <2>2
<1>5. ASSUME NEW i \in 1 .. q + m
      PROVE  IF ids[i] < 0 THEN h[i] = h[i - 1]
             ELSE h[i] = h[i - 1] + 1 /\ ids[i] = Said(h[i])
  <2>1. CASE i <= q
    <3>1. i \in 1 .. q /\ h[i] = g[i] /\ h[i - 1] = g[i - 1]
      BY <2>1
    <3> HIDE DEF h
    <3> QED BY <1>1, <3>1
  <2>2. CASE ~(i <= q)
    <3>1. i - q \in 1 .. m /\ q + (i - q) = i
      BY <2>2
    <3>2. ids[i] = Said(u + (i - q))
      BY <3>1
    <3>3. h[i] = u + (i - q)
      BY <2>2
    <3>4. h[i - 1] = u + (i - q) - 1
      <4>1. CASE i - 1 = q
        BY <1>1, <4>1
      <4>2. CASE i - 1 # q
        BY <2>2, <4>2
      <4> QED BY <4>1, <4>2
    <3> HIDE DEF h
    <3>5. h[i] = h[i - 1] + 1
      BY <3>1, <3>3, <3>4
    <3>6. ~(Said(u + (i - q)) < 0)
      <4> DEFINE w == u + (i - q)
      <4>1. w - 1 \in Nat /\ WordEvery \in Nat
        BY <3>1, TimeAssumption
      <4> HIDE DEF w
      <4>2. (w - 1) * WordEvery >= 0
        BY <4>1
      <4>3. ~(Said(w) < 0)
        <5> DEFINE s == (w - 1) * WordEvery
        <5>1. s \in Int /\ s >= 0
          BY <4>1, <4>2
        <5>2. Said(w) = s
          BY DEF Said
        <5> HIDE DEF s
        <5> QED BY <5>1, <5>2
      <4> QED BY <4>3 DEF w
    <3> QED BY <3>2, <3>3, <3>5, <3>6
  <2> QED BY <2>1, <2>2
<1> HIDE DEF h
<1> QED BY <1>2, <1>3, <1>4, <1>5 DEF Tells

\* And when the next one is no word.
LEMMA TellsPast ==
    ASSUME NEW ids \in Seq(Int), NEW q \in Nat, NEW u \in Nat,
           Tells(ids, q, u), ids[q + 1] < 0
    PROVE  Tells(ids, q + 1, u)
<1>1. PICK g \in [0 .. q -> Nat] :
        /\ g[0] = 0 /\ g[q] = u
        /\ \A i \in 1 .. q :
             IF ids[i] < 0 THEN g[i] = g[i - 1]
             ELSE g[i] = g[i - 1] + 1 /\ ids[i] = Said(g[i])
  BY DEF Tells
<1> DEFINE h == [i \in 0 .. q + 1 |-> IF i <= q THEN g[i] ELSE u]
<1>2. h \in [0 .. q + 1 -> Nat] /\ h[0] = 0 /\ h[q + 1] = u
  BY <1>1
<1>3. ASSUME NEW i \in 1 .. q + 1
      PROVE  IF ids[i] < 0 THEN h[i] = h[i - 1]
             ELSE h[i] = h[i - 1] + 1 /\ ids[i] = Said(h[i])
  <2>1. CASE i <= q
    <3>1. i \in 1 .. q /\ h[i] = g[i] /\ h[i - 1] = g[i - 1]
      BY <2>1
    <3> HIDE DEF h
    <3> QED BY <1>1, <3>1
  <2>2. CASE ~(i <= q)
    <3>1. i = q + 1 /\ h[i] = u /\ h[i - 1] = u
      BY <1>1, <2>2
    <3> HIDE DEF h
    <3> QED BY <3>1
  <2> QED BY <2>1, <2>2
<1> HIDE DEF h
<1> QED BY <1>2, <1>3 DEF Tells

\* What a text tells is in the tokens that tell it.
LEMMA TellsSame ==
    ASSUME NEW ids, NEW others, NEW q \in Nat, NEW u, Tells(ids, q, u),
           \A i \in 1 .. q : others[i] = ids[i]
    PROVE  Tells(others, q, u)
BY DEF Tells
-----------------------------------------------------------------------------
(* The alignment of two texts that share one run *)

\* The tokens the texts share are l in a row, after the first a of the one and the
\* first c of the other.
OneRun(x, y, a, c, l) ==
    /\ a \in Nat /\ c \in Nat /\ l \in Nat /\ l > 1
    /\ a + l <= Len(x) /\ c + l <= Len(y)
    /\ \A i \in 1 .. Len(x), j \in 1 .. Len(y) :
         x[i] = y[j] <=> i - a = j - c /\ i - a \in 1 .. l

\* The table of such a pair: one diagonal.
Diagonal(run, M, N, a, c, l) ==
    /\ a \in Nat /\ c \in Nat /\ l \in Nat /\ l > 1 /\ a + l <= M /\ c + l <= N
    /\ DOMAIN run = (0 .. M) \X (0 .. N)
    /\ \A i \in 0 .. M, j \in 0 .. N :
         run[<<i, j>>] = IF i - a = j - c /\ i - a \in 1 .. l THEN i - a ELSE 0

LEMMA DiagonalTable ==
    ASSUME NEW x \in Seq(Int), NEW y \in Seq(Int), NEW a, NEW c, NEW l, OneRun(x, y, a, c, l)
    PROVE  Diagonal(RunTable(x, y), Len(x), Len(y), a, c, l)
<1> DEFINE M == Len(x)
           N == Len(y)
           run == RunTable(x, y)
           On(i, j) == i - a = j - c /\ i - a \in 1 .. l
           Good(i) == \A j \in 0 .. N : run[<<i, j>>] = IF On(i, j) THEN i - a ELSE 0
           T == {i \in 0 .. M : Good(i)}
<1>1. M \in Nat /\ N \in Nat
  BY LenProperties
<1>2. DOMAIN run = (0 .. M) \X (0 .. N) /\ \A i \in 0 .. M, j \in 0 .. N :
        run[<<i, j>>] = IF i = 0 \/ j = 0 THEN 0
                        ELSE IF x[i] = y[j] THEN run[<<i - 1, j - 1>>] + 1 ELSE 0
  <2>1. IsRunTable(run, x, y)
    BY RunTableWalk
  <2> HIDE DEF run
  <2> QED BY <2>1 DEF IsRunTable
<1>3. /\ a \in Nat /\ c \in Nat /\ l \in Nat /\ l > 1 /\ a + l <= M /\ c + l <= N
      /\ \A i \in 1 .. M, j \in 1 .. N : x[i] = y[j] <=> On(i, j)
  BY DEF OneRun
<1> HIDE DEF M, N, run
<1>4. 0 \in T
  <2>1. 0 \in 0 .. M
    BY <1>1
  <2>2. ASSUME NEW j \in 0 .. N PROVE run[<<0, j>>] = IF On(0, j) THEN 0 - a ELSE 0
    <3>1. run[<<0, j>>] = 0
      BY <1>2, <2>1
    <3>2. ~On(0, j)
      BY <1>3
    <3> HIDE DEF On
    <3> QED BY <3>1, <3>2
  <2> QED BY <2>1, <2>2
<1>5. ASSUME NEW i \in 1 .. M, i - 1 \in T PROVE i \in T
  <2>1. i \in 0 .. M /\ i \in Nat /\ i # 0
    BY <1>1
  <2>2. ASSUME NEW j \in 0 .. N PROVE run[<<i, j>>] = IF On(i, j) THEN i - a ELSE 0
    <3>1. run[<<i, j>>] = IF i = 0 \/ j = 0 THEN 0
                          ELSE IF x[i] = y[j] THEN run[<<i - 1, j - 1>>] + 1 ELSE 0
      BY <1>2, <2>1
    <3>2. CASE j = 0
      <4>1. ~On(i, j)
        BY <1>3, <3>2
      <4> HIDE DEF On
      <4> QED BY <3>1, <3>2, <4>1
    <3>3. CASE j # 0 /\ ~On(i, j)
      <4>1. x[i] # y[j]
        <5>1. j \in 1 .. N
          BY <1>1, <3>3
        <5> QED BY <1>3, <3>3, <5>1
      <4> HIDE DEF On
      <4> QED BY <3>1, <3>3, <4>1
    <3>4. CASE j # 0 /\ On(i, j)
      <4>1. x[i] = y[j] /\ j - 1 \in 0 .. N
        BY <1>1, <1>3, <3>4
      <4>2. run[<<i, j>>] = run[<<i - 1, j - 1>>] + 1
        BY <2>1, <3>1, <3>4, <4>1
      <4>3. run[<<i - 1, j - 1>>] = IF On(i - 1, j - 1) THEN (i - 1) - a ELSE 0
        BY <1>5, <4>1
      <4>4. (IF On(i - 1, j - 1) THEN (i - 1) - a ELSE 0) = (i - a) - 1
        BY <1>3, <2>1, <3>4
      <4> DEFINE r == run[<<i - 1, j - 1>>]
                 s == run[<<i, j>>]
      <4>5. r = (i - a) - 1 /\ s = r + 1 /\ i - a \in Int
        BY <1>3, <2>1, <4>2, <4>3, <4>4
      <4> HIDE DEF r, s
      <4>6. s = i - a
        BY <4>5
      <4> HIDE DEF On
      <4> QED BY <3>4, <4>6 DEF s
    <3> QED BY <3>2, <3>3, <3>4
  <2> QED BY <2>1, <2>2
<1>6. \A i \in 0 .. M : i \in T
  <2> HIDE DEF T
  <2> QED BY <1>1, <1>4, <1>5, CountsUp
<1>7. \A i \in 0 .. M, j \in 0 .. N : run[<<i, j>>] = IF On(i, j) THEN i - a ELSE 0
  BY <1>6
<1> QED BY <1>2, <1>3, <1>7 DEF Diagonal, M, N, run

\* Where the run ends is the last longest run.
LEMMA DiagonalEnd ==
    ASSUME NEW M \in Nat, NEW N \in Nat, NEW run, NEW a, NEW c, NEW l,
           Diagonal(run, M, N, a, c, l), NEW i0, NEW j0, i0 = a + l, j0 = c + l
    PROVE  LastLongest(run) = <<i0, j0>> /\ run[<<i0, j0>>] = l
<1> DEFINE e == <<a + l, c + l>>
           longest == {d \in DOMAIN run : \A f \in DOMAIN run : run[d] >= run[f]}
<1>1. a \in Nat /\ c \in Nat /\ l \in Nat /\ l > 1 /\ a + l \in 0 .. M /\ c + l \in 0 .. N
  BY DEF Diagonal
<1>2. DOMAIN run = (0 .. M) \X (0 .. N)
  BY DEF Diagonal
<1>3. e \in DOMAIN run /\ run[e] = l
  <2>1. run[<<a + l, c + l>>] = IF (a + l) - a = (c + l) - c /\ (a + l) - a \in 1 .. l
                                THEN (a + l) - a ELSE 0
    BY <1>1 DEF Diagonal
  <2>2. (a + l) - a = l /\ (c + l) - c = l /\ l \in 1 .. l
    BY <1>1
  <2> QED BY <1>1, <1>2, <2>1, <2>2
<1>4. ASSUME NEW d \in DOMAIN run
      PROVE  run[d] \in Int /\ run[d] <= l /\ (run[d] = l => d = e)
  <2>1. PICK i \in 0 .. M, j \in 0 .. N : d = <<i, j>>
    BY <1>2
  <2>2. run[<<i, j>>] = IF i - a = j - c /\ i - a \in 1 .. l THEN i - a ELSE 0
    BY DEF Diagonal
  <2>3. run[d] = IF i - a = j - c /\ i - a \in 1 .. l THEN i - a ELSE 0
    BY <2>1, <2>2
  <2>4. run[d] \in Int /\ run[d] <= l
    BY <1>1, <2>3
  <2>5. run[d] = l => i = a + l /\ j = c + l
    BY <1>1, <2>3
  <2> QED BY <2>1, <2>4, <2>5
<1> HIDE DEF e
<1>5. e \in longest
  BY <1>1, <1>3, <1>4
<1>6. \A d \in longest : d = e
  <2> TAKE d \in longest
  <2>1. run[d] >= run[e] /\ d \in DOMAIN run
    BY <1>3
  <2>2. run[d] \in Int /\ run[d] <= l /\ (run[d] = l => d = e)
    BY <1>4, <2>1
  <2> QED BY <1>1, <1>3, <2>1, <2>2
<1>7. Later(e, e)
  <2>1. e[1] \in Int /\ e[2] \in Int
    BY <1>1 DEF e
  <2> QED BY <2>1 DEF Later
<1>8. ~(\A d \in DOMAIN run : run[d] = 0)
  BY <1>1, <1>3
<1>9. LastLongest(run) = CHOOSE d \in longest : \A f \in longest : Later(d, f)
  BY <1>8 DEF LastLongest
<1> DEFINE P(d) == d \in longest /\ \A f \in longest : Later(d, f)
           ch == CHOOSE d \in longest : \A f \in longest : Later(d, f)
<1> HIDE DEF longest
<1>10. e \in longest /\ \A f \in longest : Later(e, f)
  BY <1>5, <1>6, <1>7
<1>11. ch \in longest
  BY <1>10
<1> HIDE DEF ch
<1>12. LastLongest(run) = e
  BY <1>6, <1>9, <1>11 DEF ch
<1> QED BY <1>3, <1>12 DEF e
-----------------------------------------------------------------------------
(* The partial branch on one diagonal *)

\* A quotient and a remainder are what multiplies back.
LEMMA DivIs ==
    ASSUME NEW n \in Nat \ {0}, NEW q \in Nat, NEW r \in 0 .. n - 1
    PROVE  n * q + r \in Nat /\ (n * q + r) \div n = q /\ (n * q + r) % n = r
<1> DEFINE m == n * q + r
           d == m \div n
           s == m % n
<1>1. m \in Nat
  OBVIOUS
<1>2. m = n * d + s /\ s \in 0 .. n - 1 /\ d \in Nat
  <2> HIDE DEF m
  <2> QED BY <1>1, DivMod
<1> HIDE DEF d, s
<1>3. n * q \in Nat /\ n * d \in Nat /\ n * q + r = n * d + s
  BY <1>2
<1>4. ~(q < d)
  <2> SUFFICES ASSUME q + 1 <= d PROVE FALSE
    BY <1>2
  <2>1. n * (q + 1) <= n * d /\ n * (q + 1) = n * q + n
    BY <1>2, MulMono
  <2> QED BY <1>2, <1>3, <2>1
<1>5. ~(d < q)
  <2> SUFFICES ASSUME d + 1 <= q PROVE FALSE
    BY <1>2
  <2>1. n * (d + 1) <= n * q /\ n * (d + 1) = n * d + n
    BY <1>2, MulMono
  <2> QED BY <1>2, <1>3, <2>1
<1>6. d = q
  BY <1>2, <1>4, <1>5
<1>7. s = r
  BY <1>2, <1>3, <1>6
<1> QED BY <1>1, <1>6, <1>7 DEF d, s

\* The scan comes to the end of the run before it comes to the rest of it, and keeps it.
LEMMA DiagonalLeftmost ==
    ASSUME NEW M \in Nat, NEW N \in Nat, NEW run, IsTable(run, M, N), NEW a, NEW c, NEW l,
           Diagonal(run, M, N, a, c, l)
    PROVE  Leftmost(run, M, N) = [i |-> a + l, j |-> c + l, len |-> l, upto |-> c + l]
<1> DEFINE n == N + 1
           K == (M + 1) * (N + 1)
           i0 == a + l
           j0 == c + l
           q0 == M - i0
           k0 == n * q0 + j0 + 1
           b == [i |-> M, j |-> -1, len |-> 0, upto |-> N]
           e == [i |-> i0, j |-> j0, len |-> l, upto |-> j0]
<1>1. /\ a \in Nat /\ c \in Nat /\ l \in Nat /\ l > 1 /\ i0 \in 0 .. M /\ j0 \in 0 .. N
      /\ \A i \in 0 .. M, j \in 0 .. N :
           run[<<i, j>>] = IF i - a = j - c /\ i - a \in 1 .. l THEN i - a ELSE 0
  BY DEF Diagonal
<1>2. n \in Nat \ {0} /\ q0 \in Nat /\ q0 <= M /\ j0 \in 0 .. n - 1
  BY <1>1
<1>3. K \in Nat /\ K = n * (M + 1)
  OBVIOUS
<1>4. PICK held :
        /\ held[0] = b
        /\ \A k \in 1 .. K : held[k] = Longer(run, held[k - 1], Scan(k, M, N))
        /\ \A k \in 0 .. K : held[k] \in HeldType(M, N) /\ Holds(run, held[k])
        /\ Leftmost(run, M, N) = held[K]
  BY LeftmostWalk
<1> HIDE DEF n, K
<1>5. k0 \in 1 .. K
  <2>1. n * q0 \in Nat
    BY <1>2
  <2>2. n * (q0 + 1) <= n * (M + 1) /\ n * (q0 + 1) = n * q0 + n
    BY <1>2, MulMono
  <2> HIDE DEF q0, j0
  <2> QED BY <1>2, <1>3, <2>1, <2>2
<1>6. Scan(k0, M, N) = <<i0, j0>>
  <2>1. (n * q0 + j0) \div n = q0 /\ (n * q0 + j0) % n = j0 /\ n * q0 + j0 \in Nat
    BY <1>2, DivIs
  <2>2. k0 - 1 = n * q0 + j0
    <3> HIDE DEF q0, j0
    <3> QED BY <1>2, <2>1
  <2>3. M - q0 = i0
    BY <1>1
  <2> HIDE DEF q0, j0, i0, k0
  <2> QED BY <2>1, <2>2, <2>3 DEF Scan, n
<1>7. ASSUME NEW k \in 1 .. K, k < k0
      PROVE  \E i \in 0 .. M, j \in 0 .. N : Scan(k, M, N) = <<i, j>> /\ run[<<i, j>>] = 0
  <2> DEFINE q == (k - 1) \div n
             r == (k - 1) % n
  <2>1. PICK i \in 0 .. M, j \in 0 .. N : Scan(k, M, N) = <<i, j>>
    BY ScanStays DEF K
  <2>2. k - 1 \in Nat /\ k - 1 = n * q + r /\ r \in 0 .. n - 1 /\ q \in Nat
    <3>1. k - 1 \in Nat
      BY <1>3
    <3> QED BY <1>2, <3>1, DivMod
  <2>3. Scan(k, M, N) = <<M - q, r>>
    BY DEF Scan, n
  <2> HIDE DEF q, r
  <2>4. i = M - q /\ j = r
    BY <2>1, <2>3
  <2>5. q < q0 \/ (q = q0 /\ r < j0)
    <3> SUFFICES ASSUME ~(q < q0), ~(q = q0 /\ r < j0) PROVE FALSE
      OBVIOUS
    <3>1. n * q \in Nat /\ n * q0 \in Nat
      BY <1>2, <2>2
    <3>2. CASE q = q0
      <4>1. k - 1 < n * q0 + j0
        <5> HIDE DEF q0, j0
        <5> QED BY <1>2, <1>3, <1>7, <3>1
      <4> HIDE DEF q0, j0
      <4> QED BY <1>2, <2>2, <3>1, <3>2, <4>1
    <3>3. CASE q0 + 1 <= q
      <4>1. n * (q0 + 1) <= n * q /\ n * (q0 + 1) = n * q0 + n
        BY <1>2, <2>2, <3>3, MulMono
      <4> HIDE DEF q0, j0
      <4> QED BY <1>2, <1>3, <1>7, <2>2, <3>1, <4>1
    <3>4. q = q0 \/ q0 + 1 <= q
      <4> HIDE DEF q0
      <4> QED BY <1>2, <2>2
    <3> QED BY <3>2, <3>3, <3>4
  <2>6. run[<<i, j>>] = IF i - a = j - c /\ i - a \in 1 .. l THEN i - a ELSE 0
    BY <1>1
  <2>7. ~(i - a = j - c /\ i - a \in 1 .. l)
    BY <1>1, <2>2, <2>4, <2>5
  <2> QED BY <2>1, <2>6, <2>7
<1>8. run[<<i0, j0>>] = l /\ \A i \in 0 .. M, j \in 0 .. N : run[<<i, j>>] <= l
  <2>1. run[<<i0, j0>>] = l
    <3>1. run[<<i0, j0>>] = IF i0 - a = j0 - c /\ i0 - a \in 1 .. l THEN i0 - a ELSE 0
      BY <1>1
    <3>2. i0 - a = l /\ j0 - c = l /\ l \in 1 .. l
      BY <1>1
    <3> HIDE DEF i0, j0
    <3> QED BY <3>1, <3>2
  <2>2. ASSUME NEW i \in 0 .. M, NEW j \in 0 .. N PROVE run[<<i, j>>] <= l
    <3>1. run[<<i, j>>] = IF i - a = j - c /\ i - a \in 1 .. l THEN i - a ELSE 0
      BY <1>1
    <3> QED BY <1>1, <3>1
  <2> QED BY <2>1, <2>2
<1> HIDE DEF i0, j0, q0, k0
<1> DEFINE T == {k \in 0 .. K : held[k] = IF k < k0 THEN b ELSE e}
<1>9. 0 \in T
  BY <1>3, <1>4, <1>5
<1>10. ASSUME NEW k \in 1 .. K, k - 1 \in T PROVE k \in T
  <2>1. held[k] = Longer(run, held[k - 1], Scan(k, M, N)) /\ k \in 0 .. K /\ k0 \in Nat
        /\ held[k - 1] = IF k - 1 < k0 THEN b ELSE e
    BY <1>3, <1>4, <1>5, <1>10
  <2>2. CASE k < k0
    <3>1. PICK i \in 0 .. M, j \in 0 .. N : Scan(k, M, N) = <<i, j>> /\ run[<<i, j>>] = 0
      BY <1>7, <2>2
    <3>2. held[k - 1] = b
      BY <2>1, <2>2
    <3>3. ~(run[<<i, j>>] > b.len)
      BY <3>1
    <3> HIDE DEF b
    <3>4. held[k] = b
      BY <2>1, <3>1, <3>2, <3>3 DEF Longer
    <3> HIDE DEF e
    <3> QED BY <2>1, <2>2, <3>4
  <2>3. CASE k = k0
    <3>1. held[k - 1] = b
      BY <2>1, <2>3
    <3>2. run[<<i0, j0>>] > b.len /\ j0 <= b.upto
      BY <1>1, <1>2, <1>8
    <3>3. <<i0, j0>>[1] = i0 /\ <<i0, j0>>[2] = j0
      OBVIOUS
    <3> HIDE DEF b
    <3>4. Longer(run, b, <<i0, j0>>) = e
      BY <1>8, <3>2, <3>3 DEF Longer
    <3>5. held[k] = e
      BY <1>6, <2>1, <2>3, <3>1, <3>4
    <3> HIDE DEF e
    <3> QED BY <2>1, <2>3, <3>5
  <2>4. CASE k > k0
    <3>1. PICK i \in 0 .. M, j \in 0 .. N : Scan(k, M, N) = <<i, j>>
      BY ScanStays DEF K
    <3>2. held[k - 1] = e
      BY <2>1, <2>4
    <3>3. run[<<i, j>>] <= l /\ run[<<i, j>>] \in Nat
      BY <1>8 DEF IsTable
    <3>4. ~(run[<<i, j>>] > e.len)
      BY <1>1, <3>3
    <3> HIDE DEF e
    <3>5. held[k] = e
      BY <2>1, <3>1, <3>2, <3>4 DEF Longer
    <3> HIDE DEF b
    <3> QED BY <2>1, <2>4, <3>5
  <2>5. k < k0 \/ k = k0 \/ k > k0
    BY <2>1
  <2> QED BY <2>2, <2>3, <2>4, <2>5
<1>11. K \in T
  <2> HIDE DEF T
  <2>1. \A k \in 0 .. K : k \in T
    BY <1>3, <1>9, <1>10, CountsUp
  <2> QED BY <1>3, <2>1
<1>12. held[K] = e
  <2> HIDE DEF e, b
  <2> QED BY <1>5, <1>11
<1> QED BY <1>4, <1>12 DEF i0, j0

\* A read of the table inside it, and outside.
LEMMA AtIs ==
    ASSUME NEW run, NEW i, NEW j
    PROVE  /\ <<i, j>> \in DOMAIN run => At(run, i, j) = run[<<i, j>>]
           /\ <<i, j>> \notin DOMAIN run => At(run, i, j) = 0
BY Zenon DEF At

\* Below the end of the run there is nothing to extend it by.
LEMMA DiagonalExpansion ==
    ASSUME NEW M \in Nat, NEW N \in Nat, NEW run, NEW a, NEW c, NEW l, NEW from,
           Diagonal(run, M, N, a, c, l), from.i = a + l, from.j = c + l
    PROVE  Expansion(run, from, M, N) = 0
<1> DEFINE K == M - from.i
<1>1. /\ a \in Nat /\ c \in Nat /\ l \in Nat /\ from.i \in 0 .. M /\ from.j \in 0 .. N
      /\ from.i = a + l
      /\ DOMAIN run = (0 .. M) \X (0 .. N)
      /\ \A i \in 0 .. M, j \in 0 .. N :
           run[<<i, j>>] = IF i - a = j - c /\ i - a \in 1 .. l THEN i - a ELSE 0
  BY DEF Diagonal
<1>2. PICK down :
        /\ down[0] = [skip |-> 0, by |-> 0]
        /\ \A k \in 1 .. K : down[k] = NextRow(run, from.i + k, from.j + k, N, down[k - 1])
        /\ \A k \in 0 .. K : down[k] \in DownType /\ from.j + down[k].by <= N
        /\ Expansion(run, from, M, N) = down[K].by
  BY <1>1, ExpansionWalk
<1>3. K \in Nat
  BY <1>1
<1>4. ASSUME NEW k \in 1 .. K, NEW j PROVE At(run, from.i + k, j) = 0
  <2> DEFINE i == from.i + k
  <2>1. i \in 0 .. M /\ ~(i - a \in 1 .. l)
    BY <1>1
  <2> HIDE DEF i
  <2>2. CASE <<i, j>> \in DOMAIN run
    <3>1. j \in 0 .. N
      BY <1>1, <2>2
    <3>2. run[<<i, j>>] = 0
      BY <1>1, <2>1, <3>1
    <3> QED BY <2>2, <3>2, AtIs DEF i
  <2>3. CASE ~(<<i, j>> \in DOMAIN run)
    BY <2>3, AtIs DEF i
  <2> QED BY <2>2, <2>3
<1> HIDE DEF K
<1> DEFINE T == {k \in 0 .. K : down[k].by = 0}
<1>5. 0 \in T
  BY <1>2, <1>3
<1>6. ASSUME NEW k \in 1 .. K, k - 1 \in T PROVE k \in T
  <2> DEFINE d == down[k - 1]
             seen == {j \in from.j + k .. (from.j + k) + d.skip : j <= N}
             gaps == {j \in seen : At(run, from.i + k, j) = 0}
             hits == seen \ gaps
             skip == d.skip + IF gaps = {} THEN 0 ELSE 1
             by == IF hits = {} THEN d.by
                   ELSE 1 + d.skip + IF \E g \in gaps, h \in hits : g < h THEN 1 ELSE 0
  <2>1. down[k] = [skip |-> skip, by |-> by]
    BY <1>2 DEF NextRow
  <2>2. hits = {}
    BY <1>4
  <2>3. d.by = 0 /\ k \in 0 .. K
    BY <1>6
  <2> HIDE DEF hits, d
  <2>4. by = 0
    BY <2>2, <2>3
  <2> HIDE DEF by, skip
  <2>5. down[k].by = 0
    BY <2>1, <2>4
  <2> QED BY <2>3, <2>5
<1>7. K \in T
  <2> HIDE DEF T
  <2>1. \A k \in 0 .. K : k \in T
    BY <1>3, <1>5, <1>6, CountsUp
  <2> QED BY <1>3, <2>1
<1> QED BY <1>2, <1>7
-----------------------------------------------------------------------------
\* The walk back from the end of the run takes l steps and one more, over a token of the
\* old text, if it stops one column short.
Overrun(a, c) == IF a > 0 /\ c = 1 THEN 1 ELSE 0

LEMMA DiagonalBacktrack ==
    ASSUME NEW M \in Nat, NEW N \in Nat, NEW run, IsTable(run, M, N), NEW a, NEW c, NEW l,
           Diagonal(run, M, N, a, c, l), a = 0 \/ c \in {0, 1},
           NEW i0 \in Nat, NEW j0 \in Nat, i0 - a = l, j0 - c = l
    PROVE  /\ Backtrack(run, i0, j0).i = a
           /\ Backtrack(run, i0, j0).j = c - Overrun(a, c)
           /\ Backtrack(run, i0, j0).length = l + Overrun(a, c)
<1> DEFINE o == Overrun(a, c)
<1>1. /\ i0 = a + l /\ j0 = c + l /\ a \in Nat /\ c \in Nat /\ l \in Nat /\ l > 1 /\ i0 \in 0 .. M /\ j0 \in 0 .. N
      /\ \A i \in 0 .. M, j \in 0 .. N :
           run[<<i, j>>] = IF i - a = j - c /\ i - a \in 1 .. l THEN i - a ELSE 0
  BY DEF Diagonal
<1>2. PICK back :
        /\ back[0].i = i0 /\ back[0].j = j0 /\ back[0].length = 0
        /\ \A k \in 1 .. i0 : back[k] = StepBack(run, back[k - 1])
        /\ \A k \in 0 .. i0 : back[k] \in AlignmentType(M, N)
        /\ Backtrack(run, i0, j0) = back[i0]
  <2>1. i0 \in 0 .. M /\ j0 \in 0 .. N
    BY <1>1
  <2> QED BY <2>1, BacktrackWalk
<1>3. o \in {0, 1} /\ (o = 1 <=> a > 0 /\ c = 1)
  BY DEF Overrun
<1> HIDE DEF o
<1> DEFINE I(k) == IF k <= l THEN i0 - k ELSE a
           J(k) == IF k <= l THEN j0 - k ELSE c - o
           L(k) == IF k <= l THEN k ELSE l + o
           Good(k) == back[k].i = I(k) /\ back[k].j = J(k) /\ back[k].length = L(k)
           T == {k \in 0 .. i0 : Good(k)}
<1>4. 0 \in T
  <2>1. back[0].i = i0 /\ back[0].j = j0 /\ back[0].length = 0
    BY <1>2
  <2>2. I(0) = i0 /\ J(0) = j0 /\ L(0) = 0 /\ 0 \in 0 .. i0
    BY <1>1
  <2> HIDE DEF I, J, L
  <2> QED BY <2>1, <2>2
<1>5. ASSUME NEW k \in 1 .. i0, k - 1 \in T PROVE k \in T
  <2> DEFINE p == back[k - 1]
             pi == p.i
             pj == p.j
             skip == IF At(run, pi, pj) = 0 THEN 1 ELSE 0
             step == IF pj > skip THEN 1 ELSE 0
  <2>1. back[k] = StepBack(run, p) /\ k \in 0 .. i0 /\ k \in Nat
    BY <1>2
  <2>2. pi = I(k - 1) /\ pj = J(k - 1) /\ p.length = L(k - 1)
    BY <1>5
  <2>3. ASSUME ~(pi <= 0 \/ pj <= 0)
        PROVE  /\ back[k].i = pi - step /\ back[k].j = (pj - skip) - step
               /\ back[k].length = (p.length + skip) + step
    BY <2>1, <2>3 DEF StepBack, Alignment
  <2>4. ASSUME pi <= 0 \/ pj <= 0 PROVE back[k] = p
    BY <2>1, <2>4 DEF StepBack
  <2>5. CASE k <= l
    <3>1. pi = (a + l) - (k - 1) /\ pj = (c + l) - (k - 1) /\ p.length = k - 1
      BY <1>1, <2>1, <2>2, <2>5
    <3>2. pi \in 0 .. M /\ pj \in 0 .. N /\ pi > 0 /\ pj > 0 /\ pi - a = pj - c
          /\ pi - a \in 1 .. l
      BY <1>1, <2>1, <2>5, <3>1
    <3>3. At(run, pi, pj) = pi - a
      <4>1. <<pi, pj>> \in DOMAIN run
        BY <3>2 DEF Diagonal
      <4>2. run[<<pi, pj>>] = IF pi - a = pj - c /\ pi - a \in 1 .. l THEN pi - a ELSE 0
        BY <1>1, <3>2
      <4> HIDE DEF pi, pj
      <4>3. At(run, pi, pj) = run[<<pi, pj>>]
        BY <4>1, AtIs
      <4> QED BY <3>2, <4>2, <4>3
    <3>4. skip = 0 /\ step = 1
      BY <3>2, <3>3
    <3>5. ~(pi <= 0 \/ pj <= 0)
      BY <3>2
    <3>6. back[k].i = pi - 1 /\ back[k].j = (pj - 0) - 1 /\ back[k].length = (p.length + 0) + 1
      BY <2>3, <3>4, <3>5
    <3>7. back[k].i = (a + l) - k /\ back[k].j = (c + l) - k /\ back[k].length = k
      <4> HIDE DEF pi, pj, p
      <4> QED BY <1>1, <2>1, <3>1, <3>2, <3>6
    <3> QED BY <1>1, <2>1, <2>5, <3>7
  <2>6. CASE k = l + 1
    <3>1. pi = a /\ pj = c /\ p.length = l /\ a > 0
      BY <1>1, <2>1, <2>2, <2>6
    <3>2. CASE c = 0
      <4>1. back[k] = p
        BY <2>4, <3>1, <3>2
      <4>2. o = 0
        BY <1>3, <3>2
      <4>3. I(k) = a /\ J(k) = 0 /\ L(k) = l
        BY <1>1, <2>6, <3>2, <4>2
      <4> HIDE DEF I, J, L
      <4> QED BY <2>1, <3>1, <3>2, <4>1, <4>3
    <3>3. CASE c = 1
      <4>1. At(run, pi, pj) = 0
        <5>1. a \in 0 .. M /\ 1 \in 0 .. N
          BY <1>1
        <5>2. run[<<a, 1>>] = 0
          <6>1. run[<<a, 1>>] = IF a - a = 1 - c /\ a - a \in 1 .. l THEN a - a ELSE 0
            BY <1>1, <5>1
          <6>2. a - a = 0 /\ ~(0 \in 1 .. l)
            BY <1>1
          <6> QED BY <6>1, <6>2
        <5>3. <<a, 1>> \in DOMAIN run
          BY <5>1 DEF Diagonal
        <5>4. At(run, a, 1) = 0
          BY <5>2, <5>3, AtIs
        <5> HIDE DEF pi, pj
        <5> QED BY <3>1, <3>3, <5>4
      <4>2. skip = 1 /\ step = 0
        <5> HIDE DEF p
        <5> QED BY <3>1, <3>3, <4>1
      <4>3. ~(pi <= 0 \/ pj <= 0)
        BY <1>1, <3>1, <3>3
      <4>4. back[k].i = pi - 0 /\ back[k].j = (pj - 1) - 0 /\ back[k].length = (p.length + 1) + 0
        BY <2>3, <4>2, <4>3
      <4>5. o = 1
        BY <1>3, <3>1, <3>3
      <4>6. I(k) = a /\ J(k) = 0 /\ L(k) = l + 1
        BY <1>1, <2>6, <3>3, <4>5
      <4>7. back[k].i = a /\ back[k].j = 0 /\ back[k].length = l + 1
        <5> HIDE DEF pi, pj, p
        <5> QED BY <1>1, <3>1, <3>3, <4>4
      <4> HIDE DEF I, J, L
      <4> QED BY <2>1, <4>6, <4>7
    <3> QED BY <3>1, <3>2, <3>3
  <2>7. CASE k > l + 1
    <3>1. pi = a /\ pj = c - o /\ p.length = l + o /\ a > 0
      BY <1>1, <2>1, <2>2, <2>7
    <3>2. c - o = 0
      BY <1>1, <1>3, <3>1
    <3>3. back[k] = p
      BY <2>4, <3>1, <3>2
    <3>4. I(k) = a /\ J(k) = c - o /\ L(k) = l + o
      BY <1>1, <2>7
    <3> HIDE DEF I, J, L
    <3> QED BY <2>1, <3>1, <3>3, <3>4
  <2>8. k <= l \/ k = l + 1 \/ k > l + 1
    BY <1>1, <2>1
  <2> QED BY <2>5, <2>6, <2>7, <2>8
<1>6. i0 \in T
  <2> HIDE DEF T
  <2>1. \A k \in 0 .. i0 : k \in T
    BY <1>1, <1>4, <1>5, CountsUp
  <2> QED BY <1>1, <2>1
<1>7. Good(i0)
  BY <1>6
<1>8. I(i0) = a /\ J(i0) = c - o /\ L(i0) = l + o
  <2>1. CASE a = 0
    BY <1>1, <1>3, <2>1
  <2>2. CASE a > 0
    BY <1>1, <2>2
  <2> QED BY <1>1, <2>1, <2>2
<1> HIDE DEF I, J, L
<1> QED BY <1>2, <1>7, <1>8 DEF o

\* The tokens the merge keeps of the old text, and those it drops of the new one.
Aligned(r, kept, dropped) ==
    /\ r.i \in Nat /\ r.j \in Nat /\ r.length \in Nat /\ r.length >= 1
    /\ r.i + r.length = kept /\ r.j + r.length = dropped

\* Two texts that share one run are aligned on it; a token of the old text after the run
\* is kept if one of the new text comes before it.
LEMMA OneRunAligned ==
    ASSUME NEW x \in Seq(Int), NEW y \in Seq(Int), NEW a, NEW c, NEW l,
           OneRun(x, y, a, c, l), a = 0 \/ c \in {0, 1}
    PROVE  Aligned(LongestCommonRun(x, y),
                   a + l + (IF a + l = Len(x) THEN 0 ELSE Overrun(a, c)), c + l)
<1> DEFINE M == Len(x)
           N == Len(y)
           run == RunTable(x, y)
           end == <<a + l, c + l>>
           from == Leftmost(run, M, N)
           r == LongestCommonRun(x, y)
           o == Overrun(a, c)
<1>1. M \in Nat /\ N \in Nat
  BY LenProperties
<1>2. IsTable(run, M, N) /\ Diagonal(run, M, N, a, c, l)
  BY RunTableIs, DiagonalTable
<1>3. a \in Nat /\ c \in Nat /\ l \in Nat /\ l > 1 /\ o \in {0, 1} /\ (o = 1 => c = 1)
  BY DEF OneRun, Overrun
<1>4. r = IF LastLongest(run)[1] = M
          THEN Alignment(LastLongest(run)[1] - run[LastLongest(run)],
                         LastLongest(run)[2] - run[LastLongest(run)],
                         run[LastLongest(run)], TRUE)
          ELSE Partial(run, M, N)
  BY DEF LongestCommonRun
<1> HIDE DEF run, M, N, r, o
<1>5. LastLongest(run) = end /\ run[end] = l
  <2> DEFINE i0 == a + l
             j0 == c + l
  <2>1. i0 = a + l /\ j0 = c + l
    OBVIOUS
  <2> HIDE DEF i0, j0
  <2>2. LastLongest(run) = <<i0, j0>> /\ run[<<i0, j0>>] = l
    BY <1>1, <1>2, <2>1, DiagonalEnd
  <2> QED BY <2>2 DEF i0, j0
<1>6. CASE a + l = M
  <2>1. r = Alignment((a + l) - l, (c + l) - l, l, TRUE)
    BY <1>4, <1>5, <1>6
  <2>2. (a + l) - l = a /\ (c + l) - l = c
    BY <1>3
  <2>3. r.i = a /\ r.j = c /\ r.length = l
    BY <2>1, <2>2 DEF Alignment
  <2>4. Aligned(r, a + l, c + l)
    BY <1>3, <2>3 DEF Aligned
  <2>5. a + l + (IF a + l = M THEN 0 ELSE o) = a + l
    BY <1>3, <1>6
  <2> QED BY <2>4, <2>5 DEF r, M, o
<1>7. CASE a + l # M
  <2>1. r = Partial(run, M, N)
    BY <1>4, <1>5, <1>7
  <2>2. from = [i |-> a + l, j |-> c + l, len |-> l, upto |-> c + l]
    BY <1>1, <1>2, DiagonalLeftmost
  <2> HIDE DEF from
  <2>3. from.i = a + l /\ from.j = c + l /\ from.len = l
    BY <2>2
  <2>4. Expansion(run, from, M, N) = 0
    BY <1>1, <1>2, <2>3, DiagonalExpansion
  <2>5. r = Backtrack(run, from.i, from.j + Expansion(run, from, M, N))
    BY <1>3, <2>1, <2>3 DEF Partial, Trusted, from
  <2>6. (c + l) + 0 = c + l
    BY <1>3
  <2> DEFINE i0 == a + l
             j0 == c + l
  <2>7. r = Backtrack(run, i0, j0)
    BY <2>3, <2>4, <2>5, <2>6
  <2>8. r.i = a /\ r.j = c - o /\ r.length = l + o
    <3>1. i0 \in Nat /\ j0 \in Nat /\ i0 - a = l /\ j0 - c = l
      BY <1>3
    <3> HIDE DEF i0, j0
    <3> QED BY <1>1, <1>2, <2>7, <3>1, DiagonalBacktrack DEF o
  <2>9. Aligned(r, a + (l + o), c + l)
    <3>1. c - o \in Nat /\ l + o \in Nat /\ l + o >= 1 /\ (c - o) + (l + o) = c + l
      BY <1>3
    <3> HIDE DEF r
    <3> QED BY <1>3, <2>8, <3>1 DEF Aligned
  <2>10. a + l + (IF a + l = M THEN 0 ELSE o) = a + (l + o)
    BY <1>3, <1>7
  <2> QED BY <2>9, <2>10 DEF r, M, o
<1> QED BY <1>6, <1>7
-----------------------------------------------------------------------------
(* One merge of the texts of a speech *)

\* Words are told apart by where they are spoken.
LEMMA SaidApart ==
    ASSUME NEW v \in Nat \ {0}, NEW w \in Nat \ {0}
    PROVE  Said(v) \in Nat /\ (Said(v) = Said(w) => v = w)
<1>1. WordEvery \in Nat /\ WordEvery > 0
  BY TimeAssumption
<1> DEFINE s == WordEvery
<1>2. ASSUME NEW a \in Nat \ {0} PROVE Said(a) = s * (a - 1) /\ s * (a - 1) \in Nat
  BY <1>1 DEF Said
<1>3. ASSUME NEW a \in Nat \ {0}, NEW b \in Nat \ {0}, a < b PROVE Said(a) < Said(b)
  <2>1. s * ((a - 1) + 1) <= s * (b - 1) /\ s * ((a - 1) + 1) = s * (a - 1) + s
    <3>1. s \in Nat /\ a - 1 \in Int /\ (a - 1) + 1 \in Int /\ b - 1 \in Int /\ a - 1 <= b - 1
          /\ (a - 1) + 1 <= b - 1
      BY <1>1, <1>3
    <3> DEFINE x == a - 1
               y == b - 1
    <3> HIDE DEF s, x, y
    <3>2. s * (x + 1) = s * x + s
      <4>1. s \in Nat /\ x \in Int /\ y \in Int /\ x <= y
        BY <3>1 DEF x, y
      <4> QED BY <4>1, MulMono
    <3>3. s * (x + 1) <= s * y
      <4>1. s \in Nat /\ x + 1 \in Int /\ y \in Int /\ x + 1 <= y
        BY <3>1 DEF x, y
      <4> QED BY <4>1, MulMono
    <3> QED BY <3>2, <3>3 DEF x, y
  <2>2. Said(a) = s * (a - 1) /\ s * (a - 1) \in Nat /\ Said(b) = s * (b - 1)
        /\ s * (b - 1) \in Nat
    BY <1>2
  <2> DEFINE x == s * (a - 1)
             y == s * (b - 1)
             z == s * ((a - 1) + 1)
  <2>3. x \in Nat /\ y \in Nat /\ Said(a) = x /\ Said(b) = y /\ z <= y /\ z = x + s
    BY <2>1, <2>2
  <2> HIDE DEF x, y, z
  <2>4. x < y
    BY <1>1, <2>3
  <2> QED BY <2>3, <2>4
<1>4. Said(v) \in Nat /\ Said(w) \in Nat
  BY <1>2
<1>5. v < w \/ v = w \/ w < v
  OBVIOUS
<1>6. v < w => Said(v) < Said(w)
  BY <1>3
<1>7. w < v => Said(w) < Said(v)
  BY <1>3
<1> QED BY <1>4, <1>5, <1>6, <1>7

\* The merge of the windows so far: its first q tokens tell u words, the words after
\* them are there in a row up to word e, and one token more if the last was misheard.
Stitched(ids, q, u, e, t) ==
    /\ q \in Nat /\ u \in Nat /\ e \in Nat /\ t \in {0, 1} /\ u <= e
    /\ Len(ids) = q + (e - u) + t
    /\ Tells(ids, q, u)
    /\ \A n \in 1 .. q : ids[n] < 0 \/ \E w \in 1 .. u : ids[n] = Said(w)
    /\ \A j \in 1 .. e - u : ids[q + j] = Said(u + j)
    /\ t = 1 => ids[Len(ids)] < 0

\* The text of one window: words b + 1 to f, between h and t misheard ones.
HeardText(ids, h, b, f, t) ==
    /\ h \in {0, 1} /\ b \in Nat /\ f \in Nat /\ t \in {0, 1} /\ b <= f
    /\ Len(ids) = h + (f - b) + t
    /\ h = 1 => ids[1] < 0
    /\ \A j \in 1 .. f - b : ids[h + j] = Said(b + j)
    /\ t = 1 => ids[Len(ids)] < 0

\* What one text misheard is nowhere in the other.
Apart(ids, others) ==
    \A n \in 1 .. Len(ids), m \in 1 .. Len(others) : ids[n] < 0 => ids[n] # others[m]

\* The first `kept` tokens of one text and the other's after `from`.
Spliced(r, ids, kept, others, from) ==
    /\ r \in Seq(Int)
    /\ Len(r) = kept + (Len(others) - from)
    /\ \A n \in 1 .. kept : r[n] = ids[n]
    /\ \A j \in 1 .. Len(others) - from : r[kept + j] = others[from + j]

LEMMA FirstTokens ==
    ASSUME NEW s \in Seq(Int), NEW kept \in 0 .. Len(s)
    PROVE  /\ SubSeq(s, 1, kept) \in Seq(Int) /\ Len(SubSeq(s, 1, kept)) = kept
           /\ \A n \in 1 .. kept : SubSeq(s, 1, kept)[n] = s[n]
<1> DEFINE a == SubSeq(s, 1, kept)
<1>1. 1 \in Nat /\ 1 > 0 /\ kept \in Nat /\ kept <= Len(s)
  BY LenProperties
<1>2. /\ a \in Seq(Int) /\ Len(a) = IF 1 <= kept THEN kept - 1 + 1 ELSE 0
      /\ \A n \in 1 .. kept - 1 + 1 : a[n] = s[1 + n - 1]
  BY <1>1, TextSliceTyped
<1> HIDE DEF a
<1>3. ASSUME NEW n \in 1 .. kept PROVE a[n] = s[n]
  <2>1. n \in 1 .. kept - 1 + 1 /\ 1 + n - 1 = n
    BY <1>1
  <2> QED BY <1>2, <2>1
<1>4. Len(a) = kept
  BY <1>1, <1>2
<1> QED BY <1>2, <1>3, <1>4 DEF a

LEMMA TokensAfter ==
    ASSUME NEW t \in Seq(Int), NEW from \in 0 .. Len(t)
    PROVE  /\ SubSeq(t, from + 1, Len(t)) \in Seq(Int)
           /\ Len(SubSeq(t, from + 1, Len(t))) = Len(t) - from
           /\ \A j \in 1 .. Len(t) - from : SubSeq(t, from + 1, Len(t))[j] = t[from + j]
<1> DEFINE l == Len(t)
           m == from + 1
           b == SubSeq(t, m, l)
<1>1. l \in Nat /\ from \in Nat /\ from <= l /\ m \in Nat /\ m > 0 /\ l <= Len(t)
  BY LenProperties
<1> HIDE DEF m, l
<1>2. /\ b \in Seq(Int) /\ Len(b) = IF m <= l THEN l - m + 1 ELSE 0
      /\ \A n \in 1 .. l - m + 1 : b[n] = t[m + n - 1]
  BY <1>1, TextSliceTyped
<1> HIDE DEF b
<1>3. Len(b) = l - from
  BY <1>1, <1>2 DEF m
<1>4. ASSUME NEW j \in 1 .. l - from PROVE b[j] = t[from + j]
  <2>1. j \in 1 .. l - m + 1 /\ m + j - 1 = from + j
    BY <1>1 DEF m
  <2> QED BY <1>2, <2>1
<1> QED BY <1>2, <1>3, <1>4 DEF b, m, l

LEMMA SpliceIs ==
    ASSUME NEW s \in Seq(Int), NEW t \in Seq(Int), NEW kept \in 0 .. Len(s),
           NEW from \in 0 .. Len(t)
    PROVE  Spliced(SubSeq(s, 1, kept) \o SubSeq(t, from + 1, Len(t)), s, kept, t, from)
<1> DEFINE l == Len(t)
           a == SubSeq(s, 1, kept)
           b == SubSeq(t, from + 1, l)
           r == a \o b
<1>1. Len(s) \in Nat /\ l \in Nat /\ kept \in Nat /\ kept <= Len(s) /\ from \in Nat /\ from <= l
  BY LenProperties
<1>2. a \in Seq(Int) /\ Len(a) = kept /\ \A n \in 1 .. kept : a[n] = s[n]
  BY FirstTokens
<1>3. b \in Seq(Int) /\ Len(b) = l - from /\ \A j \in 1 .. l - from : b[j] = t[from + j]
  BY TokensAfter
<1> HIDE DEF a, b, l
<1>4. /\ r \in Seq(Int) /\ Len(r) = Len(a) + Len(b)
      /\ \A i \in 1 .. Len(a) + Len(b) : r[i] = IF i <= Len(a) THEN a[i] ELSE b[i - Len(a)]
  BY <1>2, <1>3, ConcatProperties
<1> HIDE DEF r
<1>5. Len(r) = kept + (l - from)
  BY <1>2, <1>3, <1>4
<1>6. ASSUME NEW n \in 1 .. kept PROVE r[n] = s[n]
  <2>1. n \in 1 .. Len(a) + Len(b) /\ n <= Len(a)
    BY <1>1, <1>2, <1>3
  <2> QED BY <1>2, <1>4, <2>1
<1>7. ASSUME NEW j \in 1 .. l - from PROVE r[kept + j] = t[from + j]
  <2>1. kept + j \in 1 .. Len(a) + Len(b) /\ ~(kept + j <= Len(a)) /\ (kept + j) - Len(a) = j
    BY <1>1, <1>2, <1>3
  <2>2. r[kept + j] = b[(kept + j) - Len(a)]
    BY <1>4, <2>1
  <2> QED BY <1>3, <2>1, <2>2
<1> QED BY <1>4, <1>5, <1>6, <1>7 DEF Spliced, r, a, b, l

\* The rest of the other text, if only its head was spliced.
LEMMA SpliceRest ==
    ASSUME NEW r, NEW s, NEW t \in Seq(Int), NEW head \in 0 .. Len(t),
           NEW kept \in Nat, NEW from \in 0 .. head,
           Spliced(r, s, kept, SubSeq(t, 1, head), from)
    PROVE  Spliced(r \o SubSeq(t, head + 1, Len(t)), s, kept, t, from)
<1> DEFINE l == Len(t)
           y == SubSeq(t, 1, head)
           b == SubSeq(t, head + 1, l)
           w == r \o b
<1>1. l \in Nat /\ head \in Nat /\ head <= l /\ from \in Nat /\ from <= head
  BY LenProperties
<1>2. y \in Seq(Int) /\ Len(y) = head /\ \A n \in 1 .. head : y[n] = t[n]
  BY FirstTokens
<1>3. b \in Seq(Int) /\ Len(b) = l - head /\ \A j \in 1 .. l - head : b[j] = t[head + j]
  BY TokensAfter
<1> HIDE DEF y, b, l
<1>4. /\ r \in Seq(Int) /\ Len(r) = kept + (head - from)
      /\ \A n \in 1 .. kept : r[n] = s[n]
      /\ \A j \in 1 .. head - from : r[kept + j] = y[from + j]
  BY <1>2 DEF Spliced, y
<1>5. /\ w \in Seq(Int) /\ Len(w) = Len(r) + Len(b)
      /\ \A i \in 1 .. Len(r) + Len(b) : w[i] = IF i <= Len(r) THEN r[i] ELSE b[i - Len(r)]
  BY <1>3, <1>4, ConcatProperties
<1> HIDE DEF w
<1>6. Len(w) = kept + (l - from)
  BY <1>1, <1>3, <1>4, <1>5
<1>7. ASSUME NEW n \in 1 .. kept PROVE w[n] = s[n]
  <2>1. n \in 1 .. Len(r) + Len(b) /\ n <= Len(r)
    BY <1>1, <1>3, <1>4
  <2> QED BY <1>4, <1>5, <2>1
<1>8. ASSUME NEW j \in 1 .. l - from PROVE w[kept + j] = t[from + j]
  <2>1. CASE j <= head - from
    <3>1. kept + j \in 1 .. Len(r) + Len(b) /\ kept + j <= Len(r) /\ j \in 1 .. head - from
          /\ from + j \in 1 .. head
      BY <1>1, <1>3, <1>4, <2>1
    <3>2. w[kept + j] = r[kept + j]
      BY <1>5, <3>1
    <3>3. r[kept + j] = y[from + j]
      BY <1>4, <3>1
    <3>4. y[from + j] = t[from + j]
      BY <1>2, <3>1
    <3> QED BY <3>2, <3>3, <3>4
  <2>2. CASE ~(j <= head - from)
    <3> DEFINE i == j - (head - from)
    <3>1. kept + j \in 1 .. Len(r) + Len(b) /\ ~(kept + j <= Len(r)) /\ (kept + j) - Len(r) = i
          /\ i \in 1 .. l - head /\ head + i = from + j
      BY <1>1, <1>3, <1>4, <2>2
    <3> HIDE DEF i
    <3>2. w[kept + j] = b[i]
      BY <1>5, <3>1
    <3>3. b[i] = t[head + i]
      BY <1>3, <3>1
    <3> QED BY <3>1, <3>2, <3>3
  <2> QED BY <2>1, <2>2
<1> QED BY <1>5, <1>6, <1>7, <1>8 DEF Spliced, w, b, l
-----------------------------------------------------------------------------
\* Where a later word is in the merge so far.
WordIsAt(B, q, u, e, w, n) == B[n] = Said(w) <=> n = q + (w - u) /\ w <= e

LEMMA WordInMerge ==
    ASSUME NEW B \in Seq(Int), NEW q, NEW u, NEW e, NEW t, Stitched(B, q, u, e, t),
           NEW w \in Nat, w > u, NEW n \in 1 .. Len(B)
    PROVE  WordIsAt(B, q, u, e, w, n)
<1> SUFFICES B[n] = Said(w) <=> n = q + (w - u) /\ w <= e
  BY DEF WordIsAt
<1>1. /\ q \in Nat /\ u \in Nat /\ e \in Nat /\ t \in {0, 1} /\ u <= e
      /\ Len(B) = q + (e - u) + t
  BY DEF Stitched
<1>2. Said(w) \in Nat
  BY <1>1, SaidApart, SMTT(20)
<1>3. CASE n <= q
  <2>1. n \in 1 .. q /\ n # q + (w - u)
    BY <1>1, <1>3
  <2>2. B[n] < 0 \/ \E v \in 1 .. u : B[n] = Said(v)
    BY <2>1 DEF Stitched
  <2>3. ASSUME NEW v \in 1 .. u PROVE Said(v) # Said(w)
    <3>1. v \in Nat \ {0} /\ w \in Nat \ {0} /\ v # w
      BY <1>1
    <3> QED BY <3>1, SaidApart
  <2>4. B[n] # Said(w)
    BY <1>2, <2>2, <2>3
  <2> QED BY <2>1, <2>4
<1>4. CASE ~(n <= q) /\ n - q <= e - u
  <2> DEFINE j == n - q
             v == u + j
  <2>1. j \in 1 .. e - u /\ q + j = n /\ v \in Nat \ {0} /\ w \in Nat \ {0}
        /\ (v = w <=> n = q + (w - u) /\ w <= e)
    BY <1>1, <1>4
  <2>2. B[q + j] = Said(u + j)
    BY <2>1 DEF Stitched
  <2> HIDE DEF j
  <2>3. B[n] = Said(v)
    BY <2>1, <2>2
  <2> HIDE DEF v
  <2>4. Said(v) = Said(w) <=> v = w
    BY <2>1, SaidApart
  <2> QED BY <2>1, <2>3, <2>4
<1>5. CASE ~(n <= q) /\ ~(n - q <= e - u)
  <2>1. n = Len(B) /\ t = 1 /\ ~(n = q + (w - u) /\ w <= e)
    BY <1>1, <1>5
  <2>2. B[n] < 0
    BY <2>1 DEF Stitched
  <2> QED BY <1>2, <2>1, <2>2
<1> QED BY <1>3, <1>4, <1>5

\* A token of a window's text is one of its words, or misheard.
LEMMA TokenHeard ==
    ASSUME NEW D \in Seq(Int), NEW h, NEW b, NEW f, NEW t, HeardText(D, h, b, f, t),
           NEW j \in 1 .. Len(D)
    PROVE  IF j - h \in 1 .. f - b THEN D[j] = Said(b + (j - h)) ELSE D[j] < 0
<1>1. /\ h \in {0, 1} /\ b \in Nat /\ f \in Nat /\ t \in {0, 1} /\ b <= f
      /\ Len(D) = h + (f - b) + t
  BY DEF HeardText
<1>2. CASE j - h \in 1 .. f - b
  <2> DEFINE i == j - h
  <2>1. i \in 1 .. f - b /\ h + i = j
    BY <1>1, <1>2
  <2> HIDE DEF i
  <2>2. D[h + i] = Said(b + i)
    BY <2>1 DEF HeardText
  <2>3. D[j] = Said(b + i)
    BY <2>1, <2>2
  <2> QED BY <1>2, <2>3 DEF i
<1>3. CASE ~(j - h \in 1 .. f - b) /\ j <= h
  <2>1. h = 1 /\ j = 1
    BY <1>1, <1>3
  <2>2. D[1] < 0
    BY <2>1 DEF HeardText
  <2> QED BY <1>3, <2>1, <2>2
<1>4. CASE ~(j - h \in 1 .. f - b) /\ ~(j <= h)
  <2>1. t = 1 /\ j = Len(D)
    BY <1>1, <1>4
  <2>2. D[Len(D)] < 0
    BY <2>1 DEF HeardText
  <2> QED BY <1>4, <2>1, <2>2
<1> QED BY <1>2, <1>3, <1>4

\* Two offsets from one spot, and how far the spot is.
Meet(n, z, v, e, ia, jc, l) == (n = z /\ v <= e) <=> (ia = jc /\ ia \in 1 .. l)

LEMMA SameSpot ==
    ASSUME NEW n \in Int, NEW z \in Int, NEW v \in Int, NEW w \in Int, NEW e \in Int,
           NEW ia \in Int, NEW jc \in Int, NEW l \in Int,
           ia - jc = n - z, jc = v - w, n = z => v > w, l = e - w
    PROVE  Meet(n, z, v, e, ia, jc, l)
<1>1. ia = jc <=> n = z
  OBVIOUS
<1>2. ASSUME n = z PROVE v <= e <=> jc \in 1 .. l
  BY <1>2
<1> QED BY <1>1, <1>2 DEF Meet

\* What the end of the merge shares with the start of the next text is one run: the
\* words of the next text that the merge has, down to the token where the search starts.
LEMMA PartsShareRun ==
    ASSUME NEW B \in Seq(Int), NEW D \in Seq(Int), NEW q, NEW u, NEW e, NEW t,
           NEW h, NEW b, NEW f, NEW t2,
           Stitched(B, q, u, e, t), HeardText(D, h, b, f, t2), Apart(B, D),
           u <= b, e <= f,
           NEW base \in Nat, NEW head \in 0 .. Len(D), NEW x \in Seq(Int), NEW y \in Seq(Int),
           base <= Len(B), Len(x) = Len(B) - base, \A i \in 1 .. Len(x) : x[i] = B[base + i],
           Len(y) = head, \A j \in 1 .. head : y[j] = D[j],
           h + (e - b) <= head,
           NEW w \in Nat, IF base <= q + (b - u) THEN w = b ELSE w = u + (base - q),
           w + 2 <= e
    PROVE  OneRun(x, y, (q + (w - u)) - base, h + (w - b), e - w)
<1> DEFINE a == (q + (w - u)) - base
           c == h + (w - b)
           l == e - w
           M == Len(x)
<1>1. /\ q \in Nat /\ u \in Nat /\ e \in Nat /\ t \in {0, 1} /\ u <= e
      /\ Len(B) = q + (e - u) + t
  BY DEF Stitched
<1>2. /\ h \in {0, 1} /\ b \in Nat /\ f \in Nat /\ t2 \in {0, 1} /\ b <= f
      /\ Len(D) = h + (f - b) + t2
  BY DEF HeardText
<1>3. M \in Nat /\ M = (q + (e - u) + t) - base /\ head \in Nat
  BY <1>1, <1>2
<1>4. w >= b /\ a \in Nat /\ c \in Nat /\ l \in Nat /\ l > 1 /\ a + l <= M /\ c + l <= head
  <2>1. w >= b /\ (q + (w - u)) - base >= 0
    <3>1. CASE base <= q + (b - u)
      <4>1. w = b
        BY <3>1
      <4> QED BY <1>1, <1>2, <3>1, <4>1
    <3>2. CASE ~(base <= q + (b - u))
      <4>1. w = u + (base - q)
        BY <3>2
      <4> QED BY <1>1, <1>2, <3>2, <4>1
    <3> QED BY <3>1, <3>2
  <2>2. M >= (q + (e - u)) - base
    BY <1>1, <1>3
  <2> HIDE DEF M
  <2>3. a \in Nat /\ c \in Nat /\ l \in Nat /\ l > 1 /\ a + l = (q + (e - u)) - base
        /\ c + l = h + (e - b)
    BY <1>1, <1>2, <2>1
  <2> HIDE DEF a, c, l
  <2> QED BY <1>1, <1>2, <1>3, <2>1, <2>2, <2>3
<1>5. ASSUME NEW i \in 1 .. M, NEW j \in 1 .. head
      PROVE  x[i] = y[j] <=> i - a = j - c /\ i - a \in 1 .. l
  <2> DEFINE n == base + i
             v == b + (j - h)
  <2>1. n \in 1 .. Len(B) /\ j \in 1 .. Len(D) /\ x[i] = B[n] /\ y[j] = D[j]
    <3>1. n \in 1 .. Len(B) /\ j \in 1 .. Len(D) /\ i \in 1 .. Len(x)
      BY <1>1, <1>2, <1>3
    <3>2. x[i] = B[n]
      BY <3>1
    <3> QED BY <3>1, <3>2
  <2>2. IF j - h \in 1 .. f - b THEN D[j] = Said(v) ELSE D[j] < 0
    BY <2>1, TokenHeard
  <2>3. CASE ~(j - h \in 1 .. f - b)
    <3>1. D[j] < 0
      BY <2>2, <2>3
    <3>2. B[n] # D[j]
      <4> HIDE DEF n
      <4> QED BY <2>1, <3>1 DEF Apart
    <3>3. ~(i - a = j - c /\ i - a \in 1 .. l)
      BY <1>1, <1>2, <1>4, <2>3
    <3> HIDE DEF n, a, c, l
    <3> QED BY <2>1, <3>2, <3>3
  <2>4. CASE j - h \in 1 .. f - b
    <3>1. D[j] = Said(v)
      BY <2>2, <2>4
    <3>2. v \in Nat /\ v > u
      BY <1>1, <1>2, <2>4
    <3>3. (n = q + (v - u) /\ v <= e) <=> (i - a = j - c /\ i - a \in 1 .. l)
      <4>1. i \in Int /\ j \in Int /\ (i - a) - (j - c) = n - (q + (v - u)) /\ j - c = v - w
        BY <1>1, <1>2, <1>3
      <4>2. n = q + (v - u) => v > w
        BY <1>1, <1>2, <1>3, <2>4, SMTT(20)
      <4>3. n \in Int /\ v \in Int /\ i - a \in Int /\ j - c \in Int /\ q + (v - u) \in Int
            /\ l = e - w /\ w \in Nat /\ e \in Nat /\ l \in Int
        BY <1>1, <1>2, <1>3, <1>4
      <4> DEFINE ia == i - a
                 jc == j - c
                 z == q + (v - u)
      <4> HIDE DEF n, v, a, c, l
      <4> HIDE DEF ia, jc, z
      <4>4. ia - jc = n - z /\ jc = v - w /\ ia \in Int /\ jc \in Int /\ z \in Int
            /\ (n = z => v > w)
        BY <4>1, <4>2, <4>3 DEF ia, jc, z
      <4>5. (n = z /\ v <= e) <=> (ia = jc /\ ia \in 1 .. l)
        <5>1. /\ n \in Int /\ v \in Int /\ w \in Int /\ e \in Int /\ l \in Int
              /\ l = e - w
          BY <4>3
        <5>2. Meet(n, z, v, e, ia, jc, l)
          BY <4>4, <5>1, SameSpot, Zenon
        <5> QED BY <5>2, Zenon DEF Meet
      <4> QED BY <4>5, Zenon DEF ia, jc, z
    <3> HIDE DEF n, v, a, c, l
    <3>4. B[n] = Said(v) <=> n = q + (v - u) /\ v <= e
      <4>1. v \in Nat /\ v > u /\ n \in 1 .. Len(B)
        BY <2>1, <3>2
      <4>2. B \in Seq(Int) /\ Stitched(B, q, u, e, t)
        OBVIOUS
      <4>3. WordIsAt(B, q, u, e, v, n)
        BY <4>1, <4>2, WordInMerge
      <4> QED BY <4>3 DEF WordIsAt
    <3>5. x[i] = y[j] <=> B[n] = Said(v)
      BY <2>1, <3>1
    <3> DEFINE spoken == n = q + (v - u) /\ v <= e
               shared == i - a = j - c /\ i - a \in 1 .. l
    <3>6. (spoken <=> shared) /\ (B[n] = Said(v) <=> spoken)
      BY <3>3, <3>4, Zenon
    <3> HIDE DEF spoken, shared
    <3>7. x[i] = y[j] <=> shared
      BY <3>5, <3>6, Zenon
    <3> QED BY <3>7 DEF shared
  <2> QED BY <2>3, <2>4
<1> HIDE DEF a, c, l, M
<1>6. OneRun(x, y, a, c, l)
  BY <1>4, <1>5 DEF OneRun, M
<1> QED BY <1>6 DEF a, c, l

\* The n tokens of a text after its first k.
IsPart(x, text, k, n) == Len(x) = n /\ \A i \in 1 .. n : x[i] = text[k + i]

LEMMA TextsShareRun ==
    ASSUME NEW B \in Seq(Int), NEW D \in Seq(Int), NEW q, NEW u, NEW e, NEW t,
           NEW h, NEW b, NEW f, NEW t2,
           Stitched(B, q, u, e, t), HeardText(D, h, b, f, t2), Apart(B, D),
           u <= b, e <= f,
           NEW base \in Nat, NEW head \in 0 .. Len(D), NEW x \in Seq(Int), NEW y \in Seq(Int),
           base <= Len(B), IsPart(x, B, base, Len(B) - base), IsPart(y, D, 0, head),
           h + (e - b) <= head,
           NEW w \in Nat, IF base <= q + (b - u) THEN w = b ELSE w = u + (base - q),
           w + 2 <= e
    PROVE  OneRun(x, y, (q + (w - u)) - base, h + (w - b), e - w)
<1>1. Len(x) = Len(B) - base /\ \A i \in 1 .. Len(x) : x[i] = B[base + i]
  BY DEF IsPart
<1>2. Len(y) = head /\ \A j \in 1 .. head : y[j] = D[j]
  BY DEF IsPart
<1> QED BY <1>1, <1>2, PartsShareRun
-----------------------------------------------------------------------------
\* The last tokens of a text.
LEMMA LastTokens ==
    ASSUME NEW s \in Seq(Int), NEW n \in Nat
    PROVE  /\ LastOf(s, n) \in Seq(Int)
           /\ Len(LastOf(s, n)) = AtMost(Len(s), n)
           /\ \A i \in 1 .. AtMost(Len(s), n) :
                LastOf(s, n)[i] = s[(Len(s) - AtMost(Len(s), n)) + i]
<1> DEFINE l == Len(s)
           m == AtMost(l, n)
           from == l - m
           x == SubSeq(s, from + 1, l)
<1>1. l \in Nat /\ m \in Nat /\ m <= l
  BY LenProperties, AtMostIs
<1> HIDE DEF m
<1>2. from \in 0 .. Len(s) /\ l - from = m
  BY <1>1
<1>3. LastOf(s, n) = x
  BY DEF LastOf, m
<1> HIDE DEF from
<1>4. x \in Seq(Int) /\ Len(x) = l - from /\ \A j \in 1 .. l - from : x[j] = s[from + j]
  BY <1>2, TokensAfter
<1> HIDE DEF x, l
<1>5. LastOf(s, n) \in Seq(Int) /\ Len(LastOf(s, n)) = m
      /\ \A i \in 1 .. m : LastOf(s, n)[i] = s[from + i]
  BY <1>2, <1>3, <1>4
<1> QED BY <1>5 DEF from, m, l

\* A merge of two texts that are aligned on one run keeps the one up to the end of the
\* run and goes on with the other.
LEMMA MergeSplices ==
    ASSUME NEW B \in Seq(Int), NEW y \in Seq(Int), NEW search \in Nat, search > 0, B # << >>,
           NEW base, base = Len(B) - AtMost(Len(B), search),
           NEW kept \in Nat, NEW from \in Nat,
           Aligned(LongestCommonRun(LastOf(B, search), y), kept, from),
           base + kept <= Len(B), from <= Len(y)
    PROVE  Spliced(Merge(B, y, search), B, base + kept, y, from)
<1> DEFINE tail == LastOf(B, search)
           r == LongestCommonRun(tail, y)
           k == base + kept
<1>1. Len(B) \in Nat /\ Len(tail) = AtMost(Len(B), search) /\ Len(y) \in Nat
      /\ AtMost(Len(B), search) \in Nat /\ AtMost(Len(B), search) <= Len(B)
  BY LenProperties, LastTokens, AtMostIs
<1>2. Len(B) - Len(tail) = base /\ base \in Nat
  BY <1>1
<1>3. Aligned(r, kept, from)
  OBVIOUS
<1> HIDE DEF tail, r
<1>4. r.i + r.length = kept /\ r.j + r.length = from /\ ~(r.length < 1)
      /\ r.i \in Nat /\ r.length \in Nat
  BY <1>3 DEF Aligned
<1>5. Merge(B, y, search) = Join(B, y, base, r)
  <2>1. ~(search = 0 \/ B = << >> \/ r.length < 1)
    BY <1>4
  <2>2. Merge(B, y, search) = Join(B, y, Len(B) - Len(tail), r)
    BY <2>1 DEF Merge, tail, r
  <2> QED BY <1>2, <2>2
<1>6. AtMost(Len(B), k) = k /\ AtMost(Len(y), from) = from
  <2>1. k \in Nat /\ k <= Len(B)
    BY <1>2
  <2> DEFINE m == Len(B)
             n == Len(y)
  <2>2. m \in Nat /\ n \in Nat /\ from \in Nat /\ from <= n
    BY <1>1
  <2> HIDE DEF k, m, n
  <2>3. AtMost(m, k) = k
    BY <2>1, <2>2 DEF AtMost, m
  <2>4. AtMost(n, from) = from
    BY <2>2 DEF AtMost
  <2> QED BY <2>3, <2>4 DEF m, n
<1>7. base + r.i + r.length = k
  BY <1>2, <1>4
<1>8. Merge(B, y, search) = SubSeq(B, 1, k) \o SubSeq(y, from + 1, Len(y))
  <2> HIDE DEF k
  <2> QED BY <1>4, <1>5, <1>6, <1>7 DEF Join
<1>9. k \in 0 .. Len(B) /\ from \in 0 .. Len(y)
  BY <1>1, <1>2
<1> HIDE DEF k
<1>10. Spliced(Merge(B, y, search), B, k, y, from)
  BY <1>8, <1>9, SpliceIs
<1> QED BY <1>10 DEF k

\* The merge so far and the next text are joined after the last word they share; a
\* misheard token after that word may stay.
LEMMA StitchIs ==
    ASSUME NEW B \in Seq(Int), NEW D \in Seq(Int), NEW p, LongType(p),
           NEW q, NEW u, NEW e, NEW t, NEW h, NEW b, NEW f, NEW t2,
           Stitched(B, q, u, e, t), HeardText(D, h, b, f, t2), Apart(B, D),
           u <= b, b + 2 <= e, e <= f, p.merge_search >= 3, h + (e - b) <= p.merge_head
    PROVE  \E o \in 0 .. t :
             Spliced(Stitch(B, D, p), B, (q + (e - u)) + o, D, h + (e - b))
<1> DEFINE search == p.merge_search
           head == AtMost(Len(D), p.merge_head)
           m == AtMost(Len(B), search)
           base == Len(B) - m
           x == LastOf(B, search)
           y == SubSeq(D, 1, head)
           w == IF base <= q + (b - u) THEN b ELSE u + (base - q)
           a == (q + (w - u)) - base
           c == h + (w - b)
           l == e - w
           from == h + (e - b)
<1>1. /\ q \in Nat /\ u \in Nat /\ e \in Nat /\ t \in {0, 1} /\ u <= e
      /\ Len(B) = q + (e - u) + t
  BY DEF Stitched
<1>2. /\ h \in {0, 1} /\ b \in Nat /\ f \in Nat /\ t2 \in {0, 1} /\ b <= f
      /\ Len(D) = h + (f - b) + t2
  BY DEF HeardText
<1>3. search \in Nat /\ p.merge_head \in Nat /\ search >= 3
  BY DEF LongType
<1>4. head \in 0 .. Len(D) /\ from <= head /\ from \in Nat
  <2>1. Len(D) \in Nat /\ from <= Len(D) /\ from <= p.merge_head /\ from \in Nat
    BY <1>1, <1>2
  <2> HIDE DEF from
  <2> QED BY <1>3, <2>1 DEF AtMost
<1>5. m \in Nat /\ m <= Len(B) /\ (m = Len(B) \/ m >= 3) /\ base \in Nat /\ base <= Len(B)
  <2>1. Len(B) \in Nat
    BY <1>1, <1>2
  <2> HIDE DEF search
  <2>2. m \in Nat /\ m <= Len(B) /\ (m = Len(B) \/ m = search)
    BY <1>3, <2>1, AtMostIs
  <2> HIDE DEF m
  <2> QED BY <1>3, <2>1, <2>2
<1>6. x \in Seq(Int) /\ Len(x) = m /\ \A i \in 1 .. m : x[i] = B[base + i]
  BY <1>3, LastTokens
<1>7. y \in Seq(Int) /\ Len(y) = head /\ \A j \in 1 .. head : y[j] = D[j]
  BY <1>4, FirstTokens
<1> HIDE DEF head, m, x, y, search
<1>8. w \in Nat /\ w + 2 <= e /\ w >= b
  BY <1>1, <1>2, <1>5
<1>9. IF base <= q + (b - u) THEN w = b ELSE w = u + (base - q)
  OBVIOUS
<1>10. Len(x) = Len(B) - base
  BY <1>1, <1>2, <1>5, <1>6
<1> HIDE DEF w, base
<1>11. OneRun(x, y, a, c, l)
  <2>1. IsPart(x, B, base, Len(B) - base) /\ IsPart(y, D, 0, head)
    BY <1>4, <1>6, <1>7, <1>10 DEF IsPart
  <2>2. h + (e - b) <= head
    BY <1>4
  <2> QED BY <1>4, <1>5, <1>6, <1>7, <1>8, <1>9, <2>1, <2>2, TextsShareRun
<1>12. a = 0 \/ c \in {0, 1}
  <2>1. CASE w = b
    BY <1>2, <2>1
  <2>2. CASE w = u + (base - q)
    BY <1>1, <1>5, <2>2
  <2> QED BY <1>9, <2>1, <2>2
<1> DEFINE o == IF a + l = Len(x) THEN 0 ELSE Overrun(a, c)
           kept == (a + l) + o
<1>13. /\ o \in 0 .. t /\ kept \in Nat /\ base + kept = (q + (e - u)) + o
       /\ base + kept <= Len(B) /\ c + l = from /\ a + l + o = kept
  <2>1. a \in Nat /\ l \in Nat /\ c \in Nat
    BY <1>11 DEF OneRun
  <2>2. a + l = (q + (e - u)) - base /\ Len(x) = (q + (e - u)) + t - base /\ c + l = from
        /\ Len(B) = (q + (e - u)) + t
    BY <1>1, <1>2, <1>5, <1>8, <1>10
  <2>3. Overrun(a, c) \in {0, 1}
    BY DEF Overrun
  <2>4. o \in 0 .. t
    <3> DEFINE z == (q + (e - u)) - base
    <3>1. z \in Int /\ a + l = z /\ Len(x) = z + t
      BY <1>1, <1>5, <2>2
    <3> HIDE DEF z, a, c, l
    <3> QED BY <1>1, <2>3, <3>1
  <2> HIDE DEF o, a, l, c
  <2> QED BY <1>1, <1>5, <2>1, <2>2, <2>4
<1> HIDE DEF a, c, l, from
<1>14. Aligned(LongestCommonRun(x, y), kept, from)
  <2>1. Aligned(LongestCommonRun(x, y), a + l + o, c + l)
    BY <1>6, <1>7, <1>11, <1>12, OneRunAligned
  <2> HIDE DEF o, kept
  <2> QED BY <1>13, <2>1
<1> HIDE DEF o, kept
<1>15. Spliced(Merge(B, y, search), B, base + kept, y, from)
  <2>1. search > 0 /\ B # << >>
    BY <1>1, <1>2, <1>3, SMTT(20)
  <2>2. base = Len(B) - AtMost(Len(B), search)
    BY DEF base, m
  <2> QED BY <1>3, <1>4, <1>7, <1>13, <1>14, <2>1, <2>2, MergeSplices DEF x
<1>16. Stitch(B, D, p) = Merge(B, y, search) \o SubSeq(D, head + 1, Len(D))
  BY DEF Stitch, y, head, search
<1> DEFINE k == base + kept
           r == Merge(B, y, search)
<1>17. Spliced(Stitch(B, D, p), B, k, D, from)
  <2>1. k \in Nat /\ from \in 0 .. head
    BY <1>4, <1>5, <1>13
  <2>2. Spliced(r, B, k, SubSeq(D, 1, head), from)
    BY <1>15 DEF y
  <2> HIDE DEF k, r
  <2>3. Spliced(r \o SubSeq(D, head + 1, Len(D)), B, k, D, from)
    BY <1>4, <2>1, <2>2, SpliceRest
  <2> QED BY <1>16, <2>3 DEF r
<1>18. Spliced(Stitch(B, D, p), B, (q + (e - u)) + o, D, h + (e - b))
  BY <1>13, <1>17 DEF from
<1> QED BY <1>13, <1>18
-----------------------------------------------------------------------------
\* The merge goes on as it was.
LEMMA StitchedOn ==
    ASSUME NEW B \in Seq(Int), NEW D \in Seq(Int), NEW r,
           NEW q, NEW u, NEW e, NEW t, NEW h, NEW b, NEW f, NEW t2,
           Stitched(B, q, u, e, t), HeardText(D, h, b, f, t2),
           u <= b, b <= e, e <= f, NEW o \in 0 .. t,
           Spliced(r, B, (q + (e - u)) + o, D, h + (e - b))
    PROVE  Stitched(r, (q + (e - u)) + o, e, f, t2)
<1> DEFINE m == e - u
           d == e - b
           from == h + d
           k0 == q + m
           k == k0 + o
<1>1. /\ q \in Nat /\ u \in Nat /\ e \in Nat /\ t \in {0, 1} /\ u <= e
      /\ Len(B) = q + (e - u) + t
  BY DEF Stitched
<1>2. /\ h \in {0, 1} /\ b \in Nat /\ f \in Nat /\ t2 \in {0, 1} /\ b <= f
      /\ Len(D) = h + (f - b) + t2
  BY DEF HeardText
<1>3. /\ m \in Nat /\ d \in Nat /\ from \in Nat /\ k0 \in Nat /\ k \in Nat /\ o \in {0, 1}
      /\ Len(B) = k0 + t /\ Len(D) - from = (f - e) + t2 /\ u + m = e /\ b + d = e
  <2>1. m \in Nat /\ d \in Nat /\ u + m = e /\ b + d = e
    BY <1>1, <1>2
  <2>2. from \in Nat /\ Len(D) - from = (f - e) + t2
    <3>1. Len(D) = (h + (f - b)) + t2
      BY <1>2
    <3> HIDE DEF d
    <3> QED BY <1>1, <1>2, <2>1, <3>1
  <2> HIDE DEF m
  <2>3. k0 \in Nat /\ k \in Nat /\ o \in {0, 1} /\ o \in Nat
    BY <1>1, <2>1
  <2>4. Len(B) = k0 + t
    BY <1>1 DEF m
  <2> QED BY <2>1, <2>2, <2>3, <2>4
<1>4. /\ Len(r) = k + (Len(D) - from)
      /\ \A n \in 1 .. k : r[n] = B[n]
      /\ \A j \in 1 .. Len(D) - from : r[k + j] = D[from + j]
  BY DEF Spliced
<1>5. Len(r) = k + (f - e) + t2
  <2> HIDE DEF k, from
  <2> QED BY <1>1, <1>2, <1>3, <1>4
<1>6. Tells(r, k, e)
  <2>1. Tells(B, q, u) /\ \A j \in 1 .. m : B[q + j] = Said(u + j)
    BY DEF Stitched
  <2>2. Tells(B, k0, e)
    <3>1. Tells(B, q + m, u + m)
      <4> HIDE DEF m
      <4> QED BY <1>1, <1>3, <2>1, TellsOn
    <3> QED BY <1>3, <3>1
  <2>3. Tells(B, k, e)
    <3>1. CASE o = 0
      BY <1>3, <2>2, <3>1
    <3>2. CASE o = 1
      <4>1. t = 1 /\ Len(B) = k0 + 1
        BY <1>1, <1>3, <3>2
      <4>2. B[k0 + 1] < 0
        BY <4>1 DEF Stitched
      <4> HIDE DEF k0
      <4>3. Tells(B, k0 + 1, e)
        BY <1>1, <1>3, <2>2, <4>2, TellsPast
      <4> QED BY <3>2, <4>3
    <3> QED BY <1>3, <3>1, <3>2
  <2> HIDE DEF k
  <2> QED BY <1>3, <1>4, <2>3, TellsSame
<1>7. ASSUME NEW n \in 1 .. k PROVE r[n] < 0 \/ \E w \in 1 .. e : r[n] = Said(w)
  <2>1. r[n] = B[n]
    BY <1>4
  <2>2. CASE n <= q
    <3>1. n \in 1 .. q
      BY <1>3, <2>2
    <3>2. B[n] < 0 \/ \E w \in 1 .. u : B[n] = Said(w)
      BY <3>1 DEF Stitched
    <3>3. \A w \in 1 .. u : w \in 1 .. e
      BY <1>1
    <3> QED BY <2>1, <3>2, <3>3
  <2>3. CASE n > q /\ n <= k0
    <3> DEFINE j == n - q
    <3>1. j \in 1 .. e - u /\ q + j = n /\ u + j \in 1 .. e
      BY <1>1, <1>3, <2>3
    <3> HIDE DEF j
    <3>2. B[q + j] = Said(u + j)
      BY <3>1 DEF Stitched
    <3> QED BY <2>1, <3>1, <3>2
  <2>4. CASE n > k0
    <3>1. t = 1 /\ n = Len(B)
      BY <1>1, <1>3, <2>4
    <3>2. B[n] < 0
      BY <3>1 DEF Stitched
    <3> QED BY <2>1, <3>2
  <2> QED BY <1>1, <1>3, <2>2, <2>3, <2>4
<1>8. ASSUME NEW j \in 1 .. f - e PROVE r[k + j] = Said(e + j)
  <2> DEFINE i == d + j
  <2>1. j \in 1 .. Len(D) - from /\ i \in 1 .. f - b /\ h + i = from + j /\ b + i = e + j
    BY <1>1, <1>2, <1>3
  <2> HIDE DEF i, from, k
  <2>2. r[k + j] = D[from + j]
    BY <1>4, <2>1
  <2>3. D[h + i] = Said(b + i)
    BY <2>1 DEF HeardText
  <2> QED BY <2>1, <2>2, <2>3
<1>9. ASSUME t2 = 1 PROVE r[Len(r)] < 0
  <2> DEFINE j == Len(D) - from
  <2>1. j \in 1 .. Len(D) - from /\ k + j = Len(r) /\ from + j = Len(D)
    BY <1>1, <1>2, <1>3, <1>4, <1>9
  <2> HIDE DEF j, from, k
  <2>2. r[k + j] = D[from + j]
    BY <1>4, <2>1
  <2>3. D[Len(D)] < 0
    BY <1>9 DEF HeardText
  <2> QED BY <2>1, <2>2, <2>3
<1> HIDE DEF k
<1>10. Stitched(r, k, e, f, t2)
  BY <1>1, <1>2, <1>3, <1>5, <1>6, <1>7, <1>8, <1>9 DEF Stitched
<1> QED BY <1>10 DEF k

-----------------------------------------------------------------------------
(* What the windows hear *)

\* Every token that is no word was misheard by one of these windows.
MisheardIn(ids, from, to) ==
    \A n \in 1 .. Len(ids) :
        ids[n] < 0 => \E k \in from .. to, w \in 0 .. samples : ids[n] = Misheard(w, k)

LEMMA MisheardIs ==
    ASSUME samples \in Nat, NEW k \in Nat, NEW w \in 0 .. samples
    PROVE  Misheard(w, k) \in Int /\ Misheard(w, k) <= -10
<1>1. k * (samples + 1) \in Nat
  OBVIOUS
<1> QED BY <1>1 DEF Misheard

LEMMA MisheardApart ==
    ASSUME samples \in Nat, NEW j \in Nat, NEW k \in Nat, j < k,
           NEW v \in 0 .. samples, NEW w \in 0 .. samples
    PROVE  Misheard(v, j) # Misheard(w, k)
<1> DEFINE s == samples + 1
<1>1. s \in Nat /\ v < s /\ j + 1 <= k
  OBVIOUS
<1> HIDE DEF s
<1>2. s * (j + 1) <= s * k
  <2>1. j + 1 \in Int /\ k \in Int
    OBVIOUS
  <2> QED BY <1>1, <2>1, MulMono
<1>3. s * (j + 1) = s * j + s
  BY <1>1, MulMono
<1> DEFINE x == j * s
           y == k * s
           z == s * (j + 1)
<1>4. x \in Nat /\ y \in Nat /\ x = s * j /\ y = s * k
  BY <1>1
<1>5. z <= y /\ z = x + s
  BY <1>2, <1>3, <1>4
<1>6. Misheard(v, j) = -10 - (x + v) /\ Misheard(w, k) = -10 - (y + w)
  BY DEF Misheard, s
<1> HIDE DEF x, y, z
<1>7. x + v < y + w
  BY <1>1, <1>4, <1>5
<1> QED BY <1>4, <1>6, <1>7

LEMMA MisheardAreApart ==
    ASSUME samples \in Nat, NEW B \in Seq(Int), NEW D \in Seq(Int), NEW k \in Nat \ {0},
           MisheardIn(B, 1, k - 1), MisheardIn(D, k, k)
    PROVE  Apart(B, D)
<1> SUFFICES ASSUME NEW n \in 1 .. Len(B), NEW m \in 1 .. Len(D), B[n] < 0, B[n] = D[m]
             PROVE  FALSE
  BY DEF Apart
<1>1. PICK j \in 1 .. k - 1, v \in 0 .. samples : B[n] = Misheard(v, j)
  BY DEF MisheardIn
<1>2. PICK i \in k .. k, w \in 0 .. samples : D[m] = Misheard(w, i)
  BY DEF MisheardIn
<1>3. i = k /\ j \in Nat /\ j < k
  OBVIOUS
<1>4. Misheard(v, j) # Misheard(w, k)
  BY <1>3, MisheardApart
<1> QED BY <1>1, <1>2, <1>3, <1>4

\* Merging keeps what was misheard.
LEMMA MisheardOn ==
    ASSUME NEW B \in Seq(Int), NEW D \in Seq(Int), NEW r, NEW k \in Nat \ {0},
           MisheardIn(B, 1, k - 1), MisheardIn(D, k, k),
           NEW kept \in 0 .. Len(B), NEW from \in 0 .. Len(D), Spliced(r, B, kept, D, from)
    PROVE  MisheardIn(r, 1, k)
<1> SUFFICES ASSUME NEW n \in 1 .. Len(r), r[n] < 0
             PROVE  \E j \in 1 .. k, w \in 0 .. samples : r[n] = Misheard(w, j)
  BY DEF MisheardIn
<1>1. Len(B) \in Nat /\ Len(D) \in Nat /\ Len(r) = kept + (Len(D) - from)
  BY LenProperties DEF Spliced
<1>2. CASE n <= kept
  <2>1. n \in 1 .. kept /\ n \in 1 .. Len(B)
    BY <1>1, <1>2
  <2>2. r[n] = B[n]
    BY <2>1 DEF Spliced
  <2>3. PICK j \in 1 .. k - 1, w \in 0 .. samples : B[n] = Misheard(w, j)
    BY <2>1, <2>2 DEF MisheardIn
  <2>4. j \in 1 .. k
    OBVIOUS
  <2> QED BY <2>2, <2>3, <2>4
<1>3. CASE n > kept
  <2> DEFINE i == n - kept
             m == from + i
  <2>1. i \in 1 .. Len(D) - from /\ kept + i = n /\ m \in 1 .. Len(D)
    BY <1>1, <1>3
  <2> HIDE DEF i
  <2>2. r[kept + i] = D[from + i]
    BY <2>1 DEF Spliced
  <2>3. r[n] = D[m]
    BY <2>1, <2>2
  <2> HIDE DEF m
  <2>4. PICK j \in k .. k, w \in 0 .. samples : D[m] = Misheard(w, j)
    BY <2>1, <2>3 DEF MisheardIn
  <2>5. j \in 1 .. k
    OBVIOUS
  <2> QED BY <2>3, <2>4, <2>5
<1> QED BY <1>1, <1>2, <1>3
-----------------------------------------------------------------------------
LEMMA SpokenSteps ==
    ASSUME NEW x \in Nat, NEW o \in Nat
    PROVE  /\ Spoken(x) \in Nat /\ Spoken(x + o) \in Nat
           /\ Spoken(x) + (o \div WordEvery) <= Spoken(x + o)
           /\ Spoken(x + o) <= Spoken(x) + CeilDiv(o, WordEvery)
<1> DEFINE s == WordEvery
           c == CeilDiv(x, s)
           z == CeilDiv(x + o, s)
           d == o \div s
           g == CeilDiv(o, s)
<1>1. s \in Nat \ {0}
  BY TimeAssumption
<1>2. x + o \in Nat
  OBVIOUS
<1> HIDE DEF s
<1>3. /\ c \in Nat /\ x <= s * c /\ s * c < x + s
      /\ z \in Nat /\ x + o <= s * z /\ s * z < (x + o) + s
      /\ g \in Nat /\ o <= s * g
  BY <1>1, <1>2, CeilDivBounds
<1>4. d \in Nat /\ s * d <= o
  <2>1. o = s * d + (o % s) /\ (o % s) \in 0 .. s - 1 /\ d \in Nat
    BY <1>1, DivMod
  <2> HIDE DEF d
  <2>2. s * d \in Nat
    BY <1>1, <2>1
  <2> QED BY <1>1, <2>1, <2>2
<1> HIDE DEF c, z, d, g
<1>5. s * c \in Nat /\ s * z \in Nat /\ s * d \in Nat /\ s * g \in Nat
      /\ s * (c + d) = s * c + s * d /\ s * (c + g) = s * c + s * g
  BY <1>1, <1>3, <1>4
<1>6. c + d <= z
  <2> SUFFICES ASSUME z + 1 <= c + d PROVE FALSE
    BY <1>3, <1>4
  <2> DEFINE y == c + d
  <2>1. s * (z + 1) <= s * y /\ s * (z + 1) = s * z + s
    <3>1. y \in Int /\ z + 1 \in Int /\ z + 1 <= y
      BY <1>3, <1>4
    <3> HIDE DEF y
    <3> QED BY <1>1, <1>3, <3>1, MulMono
  <2> QED BY <1>1, <1>3, <1>4, <1>5, <2>1
<1>7. z <= c + g
  <2> SUFFICES ASSUME (c + g) + 1 <= z PROVE FALSE
    BY <1>3
  <2> DEFINE y == c + g
  <2>1. s * (y + 1) <= s * z /\ s * (y + 1) = s * y + s
    <3>1. y \in Int /\ y + 1 \in Int /\ z \in Int /\ y + 1 <= z
      BY <1>3
    <3> HIDE DEF y
    <3> QED BY <1>1, <3>1, MulMono
  <2> QED BY <1>1, <1>3, <1>5, <2>1
<1>8. Spoken(x) = c /\ Spoken(x + o) = z
  BY DEF Spoken, c, z, s
<1> QED BY <1>3, <1>6, <1>7, <1>8 DEF d, g, s

LEMMA SpokenGrows ==
    ASSUME NEW x \in Nat, NEW y \in Nat, x <= y
    PROVE  Spoken(x) \in Nat /\ Spoken(y) \in Nat /\ Spoken(x) <= Spoken(y)
<1>1. WordEvery \in Nat \ {0}
  BY TimeAssumption
<1> QED BY <1>1, CeilDivMonotone, CeilDivBounds DEF Spoken

\* A word of the speech is spoken in it.
LEMMA SaidInside ==
    ASSUME samples \in Nat, NEW w \in 1 .. Spoken(samples)
    PROVE  Said(w) \in 0 .. samples
<1> DEFINE s == WordEvery
           n == Spoken(samples)
<1>1. s \in Nat \ {0}
  BY TimeAssumption
<1>2. n \in Nat /\ s * n < samples + s
  BY <1>1, CeilDivBounds DEF Spoken
<1> HIDE DEF n, s
<1> DEFINE v == w - 1
<1>3. v \in Nat /\ v + 1 <= n
  BY <1>2 DEF n
<1> HIDE DEF v
<1>4. s * (v + 1) <= s * n /\ s * (v + 1) = s * v + s /\ s * v \in Nat /\ s * n \in Nat
  <2>1. v + 1 \in Int /\ n \in Int
    BY <1>2, <1>3
  <2> QED BY <1>1, <1>2, <1>3, <2>1, MulMono
<1>5. s * v \in 0 .. samples
  BY <1>1, <1>2, <1>4
<1>6. Said(w) = s * v
  BY <1>1, <1>3 DEF Said, v, s
<1> QED BY <1>5, <1>6

\* A text without control tokens is its own text.
LEMMA DetokenizePlain ==
    ASSUME NEW ids \in Seq(Int), NEW l \in 0 .. Len(ids),
           \A n \in 1 .. Len(ids) : IsControl(ids[n]) <=> n > l
    PROVE  Detokenize(ids) = SubSeq(ids, 1, l)
<1> DEFINE N == Len(ids)
<1>1. N \in Nat /\ l \in Nat /\ l <= N
  BY LenProperties
<1>2. PICK kept \in [0 .. N -> Seq(Int)] :
        /\ kept[0] = << >>
        /\ \A n \in 1 .. N :
             kept[n] = IF IsControl(ids[n]) THEN kept[n - 1]
                       ELSE Append(kept[n - 1], ids[n])
        /\ Detokenize(ids) = kept[N]
  BY DetokenizeWalk
<1> DEFINE M(n) == IF n <= l THEN n ELSE l
           Good(n) == Len(kept[n]) = M(n) /\ \A i \in 1 .. M(n) : kept[n][i] = ids[i]
           T == {n \in 0 .. N : Good(n)}
<1>3. 0 \in T
  BY <1>1, <1>2
<1>4. ASSUME NEW n \in 1 .. N, n - 1 \in T PROVE n \in T
  <2>1. n - 1 \in 0 .. N /\ n \in 0 .. N
    BY <1>1
  <2> DEFINE s == kept[n - 1]
             v == ids[n]
             k == M(n - 1)
  <2>2. s \in Seq(Int) /\ v \in Int /\ Len(s) = k /\ \A i \in 1 .. k : s[i] = ids[i]
    BY <1>2, <1>4, <2>1
  <2>3. CASE n > l
    <3>1. kept[n] = s
      BY <1>2, <2>3
    <3>2. M(n) = k
      BY <1>1, <2>3
    <3> HIDE DEF s, k, M
    <3> QED BY <2>1, <2>2, <3>1, <3>2
  <2>4. CASE ~(n > l)
    <3>1. kept[n] = Append(s, v)
      BY <1>2, <2>4
    <3>2. M(n) = n /\ k = n - 1
      BY <1>1, <2>4
    <3> HIDE DEF s, k, M
    <3>3. /\ Len(Append(s, v)) = n
          /\ \A i \in 1 .. n - 1 : Append(s, v)[i] = s[i]
          /\ Append(s, v)[n] = v
      BY <2>2, <3>2, AppendProperties
    <3>4. ASSUME NEW i \in 1 .. n PROVE Append(s, v)[i] = ids[i]
      <4>1. i \in 1 .. n - 1 \/ i = n
        OBVIOUS
      <4> QED BY <2>2, <3>2, <3>3, <4>1
    <3> QED BY <2>1, <3>1, <3>2, <3>3, <3>4
  <2> QED BY <2>3, <2>4
<1>5. N \in T
  <2> HIDE DEF T
  <2>1. \A n \in 0 .. N : n \in T
    BY <1>1, <1>3, <1>4, CountsUp
  <2> QED BY <1>1, <2>1
<1> DEFINE x == kept[N]
           y == SubSeq(ids, 1, l)
<1>6. x \in Seq(Int) /\ Len(x) = l /\ \A i \in 1 .. l : x[i] = ids[i]
  <2>1. M(N) = l
    BY <1>1
  <2> HIDE DEF M
  <2> QED BY <1>1, <1>2, <1>5, <2>1
<1>7. y \in Seq(Int) /\ Len(y) = l /\ \A i \in 1 .. l : y[i] = ids[i]
  BY FirstTokens
<1> HIDE DEF x, y
<1>8. x = y
  BY <1>6, <1>7, SeqEqual
<1> QED BY <1>2, <1>8 DEF x, y

\* The end-of-sequence token is all that is dropped from an answer.
LEMMA AnswerIsText ==
    ASSUME NEW t \in Seq(Int), \A n \in 1 .. Len(t) : ~IsControl(t[n])
    PROVE  Detokenize(Append(t, EOS)) = t /\ Detokenize(t) = t
<1> DEFINE l == Len(t)
           a == Append(t, EOS)
<1>1. EOS \in Int /\ IsControl(EOS) /\ l \in Nat
  BY LenProperties DEF EOS, IsControl
<1>2. /\ a \in Seq(Int) /\ Len(a) = l + 1
      /\ \A i \in 1 .. l : a[i] = t[i]
      /\ a[l + 1] = EOS
  BY <1>1, AppendProperties
<1> HIDE DEF a, l
<1>3. l \in 0 .. Len(a)
  BY <1>1, <1>2
<1>4. \A n \in 1 .. Len(a) : IsControl(a[n]) <=> n > l
  <2> TAKE n \in 1 .. Len(a)
  <2>1. n \in 1 .. l \/ n = l + 1
    BY <1>1, <1>2
  <2>2. CASE n \in 1 .. l
    <3>1. a[n] = t[n] /\ ~(n > l)
      BY <1>1, <1>2, <2>2
    <3> QED BY <2>2, <3>1 DEF l
  <2>3. CASE n = l + 1
    BY <1>1, <1>2, <2>3
  <2> QED BY <2>1, <2>2, <2>3
<1>5. Detokenize(a) = SubSeq(a, 1, l)
  BY <1>2, <1>3, <1>4, DetokenizePlain
<1> DEFINE y == SubSeq(a, 1, l)
<1>6. y \in Seq(Int) /\ Len(y) = l /\ \A i \in 1 .. l : y[i] = a[i]
  BY <1>2, <1>3, FirstTokens
<1> HIDE DEF y
<1>7. y = t
  BY <1>2, <1>6, SeqEqual DEF l
<1>8. Detokenize(t) = t
  <2>1. l \in 0 .. Len(t) /\ \A n \in 1 .. Len(t) : IsControl(t[n]) <=> n > l
    BY <1>1 DEF l
  <2>2. Detokenize(t) = SubSeq(t, 1, l)
    BY <2>1, DetokenizePlain
  <2>3. SubSeq(t, 1, Len(t)) = t
    BY SubSeqFull
  <2> QED BY <2>2, <2>3 DEF l
<1> QED BY <1>5, <1>7, <1>8 DEF a, y
-----------------------------------------------------------------------------
\* The words of a window.
LEMMA WordsAre ==
    ASSUME samples \in Nat, NEW s \in Nat, NEW e \in Nat, s <= e, e <= Spoken(samples)
    PROVE  /\ SubSeq(Speech, s + 1, e) \in Seq(Int) /\ Len(SubSeq(Speech, s + 1, e)) = e - s
           /\ \A i \in 1 .. e - s : /\ SubSeq(Speech, s + 1, e)[i] = Said(s + i)
                                    /\ Said(s + i) \in 0 .. samples
<1> DEFINE m == s + 1
           words == SubSeq(Speech, m, e)
<1>1. Speech \in Seq(Int) /\ Len(Speech) = Spoken(samples)
      /\ Spoken(samples) \in Nat /\ \A i \in 1 .. Spoken(samples) : Speech[i] = Said(i)
  BY SpeechTyped
<1>2. m \in Nat /\ m > 0 /\ e <= Len(Speech) /\ m = s + 1
  BY <1>1
<1> HIDE DEF m
<1>3. /\ words \in Seq(Int) /\ Len(words) = IF m <= e THEN e - m + 1 ELSE 0
      /\ \A i \in 1 .. e - m + 1 : words[i] = Speech[m + i - 1]
  BY <1>1, <1>2, TextSliceTyped
<1> HIDE DEF words
<1>4. Len(words) = e - s
  BY <1>2, <1>3
<1>5. ASSUME NEW i \in 1 .. e - s PROVE words[i] = Said(s + i) /\ Said(s + i) \in 0 .. samples
  <2> DEFINE w == s + i
  <2>1. i \in 1 .. e - m + 1 /\ m + i - 1 = w /\ w \in 1 .. Spoken(samples)
    BY <1>1, <1>2
  <2> HIDE DEF w
  <2>2. words[i] = Speech[w] /\ Speech[w] = Said(w)
    BY <1>1, <1>3, <2>1
  <2>3. Said(w) \in 0 .. samples
    BY <2>1, SaidInside
  <2> QED BY <2>2, <2>3 DEF w
<1> QED BY <1>3, <1>4, <1>5 DEF words, m

\* What a window may hear, of words s + 1 to e.
HeardOf(text, s, e, k, first, last) ==
    /\ text \in Seq(Int) /\ MisheardIn(text, k, k)
    /\ \E h, b, f, t :
         /\ HeardText(text, h, b, f, t)
         /\ s + h <= b /\ b <= s + 1 /\ (first => b = s /\ h = 0)
         /\ e - 1 <= f /\ f <= e /\ (last => f = e /\ t = 0)

LEMMA LostIs ==
    ASSUME samples \in Nat, NEW s \in Nat, NEW e \in Nat, e <= Spoken(samples), NEW k \in Nat,
           NEW first, NEW last, s <= e, (first /\ last) \/ s + 2 <= e,
           NEW head \in {0, 1}, NEW tail \in {0, 1}, first => head = 0, last => tail = 0
    PROVE  HeardOf(SubSeq(SubSeq(Speech, s + 1, e), head + 1, (e - s) - tail), s, e, k, first, last)
<1> DEFINE words == SubSeq(Speech, s + 1, e)
           n == e - s
           m == head + 1
           z == n - tail
           text == SubSeq(words, m, z)
           b == s + head
           f == e - tail
<1>1. words \in Seq(Int) /\ Len(words) = n
      /\ \A i \in 1 .. n : words[i] = Said(s + i) /\ Said(s + i) \in 0 .. samples
  BY WordsAre
<1>2. /\ n \in Nat /\ z \in Nat /\ z <= n /\ m \in Nat /\ m > 0 /\ b \in Nat /\ f \in Nat
      /\ b <= f /\ z - m + 1 = f - b /\ z + 1 >= m
  <2>1. CASE first /\ last
    BY <2>1
  <2>2. CASE s + 2 <= e
    BY <2>2
  <2> QED BY <2>1, <2>2
<1> HIDE DEF words
<1>3. /\ text \in Seq(Int) /\ Len(text) = IF m <= z THEN z - m + 1 ELSE 0
      /\ \A i \in 1 .. z - m + 1 : text[i] = words[m + i - 1]
  <2> HIDE DEF m, z, n, text
  <2>1. z <= Len(words)
    BY <1>1, <1>2
  <2> QED BY <1>1, <1>2, <2>1, TextSliceTyped DEF text
<1> HIDE DEF text
<1>4. Len(text) = f - b
  <2> HIDE DEF m, z, f, b
  <2> QED BY <1>2, <1>3
<1>5. ASSUME NEW j \in 1 .. f - b PROVE text[j] = Said(b + j) /\ Said(b + j) \in Nat
  <2> DEFINE i == head + j
  <2>1. j \in 1 .. z - m + 1 /\ m + j - 1 = i /\ i \in 1 .. n /\ s + i = b + j
    BY <1>2
  <2> HIDE DEF i, m, z, n, b, f
  <2>2. text[j] = words[i]
    BY <1>3, <2>1
  <2>3. words[i] = Said(s + i) /\ Said(s + i) \in 0 .. samples
    BY <1>1, <2>1
  <2> QED BY <2>1, <2>2, <2>3
<1>6. MisheardIn(text, k, k)
  <2>1. \A j \in 1 .. Len(text) : ~(text[j] < 0)
    BY <1>4, <1>5
  <2> QED BY <2>1 DEF MisheardIn
<1>7. HeardText(text, 0, b, f, 0)
  <2>1. 0 + (f - b) + 0 = f - b
    BY <1>2
  <2>2. \A j \in 1 .. f - b : 0 + j = j
    OBVIOUS
  <2> HIDE DEF b, f
  <2> QED BY <1>2, <1>4, <1>5, <2>1, <2>2 DEF HeardText
<1>8. s + 0 <= b /\ b <= s + 1 /\ (first => b = s /\ 0 = 0)
      /\ e - 1 <= f /\ f <= e /\ (last => f = e /\ 0 = 0)
  OBVIOUS
<1> HIDE DEF b, f
<1>9. HeardOf(text, s, e, k, first, last)
  BY <1>3, <1>6, <1>7, <1>8 DEF HeardOf
<1> QED BY <1>9 DEF text, words, m, z, n

LEMMA MisheardHeard ==
    ASSUME samples \in Nat, NEW s \in Nat, NEW e \in Nat, e <= Spoken(samples), NEW k \in Nat,
           NEW first, NEW last, s <= e, (first /\ last) \/ s + 2 <= e,
           NEW text \in Seq(Int), Len(text) = e - s,
           \A i \in 1 .. e - s :
             text[i] = IF (i = 1 /\ ~first) \/ (i = e - s /\ ~last)
                       THEN Misheard(Said(s + i), k) ELSE Said(s + i)
    PROVE  HeardOf(text, s, e, k, first, last)
<1> DEFINE n == e - s
           h == IF first THEN 0 ELSE 1
           t == IF last THEN 0 ELSE 1
           b == s + h
           f == e - t
           Spoiled(i) == (i = 1 /\ ~first) \/ (i = n /\ ~last)
<1>1. \A i \in 1 .. n : Said(s + i) \in 0 .. samples
  BY WordsAre
<1>2. /\ n \in Nat /\ h \in {0, 1} /\ t \in {0, 1} /\ b \in Nat /\ f \in Nat /\ b <= f
      /\ n = h + (f - b) + t
  OBVIOUS
<1>4. ASSUME NEW i \in 1 .. n
      PROVE  text[i] = IF Spoiled(i) THEN Misheard(Said(s + i), k) ELSE Said(s + i)
  OBVIOUS
<1>7. Len(text) = n
  OBVIOUS
<1> HIDE DEF n
<1>5. ASSUME NEW i \in 1 .. n, Spoiled(i)
      PROVE  /\ text[i] < 0
             /\ \E w \in 0 .. samples : text[i] = Misheard(w, k)
  <2>1. Said(s + i) \in 0 .. samples /\ text[i] = Misheard(Said(s + i), k)
    BY <1>1, <1>4, <1>5
  <2>2. Misheard(Said(s + i), k) \in Int /\ Misheard(Said(s + i), k) <= -10
    BY <2>1, MisheardIs
  <2> QED BY <2>1, <2>2
<1>6. ASSUME NEW i \in 1 .. n, ~Spoiled(i) PROVE text[i] = Said(s + i) /\ text[i] \in Nat
  <2>1. text[i] = Said(s + i) /\ Said(s + i) \in 0 .. samples
    BY <1>1, <1>4, <1>6
  <2> QED BY <2>1
<1> HIDE DEF Spoiled
<1>8. MisheardIn(text, k, k)
  <2> SUFFICES ASSUME NEW i \in 1 .. n, text[i] < 0
               PROVE  \E j \in k .. k, w \in 0 .. samples : text[i] = Misheard(w, j)
    BY <1>7 DEF MisheardIn
  <2>1. Spoiled(i)
    BY <1>6
  <2>2. PICK w \in 0 .. samples : text[i] = Misheard(w, k)
    BY <1>5, <2>1
  <2>3. k \in k .. k
    OBVIOUS
  <2> QED BY <2>2, <2>3
<1>9. HeardText(text, h, b, f, t)
  <2>1. ASSUME NEW j \in 1 .. f - b PROVE text[h + j] = Said(b + j)
    <3> DEFINE i == h + j
    <3>1. i \in 1 .. n /\ ~Spoiled(i) /\ s + i = b + j
      BY <1>2 DEF Spoiled
    <3> HIDE DEF i, h, b, f, t
    <3>2. text[i] = Said(s + i)
      BY <1>6, <3>1
    <3> QED BY <3>1, <3>2 DEF i
  <2>2. ASSUME h = 1 PROVE text[1] < 0
    <3>1. 1 \in 1 .. n /\ Spoiled(1)
      BY <1>2, <2>2 DEF Spoiled
    <3> QED BY <1>5, <3>1
  <2>3. ASSUME t = 1 PROVE text[n] < 0
    <3>1. n \in 1 .. n /\ Spoiled(n)
      BY <1>2, <2>3 DEF Spoiled
    <3> QED BY <1>5, <3>1
  <2> HIDE DEF h, b, f, t
  <2> QED BY <1>2, <1>7, <2>1, <2>2, <2>3 DEF HeardText
<1>10. s + h <= b /\ b <= s + 1 /\ (first => b = s /\ h = 0)
       /\ e - 1 <= f /\ f <= e /\ (last => f = e /\ t = 0)
  OBVIOUS
<1> HIDE DEF h, b, f, t
<1> QED BY <1>7, <1>8, <1>9, <1>10 DEF HeardOf

LEMMA HeardIs ==
    ASSUME samples \in Nat, NEW s \in Nat, NEW e \in Nat, e <= Spoken(samples), NEW k \in Nat,
           NEW first, NEW last, s <= e, (first /\ last) \/ s + 2 <= e,
           NEW text \in HeardAt(SubSeq(Speech, s + 1, e), k, first, last)
    PROVE  HeardOf(text, s, e, k, first, last)
<1> DEFINE words == SubSeq(Speech, s + 1, e)
           A == IF first THEN {"whole"} ELSE {"whole", "lost"}
           B == IF last THEN {"whole"} ELSE {"whole", "lost"}
           C(head, tail) == SubSeq(words, IF head = "lost" THEN 2 ELSE 1,
                                   Len(words) - IF tail = "lost" THEN 1 ELSE 0)
           g == [i \in DOMAIN words |->
                   IF (i = 1 /\ ~first) \/ (i = Len(words) /\ ~last)
                   THEN Misheard(words[i], k) ELSE words[i]]
<1>1. HeardAt(words, k, first, last) = {C(head, tail) : head \in A, tail \in B} \cup {g}
  BY DEF HeardAt
<1>2. Len(words) = e - s
  BY WordsAre
<1>3. CASE text = g
  <2>1. words \in Seq(Int) /\ Len(words) = e - s
        /\ \A i \in 1 .. e - s : words[i] = Said(s + i)
    BY WordsAre
  <2>2. DOMAIN words = 1 .. e - s
    BY <2>1, LenProperties
  <2> HIDE DEF words
  <2>3. ASSUME NEW i \in 1 .. e - s
        PROVE  text[i] = IF (i = 1 /\ ~first) \/ (i = e - s /\ ~last)
                         THEN Misheard(Said(s + i), k) ELSE Said(s + i)
    <3>1. g[i] = IF (i = 1 /\ ~first) \/ (i = e - s /\ ~last)
                 THEN Misheard(words[i], k) ELSE words[i]
      BY <1>2, <2>2
    <3> HIDE DEF g
    <3> QED BY <1>3, <2>1, <3>1
  <2>4. text \in Seq(Int)
    <3>1. text \in HeardAt(words, k, first, last)
      BY DEF words
    <3> QED BY <2>1, <3>1, HeardTyped
  <2>5. Len(text) = e - s
    <3>1. DOMAIN text = DOMAIN words
      BY <1>3
    <3> HIDE DEF g
    <3> DEFINE n == e - s
               m == Len(text)
    <3>2. m \in Nat /\ DOMAIN text = 1 .. m /\ DOMAIN words = 1 .. n /\ n \in Nat
      BY <2>2, <2>4, LenProperties
    <3>3. 1 .. m = 1 .. n
      BY <3>1, <3>2
    <3> HIDE DEF m, n
    <3>4. m = n
      BY <3>2, <3>3
    <3> QED BY <3>4 DEF m, n
  <2> HIDE DEF g
  <2> QED BY <2>3, <2>4, <2>5, MisheardHeard
<1>4. CASE text # g
  <2>1. PICK head \in A, tail \in B : text = C(head, tail)
    <3> HIDE DEF g, A, B, C
    <3>1. text \in {C(head, tail) : head \in A, tail \in B}
      BY <1>1, <1>4 DEF words
    <3> QED BY <3>1
  <2> DEFINE x == IF head = "lost" THEN 1 ELSE 0
             y == IF tail = "lost" THEN 1 ELSE 0
  <2>2. x \in {0, 1} /\ y \in {0, 1} /\ (first => x = 0) /\ (last => y = 0)
    BY <2>1
  <2>3. (IF head = "lost" THEN 2 ELSE 1) = x + 1
    OBVIOUS
  <2> HIDE DEF words, g
  <2>4. text = SubSeq(words, x + 1, (e - s) - y)
    BY <1>2, <2>1, <2>3
  <2> HIDE DEF x, y
  <2>5. HeardOf(SubSeq(SubSeq(Speech, s + 1, e), x + 1, (e - s) - y), s, e, k, first, last)
    BY <2>2, LostIs
  <2> QED BY <2>4, <2>5 DEF words
<1> QED BY <1>3, <1>4
-----------------------------------------------------------------------------
\* The words before a window, and up to its end.
Before(ws, k) == Spoken(ws[k].start)
Upto(ws, k) == Spoken(Ends(ws[k]))

\* What a plan of windows is cut by.
CutBy(ws, p) ==
    Len(ws) > 1 => Declared(p) /\ \A k \in 1 .. Len(ws) : ws[k].padded >= p.min

LEMMA PlanIsCutBy ==
    ASSUME NEW total \in Nat, NEW p, LongType(p)
    PROVE  CutBy(PlanWindows(total, p), p)
<1> DEFINE len == ChooseWindow(total, p)
           c == Cut(total, len, p.overlap)
<1>1. p.max \in Nat /\ p.min \in Nat /\ p.overlap \in Nat
  BY DEF LongType
<1>2. CASE Declared(p) /\ ~(total < p.max) /\ ~(len >= total)
  <2>1. len \in Nat /\ len >= p.min /\ len > p.overlap
    <3>1. CASE len \in Candidates(total, p)
      BY <3>1, <1>1 DEF Candidates
    <3>2. CASE len = p.min
      BY <3>2, <1>1, <1>2 DEF Declared
    <3>3. len \in Candidates(total, p) \/ len = p.min
      BY <1>2 DEF ChooseWindow
    <3> QED BY <3>1, <3>2, <3>3
  <2>2. PlanWindows(total, p) = c
    BY <1>2 DEF PlanWindows
  <2> HIDE DEF len
  <2> DEFINE n == WindowCount(total, len, p.overlap)
             s == len - p.overlap
  <2>3. n \in Nat
    <3>1. s \in Nat \ {0} /\ total - p.overlap \in Nat
      BY <1>1, <1>2, <2>1
    <3> HIDE DEF s
    <3>2. n = CeilDiv(total - p.overlap, s)
      BY DEF WindowCount, s
    <3> QED BY <3>1, <3>2, CeilDivBounds
  <2> HIDE DEF n
  <2>4. DOMAIN c = 1 .. n /\ \A k \in 1 .. n : c[k].padded = len
    BY DEF Cut, n, Window
  <2>5. ASSUME NEW k \in 1 .. Len(c) PROVE c[k].padded >= p.min
    <3>1. Len(c) = n
      <4>1. c \in [1 .. n -> {c[k_] : k_ \in 1 .. n}]
        BY DEF Cut, n
      <4> HIDE DEF c
      <4> QED BY <2>3, <4>1, IsSequence
    <3> HIDE DEF c
    <3>2. c[k].padded = len
      BY <2>4, <3>1
    <3> QED BY <2>1, <3>2
  <2> HIDE DEF c
  <2> QED BY <1>2, <2>2, <2>5 DEF CutBy
<1>3. CASE ~(Declared(p) /\ ~(total < p.max) /\ ~(len >= total))
  <2>1. PlanWindows(total, p) = Whole(total)
    BY <1>3 DEF PlanWindows
  <2>2. Len(Whole(total)) = 1
    BY WholeIsChained
  <2> QED BY <2>1, <2>2 DEF CutBy
<1> QED BY <1>2, <1>3

\* How the words of the speech fall into the windows of a plan with room to merge.
Spread(ws, p) ==
    LET n == Len(ws) IN
    /\ n \in Nat /\ n > 0
    /\ \A k \in 1 .. n : /\ Before(ws, k) \in Nat /\ Upto(ws, k) \in Nat
                         /\ Before(ws, k) <= Upto(ws, k) /\ Upto(ws, k) <= Spoken(samples)
                         /\ n = 1 \/ Before(ws, k) + 4 <= Upto(ws, k)
    /\ Before(ws, 1) = 0 /\ Upto(ws, n) = Spoken(samples)
    /\ n > 1 => p.merge_search >= 3
    /\ \A k \in 1 .. n - 1 : /\ Before(ws, k + 1) + 4 <= Upto(ws, k)
                             /\ Upto(ws, k) <= Before(ws, k + 1) + p.merge_head
                             /\ Upto(ws, k) <= Upto(ws, k + 1)
    /\ \A k \in 1 .. n - 2 : Upto(ws, k) <= Before(ws, k + 2)

LEMMA WindowsSpread ==
    ASSUME samples \in Nat, NEW p, LongType(p), RoomToMerge(p),
           NEW ws, Planned(ws, samples, p.overlap), CutBy(ws, p)
    PROVE  Spread(ws, p)
<1> DEFINE n == Len(ws)
           o == p.overlap
<1>1. /\ n \in Nat /\ n > 0 /\ Chained(ws) /\ Reach(ws, n) = samples
      /\ n > 1 => Covers(ws, samples, o)
  BY DEF Planned
<1>2. ASSUME NEW k \in 1 .. n
      PROVE  /\ ws[k].start \in Nat /\ ws[k].real \in Nat /\ ws[k].padded \in Nat
             /\ Ends(ws[k]) = ws[k].start + ws[k].real
             /\ Ends(ws[k]) \in Nat /\ Ends(ws[k]) <= samples
  <2>1. ws[k] \in WindowType
    BY <1>1, LenProperties DEF Chained
  <2>2. Reach(ws, k) <= Reach(ws, n) /\ Reach(ws, k) = Ends(ws[k])
    <3>1. k \in 0 .. Len(ws) /\ k # 0
      BY <1>1
    <3> QED BY <1>1, <3>1, ReachGoesUp DEF Reach
  <2> QED BY <1>1, <2>1, <2>2 DEF WindowType, Ends
<1>3. ws[1].start = 0 /\ Ends(ws[n]) = samples
  <2>1. 1 \in 1 .. n /\ 1 - 1 = 0
    BY <1>1
  <2>2. ws[1].start <= Reach(ws, 0)
    BY <2>1 DEF Planned, Chained
  <2>3. ws[1].start = 0
    BY <1>2, <2>1, <2>2 DEF Reach
  <2> QED BY <1>1, <2>3 DEF Reach
<1>4. o \in Nat /\ p.min \in Nat /\ p.merge_head \in Nat /\ p.merge_search \in Nat
  BY DEF LongType
<1>5. ASSUME n > 1
      PROVE  /\ o \div WordEvery >= 4 /\ p.merge_search >= 3
             /\ p.merge_head >= CeilDiv(o, WordEvery) /\ 2 * o <= p.min
             /\ \A k \in 1 .. n : ws[k].padded >= p.min
  BY <1>5 DEF CutBy, RoomToMerge
<1>6. ASSUME NEW k \in 1 .. n - 1
      PROVE  /\ ws[k + 1].start > ws[k].start
             /\ Ends(ws[k]) - ws[k + 1].start = o
             /\ ws[k].real = ws[k].padded /\ ws[k + 1].real > o
  <2>1. n > 1
    BY <1>1
  <2>2. Covers(ws, samples, o)
    BY <1>1, <2>1
  <2> QED BY <2>2 DEF Covers
<1> HIDE DEF n, o
<1>7. ASSUME NEW k \in 1 .. n - 1
      PROVE  /\ Before(ws, k + 1) + 4 <= Upto(ws, k)
             /\ Upto(ws, k) <= Before(ws, k + 1) + p.merge_head
             /\ Upto(ws, k) <= Upto(ws, k + 1)
  <2> DEFINE x == ws[k + 1].start
  <2>1. k \in 1 .. n /\ k + 1 \in 1 .. n /\ n > 1
    BY <1>1
  <2>2. x \in Nat /\ Ends(ws[k]) = x + o /\ Ends(ws[k + 1]) \in Nat /\ x + o \in Nat
        /\ x + o <= Ends(ws[k + 1])
    <3>1. x \in Nat /\ ws[k + 1].real \in Nat /\ Ends(ws[k + 1]) = x + ws[k + 1].real
          /\ Ends(ws[k]) \in Nat
      BY <1>2, <2>1
    <3>2. Ends(ws[k]) - x = o /\ ws[k + 1].real > o
      BY <1>6
    <3> HIDE DEF x
    <3> QED BY <1>4, <3>1, <3>2
  <2> HIDE DEF x
  <2>3. /\ Spoken(x) \in Nat /\ Spoken(x + o) \in Nat
        /\ Spoken(x) + (o \div WordEvery) <= Spoken(x + o)
        /\ Spoken(x + o) <= Spoken(x) + CeilDiv(o, WordEvery)
    BY <1>4, <2>2, SpokenSteps
  <2>4. Spoken(x + o) <= Spoken(Ends(ws[k + 1]))
    BY <2>2, SpokenGrows
  <2>5. Before(ws, k + 1) = Spoken(x) /\ Upto(ws, k) = Spoken(x + o)
        /\ Upto(ws, k + 1) = Spoken(Ends(ws[k + 1]))
    BY <2>2 DEF Before, Upto, x
  <2> DEFINE d == o \div WordEvery
             g == CeilDiv(o, WordEvery)
             a == Spoken(x)
             b == Spoken(x + o)
  <2>6. d \in Nat /\ g \in Nat /\ d >= 4 /\ p.merge_head >= g
    <3>1. WordEvery \in Nat \ {0}
      BY TimeAssumption
    <3> QED BY <1>4, <1>5, <2>1, <3>1, DivMod, CeilDivBounds
  <2>7. a \in Nat /\ b \in Nat /\ a + d <= b /\ b <= a + g
    BY <2>3
  <2> HIDE DEF a, b, d, g
  <2>8. a + 4 <= b /\ b <= a + p.merge_head
    BY <1>4, <2>6, <2>7
  <2> QED BY <2>4, <2>5, <2>8 DEF a, b
<1>8. ASSUME NEW k \in 1 .. n - 2 PROVE Upto(ws, k) <= Before(ws, k + 2)
  <2>1. k \in 1 .. n - 1 /\ k + 1 \in 1 .. n - 1 /\ (k + 1) + 1 = k + 2 /\ n > 1
        /\ k \in 1 .. n /\ k + 1 \in 1 .. n /\ k + 2 \in 1 .. n
    BY <1>1
  <2>2. Ends(ws[k]) - ws[k + 1].start = o
    BY <1>6, <2>1
  <2>3. Ends(ws[k + 1]) - ws[k + 2].start = o /\ ws[k + 1].real = ws[k + 1].padded
    BY <1>6, <2>1
  <2>4. ws[k + 1].padded >= 2 * o
    <3>1. ws[k + 1].padded >= p.min /\ 2 * o <= p.min /\ ws[k + 1].padded \in Nat
      BY <1>2, <1>5, <2>1
    <3> QED BY <1>4, <3>1
  <2>5. Ends(ws[k]) \in Nat /\ ws[k + 2].start \in Nat
        /\ Ends(ws[k + 1]) = ws[k + 1].start + ws[k + 1].real
        /\ ws[k + 1].start \in Nat /\ ws[k + 1].real \in Nat
    BY <1>2, <2>1
  <2>6. Ends(ws[k]) <= ws[k + 2].start
    BY <1>4, <2>2, <2>3, <2>4, <2>5
  <2> QED BY <2>5, <2>6, SpokenGrows DEF Before, Upto
<1>9. ASSUME NEW k \in 1 .. n
      PROVE  /\ Before(ws, k) \in Nat /\ Upto(ws, k) \in Nat
             /\ Before(ws, k) <= Upto(ws, k) /\ Upto(ws, k) <= Spoken(samples)
             /\ n = 1 \/ Before(ws, k) + 4 <= Upto(ws, k)
  <2>1. ws[k].start <= Ends(ws[k])
    BY <1>2
  <2>2. /\ Before(ws, k) \in Nat /\ Upto(ws, k) \in Nat
        /\ Before(ws, k) <= Upto(ws, k) /\ Upto(ws, k) <= Spoken(samples)
    BY <1>2, <2>1, SpokenGrows DEF Before, Upto
  <2>3. CASE k < n
    <3>1. k \in 1 .. n - 1 /\ k + 1 \in 1 .. n
      BY <1>1, <2>3
    <3>2. Before(ws, k + 1) + 4 <= Upto(ws, k)
      BY <1>7, <3>1
    <3>3. ws[k].start <= ws[k + 1].start /\ ws[k].start \in Nat /\ ws[k + 1].start \in Nat
      BY <1>2, <1>6, <3>1
    <3>4. Before(ws, k) <= Before(ws, k + 1) /\ Before(ws, k + 1) \in Nat
      BY <3>3, SpokenGrows DEF Before
    <3> QED BY <2>2, <3>2, <3>4
  <2>4. CASE k = n /\ n # 1
    <3> DEFINE j == n - 1
    <3>1. j \in 1 .. n - 1 /\ j \in 1 .. n /\ j + 1 = k
      BY <1>1, <2>4
    <3> HIDE DEF j
    <3>2. Before(ws, j + 1) + 4 <= Upto(ws, j) /\ Upto(ws, j) <= Upto(ws, j + 1)
      BY <1>7, <3>1
    <3>3. Upto(ws, j) \in Nat
      BY <1>2, <3>1, SpokenGrows DEF Upto
    <3>4. Before(ws, k) + 4 <= Upto(ws, j) /\ Upto(ws, j) <= Upto(ws, k)
      BY <3>1, <3>2
    <3> QED BY <2>2, <3>3, <3>4
  <2>5. k < n \/ k = n
    BY <1>1
  <2> QED BY <2>2, <2>3, <2>4, <2>5
<1>10. Before(ws, 1) = 0 /\ Upto(ws, n) = Spoken(samples)
  <2>1. Spoken(0) = 0
    <3>1. WordEvery \in Nat \ {0}
      BY TimeAssumption
    <3> DEFINE c == CeilDiv(0, WordEvery)
               s == WordEvery
    <3>2. c \in Nat /\ s * c < 0 + s /\ s \in Nat \ {0}
      BY <3>1, CeilDivBounds
    <3> HIDE DEF c, s
    <3>3. c = 0
      <4> SUFFICES ASSUME 0 + 1 <= c PROVE FALSE
        BY <3>2
      <4>1. s * (0 + 1) <= s * c /\ s * (0 + 1) = s * 0 + s /\ s * 0 = 0
        BY <3>2, MulMono
      <4> QED BY <3>2, <4>1
    <3> QED BY <3>3 DEF Spoken, c, s
  <2> QED BY <1>3, <2>1 DEF Before, Upto
<1> QED BY <1>1, <1>5, <1>7, <1>8, <1>9, <1>10 DEF Spread, n
-----------------------------------------------------------------------------
\* What the windows up to k say: words they share no more up to `low`, all of them up to
\* `high`, of which only a last window's text is sure to have the last one.
StitchedTo(ids, k, last, low, high) ==
    /\ ids \in Seq(Int) /\ MisheardIn(ids, 1, k)
    /\ \E q, u, e, t : /\ Stitched(ids, q, u, e, t) /\ u <= low
                       /\ high - 1 <= e /\ e <= high /\ (last => e = high /\ t = 0)

LEMMA FirstStitched ==
    ASSUME NEW D, NEW first, NEW last, NEW to \in Nat, NEW k, k = 1, first,
           HeardOf(D, 0, to, k, first, last)
    PROVE  StitchedTo(D, k, last, 0, to)
<1>1. D \in Seq(Int) /\ MisheardIn(D, 1, k)
  BY DEF HeardOf
<1>2. PICK h, b, f, t :
        /\ HeardText(D, h, b, f, t) /\ b = 0 /\ h = 0
        /\ to - 1 <= f /\ f <= to /\ (last => f = to /\ t = 0)
  BY DEF HeardOf
<1>3. /\ f \in Nat /\ t \in {0, 1} /\ Len(D) = 0 + (f - 0) + t
      /\ \A j \in 1 .. f - 0 : D[0 + j] = Said(0 + j)
      /\ t = 1 => D[Len(D)] < 0
  BY <1>2 DEF HeardText
<1>4. Tells(D, 0, 0)
  <2> DEFINE g == [i \in 0 .. 0 |-> 0]
  <2>1. g \in [0 .. 0 -> Nat] /\ g[0] = 0 /\ \A i \in 1 .. 0 : FALSE
    OBVIOUS
  <2> HIDE DEF g
  <2> QED BY <2>1 DEF Tells
<1>5. Stitched(D, 0, 0, f, t)
  BY <1>3, <1>4 DEF Stitched
<1> QED BY <1>1, <1>2, <1>5 DEF StitchedTo

LEMMA NextStitched ==
    ASSUME samples \in Nat, NEW p, LongType(p), NEW B, NEW D, NEW k \in Nat \ {0},
           NEW low \in Nat, NEW high \in Nat, NEW s \in Nat, NEW to \in Nat,
           NEW was, NEW first, NEW last,
           StitchedTo(B, k - 1, was, low, high), HeardOf(D, s, to, k, first, last),
           low <= s, s + 4 <= high, high <= s + p.merge_head, p.merge_search >= 3,
           high + 1 <= to \/ (last /\ high <= to)
    PROVE  StitchedTo(Stitch(B, D, p), k, last, high, to)
<1>1. B \in Seq(Int) /\ MisheardIn(B, 1, k - 1) /\ D \in Seq(Int) /\ MisheardIn(D, k, k)
  BY DEF StitchedTo, HeardOf
<1>2. PICK q, u, e, t : Stitched(B, q, u, e, t) /\ u <= low /\ high - 1 <= e /\ e <= high
  BY DEF StitchedTo
<1>3. PICK h, b, f, t2 :
        /\ HeardText(D, h, b, f, t2) /\ s + h <= b /\ b <= s + 1
        /\ to - 1 <= f /\ f <= to /\ (last => f = to /\ t2 = 0)
  BY DEF HeardOf
<1>4. /\ q \in Nat /\ u \in Nat /\ e \in Nat /\ t \in {0, 1} /\ u <= e
      /\ Len(B) = q + (e - u) + t
  BY <1>2 DEF Stitched
<1>5. /\ h \in {0, 1} /\ b \in Nat /\ f \in Nat /\ t2 \in {0, 1} /\ b <= f
      /\ Len(D) = h + (f - b) + t2
  BY <1>3 DEF HeardText
<1>6. p.merge_head \in Nat
  BY DEF LongType
<1>7. u <= b /\ b + 2 <= e /\ e <= f /\ h + (e - b) <= p.merge_head /\ b <= e
  <2> DEFINE head == p.merge_head
  <2>1. u \in Int /\ e \in Int /\ h \in Int /\ b \in Int /\ f \in Int /\ h >= 0
    BY <1>4, <1>5
  <2>2. /\ u <= low /\ high - 1 <= e /\ e <= high /\ s + h <= b /\ b <= s + 1
        /\ to - 1 <= f /\ (last => f = to)
    BY <1>2, <1>3
  <2>3. head \in Int /\ high <= s + head
    BY <1>6
  <2> HIDE DEF head
  <2>4. u <= b /\ b + 2 <= e /\ b <= e
    BY <2>1, <2>2
  <2>5. e <= f
    BY <2>1, <2>2
  <2>6. h + (e - b) <= head
    BY <2>1, <2>2, <2>3
  <2> QED BY <2>4, <2>5, <2>6 DEF head
<1>8. Apart(B, D)
  BY <1>1, MisheardAreApart
<1> DEFINE r == Stitch(B, D, p)
<1>9. PICK o \in 0 .. t : Spliced(r, B, (q + (e - u)) + o, D, h + (e - b))
  BY <1>1, <1>2, <1>3, <1>7, <1>8, StitchIs
<1> HIDE DEF r
<1> DEFINE kept == (q + (e - u)) + o
           from == h + (e - b)
<1>10. Stitched(r, kept, e, f, t2)
  BY <1>1, <1>2, <1>3, <1>7, <1>9, StitchedOn
<1>11. kept \in 0 .. Len(B) /\ from \in 0 .. Len(D)
  BY <1>4, <1>5, <1>7
<1>12. Spliced(r, B, kept, D, from)
  BY <1>9
<1> HIDE DEF kept, from
<1>13. MisheardIn(r, 1, k)
  BY <1>1, <1>11, <1>12, MisheardOn
<1>14. r \in Seq(Int)
  BY <1>12 DEF Spliced
<1>15. StitchedTo(r, k, last, high, to)
  BY <1>2, <1>3, <1>10, <1>13, <1>14 DEF StitchedTo
<1> QED BY <1>15 DEF r

\* A text that goes on to the end of the speech is the speech.
LEMMA AllIsSaid ==
    ASSUME samples \in Nat, NEW ids, NEW k \in Nat, NEW last, NEW low, last,
           StitchedTo(ids, k, last, low, Spoken(samples))
    PROVE  Words(Detokenize(ids)) = Speech
<1>1. ids \in Seq(Int) /\ MisheardIn(ids, 1, k)
  BY DEF StitchedTo
<1> DEFINE all == Spoken(samples)
<1>2. PICK q, u, e, t : Stitched(ids, q, u, e, t) /\ e = all /\ t = 0
  BY DEF StitchedTo
<1>3. /\ q \in Nat /\ u \in Nat /\ e \in Nat /\ u <= e /\ t = 0
      /\ Len(ids) = q + (e - u) + t
      /\ Tells(ids, q, u)
      /\ \A n \in 1 .. q : ids[n] < 0 \/ \E w \in 1 .. u : ids[n] = Said(w)
      /\ \A j \in 1 .. e - u : ids[q + j] = Said(u + j)
  BY <1>2 DEF Stitched
<1> HIDE DEF all
<1>4. Tells(ids, Len(ids), all)
  <2> DEFINE m == e - u
  <2>1. m \in Nat /\ q + m = Len(ids) /\ u + m = all
    BY <1>2, <1>3
  <2>2. \A j \in 1 .. m : ids[q + j] = Said(u + j)
    BY <1>3
  <2> HIDE DEF m
  <2>3. Tells(ids, q + m, u + m)
    BY <1>1, <1>3, <2>1, <2>2, TellsOn
  <2> QED BY <2>1, <2>3
<1>5. Words(ids) = Speech
  BY <1>1, <1>4, TellsSpeech DEF all
<1>6. ASSUME NEW n \in 1 .. Len(ids) PROVE ~IsControl(ids[n])
  <2>1. ids[n] \in Int
    BY <1>1
  <2>2. CASE ids[n] < 0
    <3>1. PICK j \in 1 .. k, w \in 0 .. samples : ids[n] = Misheard(w, j)
      BY <1>1, <2>2 DEF MisheardIn
    <3>2. ids[n] <= -10
      BY <3>1, MisheardIs
    <3> QED BY <2>1, <3>2 DEF IsControl, EOS, Blank
  <2>3. CASE ~(ids[n] < 0)
    BY <2>1, <2>3 DEF IsControl, EOS, Blank
  <2> QED BY <2>2, <2>3
<1>7. Detokenize(ids) = ids
  BY <1>1, <1>6, AnswerIsText
<1> QED BY <1>5, <1>7
-----------------------------------------------------------------------------
\* The texts of windows with room to merge, merged, say the speech.
LEMMA MergeIsSpeech ==
    ASSUME samples \in Nat, NEW p, LongType(p), NEW ws, Spread(ws, p),
           NEW texts \in Seq(Seq(Int)), Len(texts) = Len(ws),
           \A k \in 1 .. Len(ws) :
             HeardOf(texts[k], Before(ws, k), Upto(ws, k), k, k = 1, k = Len(ws))
    PROVE  Words(Detokenize(MergeWindows(texts, p))) = Speech
<1> DEFINE n == Len(texts)
           Low(k) == IF k = 1 THEN 0 ELSE Upto(ws, k - 1)
<1>1. PICK merged :
        /\ merged[0] = << >>
        /\ \A k \in 1 .. n :
             merged[k] = IF k = 1 THEN texts[1] ELSE Stitch(merged[k - 1], texts[k], p)
        /\ \A k \in 0 .. n : merged[k] \in Seq(Int)
        /\ MergeWindows(texts, p) = merged[n]
  BY MergedWalk
<1>2. /\ n \in Nat /\ n > 0 /\ n = Len(ws)
      /\ \A k \in 1 .. n : /\ Before(ws, k) \in Nat /\ Upto(ws, k) \in Nat
                           /\ n = 1 \/ Before(ws, k) + 4 <= Upto(ws, k)
      /\ Before(ws, 1) = 0 /\ Upto(ws, n) = Spoken(samples)
      /\ n > 1 => p.merge_search >= 3
  BY DEF Spread
<1>3. /\ \A k \in 1 .. n - 1 : /\ Before(ws, k + 1) + 4 <= Upto(ws, k)
                               /\ Upto(ws, k) <= Before(ws, k + 1) + p.merge_head
                               /\ Upto(ws, k) <= Upto(ws, k + 1)
      /\ \A k \in 1 .. n - 2 : Upto(ws, k) <= Before(ws, k + 2)
  BY <1>2 DEF Spread
<1>4. \A k \in 1 .. n : HeardOf(texts[k], Before(ws, k), Upto(ws, k), k, k = 1, k = n)
  BY <1>2
<1> HIDE DEF n
<1> DEFINE Good(k) == StitchedTo(merged[k], k, k = n, Low(k), Upto(ws, k))
           T == {k \in 0 .. n : k = 0 \/ Good(k)}
<1>5. Good(1)
  <2> DEFINE first == 1 = 1
             last == 1 = n
             D == texts[1]
             to == Upto(ws, 1)
  <2>1. 1 \in 1 .. n /\ merged[1] = D /\ to \in Nat /\ first /\ Low(1) = 0
    BY <1>1, <1>2
  <2>2. HeardOf(D, 0, to, 1, first, last)
    BY <1>2, <1>4, <2>1
  <2> HIDE DEF first, last, D, to
  <2>3. StitchedTo(D, 1, last, 0, to)
    BY <2>1, <2>2, FirstStitched
  <2> QED BY <2>1, <2>3 DEF last, to
<1>6. ASSUME NEW k \in 2 .. n, Good(k - 1) PROVE Good(k)
  <2> DEFINE j == k - 1
             first == k = 1
             last == k = n
             was == j = n
             B == merged[j]
             D == texts[k]
             s == Before(ws, k)
             to == Upto(ws, k)
             low == Low(j)
             high == Upto(ws, j)
  <2>1. k \in 1 .. n /\ j \in 1 .. n /\ j \in 1 .. n - 1 /\ j + 1 = k /\ k \in Nat \ {0} /\ n > 1
    BY <1>2
  <2>2. merged[k] = Stitch(B, D, p) /\ Low(k) = high
    BY <1>1, <2>1
  <2>3. StitchedTo(B, k - 1, was, low, high)
    BY <1>6
  <2>4. HeardOf(D, s, to, k, first, last)
    BY <1>4, <2>1
  <2>5. s \in Nat /\ to \in Nat /\ high \in Nat /\ p.merge_search >= 3
    BY <1>2, <2>1
  <2>6. s + 4 <= high /\ high <= s + p.merge_head /\ high <= to
    BY <1>3, <2>1
  <2>7. low \in Nat /\ low <= s
    <3>1. CASE j = 1
      BY <3>1, <2>5
    <3>2. CASE j # 1
      <4> DEFINE i == j - 1
      <4>1. i \in 1 .. n - 2 /\ i + 2 = k /\ i \in 1 .. n
        BY <1>2, <2>1, <3>2
      <4> HIDE DEF i
      <4>2. Upto(ws, i) <= s /\ Upto(ws, i) \in Nat
        BY <1>2, <1>3, <4>1
      <4>3. low = Upto(ws, i)
        BY <3>2 DEF i
      <4> QED BY <4>2, <4>3
    <3> QED BY <3>1, <3>2
  <2>8. high + 1 <= to \/ (last /\ high <= to)
    <3>1. CASE last
      BY <2>6, <3>1
    <3>2. CASE ~last
      <4>1. k \in 1 .. n - 1 /\ j \in 1 .. n - 2 /\ j + 2 = k + 1 /\ k + 1 \in 1 .. n
        BY <1>2, <2>1, <3>2
      <4>2. Before(ws, k + 1) + 4 <= to /\ high <= Before(ws, k + 1)
        BY <1>3, <4>1
      <4>3. Before(ws, k + 1) \in Nat
        BY <1>2, <4>1
      <4> QED BY <2>5, <4>2, <4>3
    <3> QED BY <3>1, <3>2
  <2> HIDE DEF first, last, was, B, D, s, to, low, high, j
  <2>9. StitchedTo(Stitch(B, D, p), k, last, high, to)
    BY <2>1, <2>3, <2>4, <2>5, <2>6, <2>7, <2>8, NextStitched
  <2>10. StitchedTo(merged[k], k, last, Low(k), to)
    BY <2>2, <2>9
  <2> QED BY <2>10 DEF last, to
<1> HIDE DEF Good
<1>7. 0 \in T /\ \A k \in 1 .. n : k - 1 \in T => k \in T
  <2>1. ASSUME NEW k \in 1 .. n, k - 1 \in T PROVE k \in T
    <3>1. CASE k = 1
      BY <1>5, <2>1, <3>1
    <3>2. CASE k # 1
      <4>1. k \in 2 .. n /\ k - 1 # 0
        BY <1>2, <2>1, <3>2
      <4> QED BY <1>6, <2>1, <4>1
    <3> QED BY <3>1, <3>2
  <2> QED BY <1>2, <2>1
<1> HIDE DEF T
<1>8. n \in T
  <2>1. \A k \in 0 .. n : k \in T
    BY <1>2, <1>7, CountsUp
  <2> QED BY <1>2, <2>1
<1>9. Good(n)
  BY <1>2, <1>8 DEF T
<1>10. StitchedTo(merged[n], n, n = n, Low(n), Spoken(samples))
  BY <1>2, <1>9 DEF Good
<1> DEFINE last == n = n
           ids == merged[n]
           low == Low(n)
<1>11. last
  OBVIOUS
<1> HIDE DEF last, ids, low, Low
<1>12. StitchedTo(ids, n, last, low, Spoken(samples))
  BY <1>10 DEF last, ids, low
<1>13. Words(Detokenize(ids)) = Speech
  BY <1>2, <1>11, <1>12, AllIsSaid
<1> QED BY <1>1, <1>13 DEF ids
-----------------------------------------------------------------------------
\* What a window hears is what its text says.
LEMMA HeardHasNoControls ==
    ASSUME NEW s, NEW e, NEW k \in Nat, NEW first, NEW last, NEW text, samples \in Nat,
           HeardOf(text, s, e, k, first, last)
    PROVE  Detokenize(Append(text, EOS)) = text
<1>1. text \in Seq(Int) /\ MisheardIn(text, k, k)
  BY DEF HeardOf
<1>2. ASSUME NEW n \in 1 .. Len(text) PROVE ~IsControl(text[n])
  <2>1. text[n] \in Int
    BY <1>1
  <2>2. CASE text[n] < 0
    <3>1. PICK j \in k .. k, w \in 0 .. samples : text[n] = Misheard(w, j)
      BY <1>1, <2>2 DEF MisheardIn
    <3>2. text[n] <= -10
      BY <3>1, MisheardIs
    <3> QED BY <2>1, <3>2 DEF IsControl, EOS, Blank
  <2>3. CASE ~(text[n] < 0)
    BY <2>1, <2>3 DEF IsControl, EOS, Blank
  <2> QED BY <2>2, <2>3
<1> QED BY <1>1, <1>2, AnswerIsText
-----------------------------------------------------------------------------
\* What window k of the plan may hear of the speech.
Hearing(k) == HeardAt(WordsIn(plan[k]), k, k = 1, k = Len(plan))

\* Windows are cut by a declared policy, and each text is what its window may hear.
SpeechInv ==
    phase # "resolve" /\ ~Seeks /\ ~Quiet =>
        /\ CutBy(plan, file.long)
        /\ file.hears = "speech" =>
             \A k \in 1 .. Len(heard) :
                 \E text \in Hearing(k) : heard[k] = Detokenize(Append(text, EOS))

LEMMA SameHearing ==
    ASSUME UNCHANGED <<inputs, plan>>
    PROVE  \A k : Hearing(k)' = Hearing(k)
<1>1. samples' = samples /\ plan' = plan
  BY DEF inputs
<1> QED BY <1>1 DEF Hearing, HeardAt, WordsIn, Speech, Spoken, Misheard, Ends

LEMMA SpeechStays ==
    ASSUME SpeechInv, phase # "resolve", UNCHANGED <<inputs, plan, heard>>
    PROVE  SpeechInv'
<1>1. file' = file /\ Seeks' = Seeks /\ Quiet' = Quiet
  BY SameCall
<1>2. \A k : Hearing(k)' = Hearing(k)
  BY SameHearing
<1>3. plan' = plan /\ heard' = heard
  OBVIOUS
<1> QED BY <1>1, <1>2, <1>3 DEF SpeechInv

LEMMA SpeechResolved == TInv /\ Resolve => SpeechInv'
<1> SUFFICES ASSUME TInv, Resolve, ~Seeks', ~Quiet'
             PROVE  CutBy(plan', file.long') /\ heard' = << >>
  <2>1. Len(<< >>) = 0
    OBVIOUS
  <2> QED BY <2>1 DEF SpeechInv
<1>1. /\ model \in DOMAIN Files /\ samples \in Nat /\ heard = << >>
      /\ UNCHANGED inputs /\ heard' = heard
  BY DEF TInv, CallInv, Fresh, Resolve
<1>2. file' = file /\ Seeks' = Seeks /\ Quiet' = Quiet
  BY <1>1, SameCall
<1>3. LongType(file.long)
  BY <1>1, FileTyped
<1>4. CASE file.chunk = 0
  <2>1. plan' = PlanWindows(samples, file.long)
    BY <1>2, <1>4 DEF Resolve
  <2> QED BY <1>1, <1>2, <1>3, <2>1, PlanIsCutBy
<1>5. CASE file.chunk # 0
  <2>1. plan' = Whole(samples)
    BY <1>2, <1>5 DEF Resolve
  <2>2. Len(plan') = 1
    BY <1>1, <2>1, WholeIsChained
  <2> QED BY <1>1, <2>2 DEF CutBy
<1> QED BY <1>4, <1>5

LEMMA SpeechDecoded == TInv /\ SpeechInv /\ DecodeNext => SpeechInv'
<1> SUFFICES ASSUME TInv, SpeechInv, DecodeNext, ~Quiet
             PROVE  SpeechInv'
  <2>1. ASSUME TInv, SpeechInv, DecodeNext, Quiet PROVE SpeechInv'
    <3>1. Quiet' = Quiet
      BY <2>1, SameCall DEF DecodeNext
    <3> QED BY <2>1, <3>1 DEF SpeechInv
  <2> QED BY <2>1
<1> DEFINE n == Len(heard)
           k == n + 1
           w == plan[k]
<1>1. /\ phase = "decode" /\ ~Seeks /\ UNCHANGED <<inputs, plan>>
  BY DEF DecodeNext
<1>2. file' = file /\ Seeks' = Seeks /\ Quiet' = Quiet /\ plan' = plan
  BY <1>1, SameCall
<1>3. heard \in Seq(Seq(Int)) /\ n \in Nat
  BY <1>1, LenProperties DEF TInv, PiecesInv
<1>4. PICK ids \in Answers(w, k, Len(plan)) : heard' = Append(heard, Detokenize(ids))
  BY DEF DecodeNext, TextOnly
<1>5. \A j : Hearing(j)' = Hearing(j)
  BY <1>1, SameHearing
<1>6. CutBy(plan', file.long')
  BY <1>1, <1>2 DEF SpeechInv
<1>7. ASSUME file.hears = "speech", NEW j \in 1 .. Len(heard')
      PROVE  \E text \in Hearing(j) : heard'[j] = Detokenize(Append(text, EOS))
  <2>1. PICK text \in Hearing(k) : ids = Append(text, EOS)
    BY <1>4, <1>7 DEF Answers, Hearing
  <2>2. \A i \in 1 .. n :
          \E t \in Hearing(i) : heard[i] = Detokenize(Append(t, EOS))
    BY <1>1, <1>7 DEF SpeechInv
  <2> DEFINE d == Detokenize(ids)
             V == Seq(Int)
  <2>3. d \in V
    <3>1. TInv'
      BY DecodeNextInv
    <3>2. heard' \in Seq(V)
      BY <1>1, <1>2, <3>1 DEF TInv, PiecesInv, DecodeNext
    <3>3. heard' = Append(heard, d) /\ heard \in Seq(V)
      BY <1>3, <1>4
    <3> HIDE DEF d, V
    <3>4. Len(heard') = n + 1 /\ heard'[n + 1] = d
      BY <3>3
    <3> QED BY <1>3, <3>2, <3>4
  <2>4. heard' = Append(heard, d) /\ heard \in Seq(V)
    BY <1>3, <1>4
  <2>5. d = Detokenize(Append(text, EOS))
    BY <2>1
  <2> HIDE DEF d, V
  <2>6. /\ Len(heard') = n + 1 /\ heard'[n + 1] = d
        /\ \A i \in 1 .. n : heard'[i] = heard[i]
    BY <2>3, <2>4
  <2>7. CASE j = n + 1
    BY <2>1, <2>5, <2>6, <2>7
  <2>8. CASE j # n + 1
    <3>1. j \in 1 .. n /\ heard'[j] = heard[j]
      BY <1>3, <2>6, <2>8
    <3> QED BY <2>2, <3>1
  <2> QED BY <2>7, <2>8
<1> HIDE DEF k, n, w
<1> QED BY <1>2, <1>5, <1>6, <1>7 DEF SpeechInv

LEMMA SpeechStep == TInv /\ SpeechInv /\ [DoorNext]_doorVars => SpeechInv'
<1> SUFFICES ASSUME TInv, SpeechInv, [DoorNext]_doorVars PROVE SpeechInv'
  OBVIOUS
<1>1. CASE UNCHANGED vars
  <2>1. UNCHANGED <<inputs, plan, heard>> /\ phase' = phase
    BY <1>1 DEF vars, inputs
  <2>2. CASE phase = "resolve"
    BY <2>1, <2>2 DEF SpeechInv
  <2> QED BY <2>1, <2>2, SpeechStays
<1>2. CASE Resolve
  BY <1>2, SpeechResolved
<1>3. CASE CutAtQuiet \/ LastPiece
  <2>1. UNCHANGED inputs /\ phase = "cut"
    BY <1>3 DEF CutAtQuiet, LastPiece
  <2>2. Quiet
    BY <2>1 DEF TInv, PiecesInv, SeekInv
  <2>3. Quiet' = Quiet
    BY <2>1, SameCall
  <2> QED BY <2>2, <2>3 DEF SpeechInv
<1>4. CASE DecodeNext
  BY <1>4, SpeechDecoded
<1>5. CASE Finish \/ DecodeClip \/ FinishSeek \/ DriverThrows
  <2>1. UNCHANGED <<inputs, plan, heard>> /\ phase # "resolve"
    BY <1>5 DEF Finish, DecodeClip, FinishSeek, DriverThrows
  <2> QED BY <2>1, SpeechStays
<1>6. CASE Next
  BY <1>2, <1>3, <1>4, <1>5, <1>6 DEF Next
<1> QED BY <1>1, <1>6 DEF DoorNext, CallTranscribe, CallGenerate, doorVars

LEMMA SpeechInvHolds == DoorSpec => []SpeechInv
<1>1. DoorInit => SpeechInv
  BY DEF DoorInit, Init, NoTranscription, Fresh, SpeechInv
<1> QED BY <1>1, TInvHolds, SpeechStep, PTL DEF DoorSpec

\* What was heard, when all windows of a plan with room to merge are decoded.
LEMMA AllHeard ==
    ASSUME TInv, SpeechInv, phase = "done", ~Seeks, ~Quiet, file.hears = "speech",
           RoomToMerge(file.long)
    PROVE  /\ Spread(plan, file.long) /\ heard \in Seq(Seq(Int)) /\ Len(heard) = Len(plan)
           /\ \A k \in 1 .. Len(plan) :
                HeardOf(heard[k], Before(plan, k), Upto(plan, k), k, k = 1, k = Len(plan))
<1>1. /\ samples \in Nat /\ model \in DOMAIN Files /\ heard \in Seq(Seq(Int))
      /\ Len(heard) = Len(plan) /\ Planned(plan, samples, file.long.overlap)
  BY DEF TInv, CallInv, PiecesInv
<1>2. /\ CutBy(plan, file.long)
      /\ \A k \in 1 .. Len(plan) :
           \E text \in Hearing(k) : heard[k] = Detokenize(Append(text, EOS))
  BY <1>1 DEF SpeechInv
<1>3. Spread(plan, file.long)
  BY <1>1, <1>2, FileTyped, WindowsSpread
<1>4. ASSUME NEW k \in 1 .. Len(plan)
      PROVE  HeardOf(heard[k], Before(plan, k), Upto(plan, k), k, k = 1, k = Len(plan))
  <2> DEFINE s == Before(plan, k)
             e == Upto(plan, k)
             first == k = 1
             last == k = Len(plan)
  <2>1. /\ s \in Nat /\ e \in Nat /\ s <= e /\ e <= Spoken(samples)
        /\ Len(plan) = 1 \/ s + 4 <= e
    BY <1>3 DEF Spread
  <2>2. (first /\ last) \/ s + 2 <= e
    <3>1. CASE Len(plan) = 1
      <4>1. k = 1
        BY <3>1
      <4> QED BY <3>1, <4>1
    <3>2. CASE s + 4 <= e
      <4> HIDE DEF s, e
      <4> QED BY <2>1, <3>2
    <3> QED BY <2>1, <3>1, <3>2
  <2>3. Hearing(k) = HeardAt(SubSeq(Speech, s + 1, e), k, first, last)
    BY DEF Hearing, WordsIn, Before, Upto
  <2>4. k \in Nat
    OBVIOUS
  <2> HIDE DEF s, e, first, last
  <2>5. PICK text \in HeardAt(SubSeq(Speech, s + 1, e), k, first, last) :
          heard[k] = Detokenize(Append(text, EOS))
    BY <1>2, <2>3
  <2>6. HeardOf(text, s, e, k, first, last)
    BY <1>1, <2>1, <2>2, <2>4, HeardIs
  <2>7. Detokenize(Append(text, EOS)) = text
    BY <1>1, <2>4, <2>6, HeardHasNoControls
  <2>8. HeardOf(heard[k], s, e, k, first, last)
    BY <2>5, <2>6, <2>7
  <2> QED BY <2>8 DEF s, e, first, last
<1> QED BY <1>1, <1>3, <1>4

\* The words of the audio come out of every long-form call once and in order, though every
\* window's ends may lose or mishear the word there, if the policy leaves the merge room
\* (asr_long_form.h:3-6).
THEOREM WordsRestored == DoorSpec => [](RoomToMerge(file.long) => MergeRestoresSpeech)
<1>1. TInv /\ SpeechInv => (RoomToMerge(file.long) => MergeRestoresSpeech)
  <2> SUFFICES ASSUME TInv, SpeechInv, RoomToMerge(file.long), phase = "done", ~Seeks, ~Quiet,
                      file.hears = "speech"
               PROVE  Words(Text) = Speech
    BY DEF MergeRestoresSpeech
  <2>1. samples \in Nat /\ LongType(file.long)
    BY FileTyped DEF TInv, CallInv
  <2>2. /\ Spread(plan, file.long) /\ heard \in Seq(Seq(Int)) /\ Len(heard) = Len(plan)
        /\ \A k \in 1 .. Len(plan) :
             HeardOf(heard[k], Before(plan, k), Upto(plan, k), k, k = 1, k = Len(plan))
    BY AllHeard
  <2>3. Words(Detokenize(MergeWindows(heard, file.long))) = Speech
    BY <2>1, <2>2, MergeIsSpeech
  <2> QED BY <2>3 DEF Text
<1> QED BY <1>1, TInvHolds, SpeechInvHolds, PTL
-----------------------------------------------------------------------------
(* The tail a seek keeps *)

LEMMA NoWords ==
    ASSUME NEW ids \in Seq(Int), \A k \in 1 .. Len(ids) : IsControl(ids[k])
    PROVE  Detokenize(ids) = << >>
<1>1. 0 \in 0 .. Len(ids) /\ \A k \in 1 .. Len(ids) : IsControl(ids[k]) <=> k > 0
  OBVIOUS
<1>2. Detokenize(ids) = SubSeq(ids, 1, 0)
  BY <1>1, DetokenizePlain
<1>3. SubSeq(ids, 1, 0) = << >>
  OBVIOUS
<1> QED BY <1>2, <1>3

LEMMA FlushEmpties ==
    ASSUME NEW w \in WalkType, NEW end, NEW closed
    PROVE  /\ Flush(w, end, closed).pending = << >>
           /\ (\A k \in 1 .. Len(w.pending) : IsControl(w.pending[k]))
                => Flush(w, end, closed).out = w.out
<1> DEFINE text == Detokenize(w.pending)
           s == [start |-> w.start, end |-> end, text |-> text, closed |-> closed]
           f == Flush(w, end, closed)
<1>1. w.pending \in Seq(Int)
      /\ w = [start |-> w.start, open |-> w.open, pending |-> w.pending,
              out |-> w.out, last_end |-> w.last_end]
  BY DEF WalkType
<1>2. f = IF text = << >> THEN [w EXCEPT !.pending = << >>]
          ELSE [w EXCEPT !.pending = << >>, !.out = Append(@, s),
                         !.last_end = IF closed THEN end ELSE @]
  BY DEF Flush
<1>3. (\A k \in 1 .. Len(w.pending) : IsControl(w.pending[k])) => text = << >>
  BY <1>1, NoWords
<1> HIDE DEF text, f, s
<1>4. CASE text = << >>
  <2>1. f = [start |-> w.start, open |-> w.open, pending |-> << >>,
             out |-> w.out, last_end |-> w.last_end]
    BY <1>1, <1>2, <1>4
  <2> QED BY <2>1 DEF f
<1>5. CASE text # << >>
  <2>1. f = [start |-> w.start, open |-> w.open, pending |-> << >>,
             out |-> Append(w.out, s),
             last_end |-> IF closed THEN end ELSE w.last_end]
    BY <1>1, <1>2, <1>5
  <2> QED BY <1>3, <1>5, <2>1 DEF f
<1> QED BY <1>4, <1>5

AllClosed(out) == \A i \in DOMAIN out : out[i].closed

LEMMA AppendClosed ==
    ASSUME NEW out \in Seq(SegmentType), AllClosed(out), NEW s \in SegmentType, s.closed
    PROVE  AllClosed(Append(out, s))
<1>1. /\ Len(out) \in Nat /\ DOMAIN out = 1 .. Len(out)
      /\ DOMAIN Append(out, s) = 1 .. Len(out) + 1
      /\ Append(out, s)[Len(out) + 1] = s
      /\ \A i \in 1 .. Len(out) : Append(out, s)[i] = out[i]
  BY AppendProperties
<1> DEFINE o == Append(out, s)
           n == Len(out)
<1> HIDE DEF o, n
<1>2. ASSUME NEW i \in 1 .. n + 1 PROVE o[i].closed
  <2>1. CASE i = n + 1
    BY <1>1, <2>1 DEF o, n
  <2>2. CASE i # n + 1
    <3>1. i \in 1 .. n
      BY <1>1, <2>2 DEF n
    <3> QED BY <1>1, <3>1 DEF o, n, AllClosed
  <2> QED BY <2>1, <2>2
<1> QED BY <1>1, <1>2 DEF AllClosed, o, n

IsWord(ids, k) == ids[k] < TsBase /\ ~IsControl(ids[k])

\* Of the first n tokens there is a word that no timestamp closes.
Loose(ids, n) ==
    \E k \in 1 .. n : /\ IsWord(ids, k)
                      /\ \A j \in k + 1 .. n, i \in 1 .. n :
                           i < j => ~(IsMark(ids, i) /\ IsMark(ids, j))

\* The walk closed what it put out, and has nothing pending but words that are loose.
Tidy(w, ids, n) ==
    /\ AllClosed(w.out)
    /\ w.open \/ \A i \in 1 .. n : ~IsMark(ids, i)
    /\ (\A k \in 1 .. Len(w.pending) : IsControl(w.pending[k])) \/ Loose(ids, n)

LEMMA StepTidy ==
    ASSUME NEW ids \in Seq(Int), NEW from \in Int, NEW n \in 1 .. Len(ids),
           NEW w \in WalkType, Tidy(w, ids, n - 1)
    PROVE  Tidy(WalkStep(ids, from, w, n), ids, n)
<1> DEFINE t == from + (ids[n] - TsBase) * TsStep
           m == WalkStep(ids, from, w, n)
<1>1. /\ w.pending \in Seq(Int) /\ w.out \in Seq(SegmentType) /\ w.open \in BOOLEAN
      /\ w = [start |-> w.start, open |-> w.open, pending |-> w.pending,
              out |-> w.out, last_end |-> w.last_end]
  BY DEF WalkType
<1>2. ids[n] \in Int /\ n \in Nat /\ n > 0
  OBVIOUS
<1>3. AllClosed(w.out)
  BY DEF Tidy
<1>4. CASE IsMark(ids, n)
  <2>1. t \in Int
    BY <1>2, TimeAssumption DEF TsBase
  <2>2. m = Mark(w, t)
    BY <1>4 DEF WalkStep, IsMark
  <2> HIDE DEF t, m
  <2>3. Marked(m, w, t)
    BY <2>1, <2>2, MarkIs
  <2>4. AllClosed(m.out)
    <3>1. CASE m.out = w.out
      BY <1>3, <3>1
    <3>2. CASE m.out # w.out
      <4>1. PICK s \in SegmentType : m.out = Append(w.out, s) /\ s.closed
        BY <2>3, <3>2 DEF Marked
      <4> QED BY <1>1, <1>3, <4>1, AppendClosed
    <3> QED BY <3>1, <3>2
  <2> DEFINE f == IF w.open THEN Flush(w, t, TRUE) ELSE w
  <2>5. f \in WalkType
    <3>1. Flush(w, t, TRUE) \in WalkType
      BY <2>1, FlushIs DEF Flushed
    <3> QED BY <3>1
  <2>6. m = [f EXCEPT !.start = t, !.open = TRUE]
    BY <2>2 DEF Mark
  <2>7. w.open => f.pending = << >>
    BY FlushEmpties
  <2>8. ~w.open => f.pending = w.pending
    OBVIOUS
  <2> HIDE DEF f
  <2>9. m.open /\ m.pending = f.pending
    BY <2>5, <2>6 DEF WalkType
  <2>10. CASE w.open
    <3>1. Len(m.pending) = 0
      BY <2>7, <2>9, <2>10
    <3> QED BY <2>4, <2>9, <3>1 DEF Tidy, m
  <2>11. CASE ~w.open
    <3>1. m.pending = w.pending /\ \A i \in 1 .. n - 1 : ~IsMark(ids, i)
      BY <2>8, <2>9, <2>11 DEF Tidy
    <3>2. ASSUME Loose(ids, n - 1) PROVE Loose(ids, n)
      <4>1. PICK k \in 1 .. n - 1 : IsWord(ids, k)
        BY <3>2 DEF Loose
      <4>2. k \in 1 .. n
        BY <1>2
      <4>3. ASSUME NEW j \in k + 1 .. n, NEW i \in 1 .. n, i < j PROVE ~IsMark(ids, i)
        <5>1. i \in 1 .. n - 1
          BY <1>2, <4>3
        <5> QED BY <3>1, <5>1
      <4> QED BY <4>1, <4>2, <4>3 DEF Loose
    <3>3. (\A k \in 1 .. Len(m.pending) : IsControl(m.pending[k])) \/ Loose(ids, n)
      BY <3>1, <3>2 DEF Tidy
    <3> QED BY <2>4, <2>9, <3>3 DEF Tidy, m
  <2> QED BY <2>10, <2>11
<1>5. CASE ~IsMark(ids, n)
  <2>1. m = [w EXCEPT !.pending = Append(@, ids[n])]
    BY <1>5 DEF WalkStep, IsMark
  <2> HIDE DEF m
  <2>2. m.open = w.open /\ m.out = w.out /\ m.pending = Append(w.pending, ids[n])
    BY <1>1, <2>1
  <2>3. w.open \/ \A i \in 1 .. n : ~IsMark(ids, i)
    <3>1. ASSUME ~w.open, NEW i \in 1 .. n PROVE ~IsMark(ids, i)
      <4>1. CASE i = n
        BY <1>5, <4>1
      <4>2. CASE i # n
        <5>1. i \in 1 .. n - 1
          BY <1>2, <4>2
        <5> QED BY <3>1, <5>1 DEF Tidy
      <4> QED BY <4>1, <4>2
    <3> QED BY <3>1
  <2>4. ASSUME Loose(ids, n - 1) PROVE Loose(ids, n)
    <3>1. PICK k \in 1 .. n - 1 :
            /\ IsWord(ids, k)
            /\ \A j \in k + 1 .. n - 1, i \in 1 .. n - 1 :
                 i < j => ~(IsMark(ids, i) /\ IsMark(ids, j))
      BY <2>4 DEF Loose
    <3>2. k \in 1 .. n
      BY <1>2
    <3>3. ASSUME NEW j \in k + 1 .. n, NEW i \in 1 .. n, i < j
          PROVE  ~(IsMark(ids, i) /\ IsMark(ids, j))
      <4>1. CASE j = n
        BY <1>5, <4>1
      <4>2. CASE j # n
        <5>1. j \in k + 1 .. n - 1 /\ i \in 1 .. n - 1
          BY <1>2, <3>3, <4>2
        <5> QED BY <3>1, <3>3, <5>1
      <4> QED BY <4>1, <4>2
    <3> QED BY <3>1, <3>2, <3>3 DEF Loose
  <2>5. ASSUME ~IsControl(ids[n]) PROVE Loose(ids, n)
    <3>1. IsWord(ids, n)
      BY <1>2, <1>5, <2>5 DEF IsWord, IsMark, TsBase
    <3>2. n \in 1 .. n /\ \A j \in n + 1 .. n : FALSE
      BY <1>2
    <3> QED BY <3>1, <3>2 DEF Loose
  <2>6. (\A k \in 1 .. Len(m.pending) : IsControl(m.pending[k])) \/ Loose(ids, n)
    <3> SUFFICES ASSUME ~Loose(ids, n), NEW k \in 1 .. Len(m.pending)
                 PROVE  IsControl(m.pending[k])
      OBVIOUS
    <3>1. IsControl(ids[n]) /\ \A l \in 1 .. Len(w.pending) : IsControl(w.pending[l])
      BY <2>4, <2>5 DEF Tidy
    <3> DEFINE p == w.pending
    <3>2. p \in Seq(Int) /\ m.pending = Append(p, ids[n])
      BY <1>1, <2>2
    <3> HIDE DEF p
    <3>3. Len(m.pending) = Len(p) + 1 /\ m.pending[Len(p) + 1] = ids[n] /\ Len(p) \in Nat
          /\ \A l \in 1 .. Len(p) : m.pending[l] = p[l]
      BY <1>2, <3>2
    <3>4. CASE k = Len(p) + 1
      BY <3>1, <3>3, <3>4
    <3>5. CASE k # Len(p) + 1
      <4>1. k \in 1 .. Len(p)
        BY <3>3, <3>5
      <4> QED BY <3>1, <3>3, <4>1 DEF p
    <3> QED BY <3>4, <3>5
  <2> QED BY <1>3, <2>2, <2>3, <2>6 DEF Tidy, m
<1> QED BY <1>4, <1>5

\* A decode that closes all it says leaves only closed segments.
LEMMA SplitIsClosed ==
    ASSUME NEW ids \in Seq(Int), NEW from \in Int, NEW to \in Int, ClosesAll(ids)
    PROVE  AllClosed(SplitIntoSegments(ids, from, to).out)
<1>1. PICK walk \in [0 .. Len(ids) -> WalkType] :
             /\ walk[0] = WalkStart(from)
             /\ \A k \in 1 .. Len(ids) : walk[k] = WalkStep(ids, from, walk[k - 1], k)
             /\ SplitIntoSegments(ids, from, to) = Flush(walk[Len(ids)], to, FALSE)
  BY SplitWalk
<1> DEFINE N == Len(ids)
           T == {n \in 0 .. N : Tidy(walk[n], ids, n)}
<1>2. N \in Nat /\ DOMAIN ids = 1 .. N
  OBVIOUS
<1>3. 0 \in T
  <2>1. walk[0].out = << >> /\ walk[0].pending = << >>
    BY <1>1 DEF WalkStart
  <2>2. Len(<< >>) = 0 /\ DOMAIN << >> = {}
    OBVIOUS
  <2>3. Tidy(walk[0], ids, 0)
    BY <2>1, <2>2 DEF Tidy, AllClosed
  <2> QED BY <1>2, <2>3
<1>4. ASSUME NEW n \in 1 .. N, n - 1 \in T PROVE n \in T
  <2>1. walk[n - 1] \in WalkType /\ Tidy(walk[n - 1], ids, n - 1)
    BY <1>4
  <2>2. walk[n] = WalkStep(ids, from, walk[n - 1], n)
    BY <1>1
  <2>3. Tidy(walk[n], ids, n)
    BY <2>1, <2>2, StepTidy
  <2> QED BY <2>3
<1>5. N \in T
  <2> HIDE DEF T
  <2>1. \A k \in 0 .. N : k \in T
    BY <1>2, <1>3, <1>4, CountsUp
  <2> QED BY <2>1, <1>2
<1> DEFINE w == walk[N]
<1>6. w \in WalkType /\ Tidy(w, ids, N) /\ SplitIntoSegments(ids, from, to) = Flush(w, to, FALSE)
  BY <1>1, <1>2, <1>5
<1> HIDE DEF w
<1>7. ~Loose(ids, N)
  <2> SUFFICES ASSUME Loose(ids, N) PROVE FALSE
    OBVIOUS
  <2>1. PICK k \in 1 .. N : /\ IsWord(ids, k)
                            /\ \A j \in k + 1 .. N, i \in 1 .. N :
                                 i < j => ~(IsMark(ids, i) /\ IsMark(ids, j))
    BY DEF Loose
  <2>2. PICK i \in 1 .. N, j \in 1 .. N :
          i < j /\ k < j /\ ids[i] >= TsBase /\ ids[j] >= TsBase
    BY <1>2, <2>1 DEF ClosesAll, IsWord
  <2>3. j \in k + 1 .. N
    BY <2>2
  <2> QED BY <2>1, <2>2, <2>3 DEF IsMark
<1>8. Flush(w, to, FALSE).out = w.out
  BY <1>6, <1>7, FlushEmpties DEF Tidy
<1> QED BY <1>6, <1>8 DEF Tidy

Timed == file.can_timestamp /\ WantTimestamps

\* Spans that follow one another, the last of them ending at or before `till`.
Gapped(segs, till) ==
    /\ \A i \in DOMAIN segs : segs[i].end <= till
    /\ \A i \in 2 .. Len(segs) : segs[i - 1].end <= segs[i].start

\* A seek without tails has closed all its segments, or they are the clips themselves.
TailInv ==
    NoTails => IF Timed THEN AllClosed(segments) ELSE Gapped(segments, seek * Ticks)

LEMMA SameAnswers ==
    ASSUME UNCHANGED inputs
    PROVE  NoTails' = NoTails /\ Timed' = Timed
<1>1. file' = file /\ Seeks' = Seeks /\ request' = request /\ samples' = samples
  BY SameCall DEF inputs
<1>2. \A ids : Monotone(ids)' = Monotone(ids) /\ ClosesAll(ids)' = ClosesAll(ids)
  BY <1>1 DEF Monotone, ClosesAll
<1>3. Timed' = Timed /\ WantTimestamps' = WantTimestamps
  BY <1>1 DEF Timed, WantTimestamps
<1> QED BY <1>1, <1>2, <1>3 DEF NoTails

LEMMA TailStays ==
    ASSUME TailInv, UNCHANGED <<inputs, segments, seek>>
    PROVE  TailInv'
<1>1. NoTails' = NoTails /\ Timed' = Timed /\ segments' = segments /\ seek' = seek
  BY SameAnswers
<1>2. AllClosed(segments)' = AllClosed(segments)
      /\ Gapped(segments, seek * Ticks)' = Gapped(segments, seek * Ticks)
  BY <1>1 DEF AllClosed, Gapped
<1> QED BY <1>1, <1>2 DEF TailInv

LEMMA ConcatClosed ==
    ASSUME NEW s \in Seq(SegmentType), NEW t \in Seq(SegmentType), AllClosed(s), AllClosed(t)
    PROVE  AllClosed(s \o t)
<1> DEFINE m == Len(s)
           n == Len(t)
           all == s \o t
<1>1. /\ m \in Nat /\ n \in Nat /\ DOMAIN s = 1 .. m /\ DOMAIN t = 1 .. n
      /\ DOMAIN all = 1 .. m + n
      /\ \A i \in 1 .. m + n : all[i] = IF i <= m THEN s[i] ELSE t[i - m]
  BY ConcatProperties, LenProperties
<1> HIDE DEF m, n, all
<1>2. ASSUME NEW i \in DOMAIN all PROVE all[i].closed
  <2>1. CASE i <= m
    <3>1. i \in 1 .. m
      BY <1>1, <2>1
    <3> QED BY <1>1, <2>1, <3>1 DEF AllClosed
  <2>2. CASE ~(i <= m)
    <3>1. i - m \in 1 .. n
      BY <1>1, <2>2
    <3> QED BY <1>1, <2>2, <3>1 DEF AllClosed
  <2> QED BY <2>1, <2>2
<1> QED BY <1>2 DEF AllClosed, all

LEMMA AppendGapped ==
    ASSUME NEW s \in Seq(SegmentType), NEW till \in Int, Gapped(s, till),
           NEW g \in SegmentType, till <= g.start, NEW after \in Int,
           till <= after, g.end <= after
    PROVE  Gapped(Append(s, g), after)
<1> DEFINE n == Len(s)
           all == Append(s, g)
<1>1. /\ n \in Nat /\ DOMAIN s = 1 .. n /\ Len(all) = n + 1 /\ DOMAIN all = 1 .. n + 1
      /\ all[n + 1] = g /\ \A i \in 1 .. n : all[i] = s[i]
      /\ \A i \in 1 .. n : s[i] \in SegmentType
  BY AppendProperties, LenProperties
<1>2. g.start \in Int /\ g.end \in Int
      /\ \A i \in 1 .. n : s[i].end \in Int /\ s[i].start \in Int
  BY <1>1 DEF SegmentType
<1> HIDE DEF n, all
<1>3. /\ \A i \in 1 .. n : s[i].end <= till
      /\ \A i \in 2 .. n : s[i - 1].end <= s[i].start
  BY <1>1 DEF Gapped, n
<1>4. ASSUME NEW i \in 1 .. n + 1 PROVE all[i].end <= after
  <2>1. CASE i = n + 1
    BY <1>1, <2>1
  <2>2. CASE i # n + 1
    <3>1. i \in 1 .. n
      BY <1>1, <2>2
    <3> QED BY <1>1, <1>2, <1>3, <3>1
  <2> QED BY <2>1, <2>2
<1>5. ASSUME NEW i \in 2 .. n + 1 PROVE all[i - 1].end <= all[i].start
  <2>1. i - 1 \in 1 .. n /\ all[i - 1] = s[i - 1]
    BY <1>1
  <2>2. CASE i = n + 1
    BY <1>1, <1>2, <1>3, <2>1, <2>2
  <2>3. CASE i # n + 1
    <3>1. i \in 2 .. n /\ i \in 1 .. n
      BY <1>1, <2>3
    <3> QED BY <1>1, <1>3, <2>1, <3>1
  <2> QED BY <2>2, <2>3
<1> QED BY <1>1, <1>4, <1>5 DEF Gapped, all

LEMMA TailDecoded == TInv /\ TailInv /\ DecodeClip => TailInv'
<1> SUFFICES ASSUME TInv, TailInv, DecodeClip, NoTails PROVE TailInv'
  <2>1. ASSUME TInv, TailInv, DecodeClip, ~NoTails PROVE TailInv'
    <3>1. NoTails' = NoTails
      BY <2>1, SameAnswers DEF DecodeClip
    <3> QED BY <2>1, <3>1 DEF TailInv
  <2> QED BY <2>1
<1> DEFINE avail == AtMost(file.clip, samples - seek)
           from == seek * Ticks
           to == (seek + avail) * Ticks
           next == Window(seek, avail, file.clip)
<1>1. /\ model \in DOMAIN Files /\ samples \in Nat /\ phase = "decode" /\ Seeks
      /\ UNCHANGED inputs /\ seek < samples
  BY DEF TInv, CallInv, DecodeClip
<1>2. SeekInv /\ SegmentsInv
  BY <1>1 DEF TInv
<1>3. file.clip \in Nat \ {0} /\ Ticks \in Nat \ {0}
  BY <1>1, StrideMoves
<1>4. seek \in Nat /\ segments \in Seq(SegmentType)
  BY <1>2 DEF SeekInv, SegmentsInv
<1>5. /\ avail \in Nat /\ seek + avail <= samples /\ avail <= file.clip
  BY <1>1, <1>3, <1>4 DEF AtMost
<1>6. from \in Nat /\ to \in Nat /\ next \in WindowType /\ Ends(next) <= samples
  <2> HIDE DEF avail
  <2>1. from \in Nat /\ to \in Nat
    BY <1>3, <1>4, <1>5
  <2> QED BY <1>3, <1>4, <1>5, <2>1 DEF Window, WindowType, Ends
<1>7. PICK ids \in Answers(next, 1, 1) : Sought(ids)
  BY ClipIsSought
<1>8. ids \in Seq(Int)
  <2> HIDE DEF next
  <2> QED BY <1>1, <1>6, <1>7, AnswersTyped
<1>9. /\ segments' = segments \o Cast(ids, from, to, Timed)
      /\ seek' = seek + Advance(LastClosed(ids, from, to, Timed), from)
  BY <1>7 DEF Sought, Timed
<1>10. NoTails' = NoTails /\ Timed' = Timed
  BY <1>1, SameAnswers
<1> HIDE DEF next, to, avail
<1>11. CASE Timed
  <2>1. ClosesAll(ids)
    <3>1. file.hears = "answers" /\ \A t \in file.answers : ClosesAll(t)
      BY <1>11 DEF NoTails, Timed
    <3>2. ids \in file.answers
      BY <1>7, <3>1 DEF Answers
    <3> QED BY <3>1, <3>2
  <2> DEFINE cast == Cast(ids, from, to, Timed)
  <2>2. cast \in Seq(SegmentType)
    BY <1>6, <1>8, CastTyped
  <2>3. cast = SplitIntoSegments(ids, from, to).out
    BY <1>11 DEF Cast
  <2>4. AllClosed(cast)
    <3>1. from \in Int /\ to \in Int
      BY <1>6
    <3> QED BY <1>8, <2>1, <2>3, <3>1, SplitIsClosed
  <2> HIDE DEF cast
  <2>5. AllClosed(segments)
    BY <1>11 DEF TailInv
  <2>6. AllClosed(segments \o cast)
    BY <1>4, <2>2, <2>4, <2>5, ConcatClosed
  <2>7. AllClosed(segments')
    BY <1>9, <2>6 DEF cast
  <2> QED BY <1>10, <1>11, <2>7 DEF TailInv
<1>12. CASE ~Timed
  <2> DEFINE g == [start |-> from, end |-> to, text |-> Detokenize(ids), closed |-> FALSE]
             after == seek' * Ticks
  <2>1. g \in SegmentType
    BY <1>6, <1>8, DetokenizeTyped DEF SegmentType
  <2>2. g.start = from /\ g.end = to
    OBVIOUS
  <2>3. Cast(ids, from, to, Timed) = << g >>
    BY <1>12 DEF Cast
  <2> HIDE DEF g
  <2>4. segments' = Append(segments, g)
    <3>1. Append(segments, g) = segments \o << g >>
      BY <1>4, <2>1, AppendIsConcat
    <3> QED BY <1>9, <2>3, <3>1
  <2>5. seek' = seek + file.clip
    <3>1. LastClosed(ids, from, to, Timed) = -1
      BY <1>12 DEF LastClosed
    <3> HIDE DEF from
    <3>2. ~(-1 > from)
      BY <1>6
    <3>3. Advance(-1, from) = file.clip
      BY <3>2 DEF Advance
    <3> QED BY <1>9, <3>1, <3>3
  <2>6. seek' \in Nat /\ seek <= seek + avail /\ seek + avail <= seek' /\ seek + avail \in Nat
    BY <1>3, <1>4, <1>5, <2>5
  <2>7. from <= to /\ to <= after /\ after \in Int
    <3>1. seek * Ticks <= (seek + avail) * Ticks /\ (seek + avail) * Ticks <= seek' * Ticks
      <4>1. /\ Ticks * seek <= Ticks * (seek + avail)
            /\ Ticks * (seek + avail) <= Ticks * seek'
        <5>1. Ticks \in Nat /\ seek \in Int /\ seek + avail \in Int /\ seek' \in Int
          BY <1>3, <1>4, <2>6
        <5> QED BY <2>6, <5>1, MulMono
      <4>2. /\ Ticks * seek = seek * Ticks /\ Ticks * seek' = seek' * Ticks
            /\ Ticks * (seek + avail) = (seek + avail) * Ticks
        BY <1>3, <1>4, <2>6
      <4> QED BY <4>1, <4>2
    <3>2. seek' * Ticks \in Int
      BY <1>3, <2>6
    <3> QED BY <3>1, <3>2 DEF to
  <2>8. Gapped(segments, from)
    BY <1>12 DEF TailInv
  <2> HIDE DEF after, from
  <2>9. Gapped(Append(segments, g), after)
    <3>1. from \in Int /\ from <= g.start /\ from <= after /\ g.end <= after
      BY <1>6, <2>2, <2>7
    <3> QED BY <1>4, <2>1, <2>7, <2>8, <3>1, AppendGapped
  <2>10. Gapped(segments, seek * Ticks)'
    BY <2>4, <2>9 DEF Gapped, after
  <2> QED BY <1>10, <1>12, <2>10 DEF TailInv
<1> QED BY <1>11, <1>12

LEMMA TailStep == TInv /\ TailInv /\ [DoorNext]_doorVars => TailInv'
<1> SUFFICES ASSUME TInv, TailInv, [DoorNext]_doorVars PROVE TailInv'
  OBVIOUS
<1>1. CASE UNCHANGED vars
  <2>1. UNCHANGED <<inputs, segments, seek>>
    BY <1>1 DEF vars, inputs
  <2> QED BY <2>1, TailStays
<1>2. CASE Finish
  <2>1. UNCHANGED inputs /\ ~Seeks
    BY <1>2 DEF Finish
  <2>2. ~NoTails'
    BY <2>1, SameAnswers DEF NoTails
  <2> QED BY <2>2 DEF TailInv
<1>3. CASE DecodeClip
  BY <1>3, TailDecoded
<1>4. CASE Resolve \/ CutAtQuiet \/ LastPiece \/ DecodeNext \/ FinishSeek \/ DriverThrows
  <2>1. UNCHANGED <<inputs, segments, seek>>
    BY <1>4 DEF Resolve, CutAtQuiet, LastPiece, DecodeNext, FinishSeek, DriverThrows
  <2> QED BY <2>1, TailStays
<1>5. CASE Next
  BY <1>2, <1>3, <1>4, <1>5 DEF Next
<1> QED BY <1>1, <1>5 DEF DoorNext, CallTranscribe, CallGenerate, doorVars

LEMMA TailInvHolds == DoorSpec => []TailInv
<1>1. DoorInit => TailInv
  <2> SUFFICES ASSUME DoorInit PROVE TailInv
    OBVIOUS
  <2>1. segments = << >>
    BY DEF DoorInit, Init, NoTranscription, Fresh
  <2>2. DOMAIN segments = {} /\ Len(segments) = 0
    BY <2>1
  <2> QED BY <2>2 DEF TailInv, AllClosed, Gapped
<1> QED BY <1>1, TInvHolds, TailStep, PTL DEF DoorSpec

\* No span of audio is kept twice by a seek that has no tail to keep: the model closes all
\* it says, or its answers are not split (transcribe.h:20-22).
THEOREM SpansOnce == DoorSpec => [](NoTails => NoSpanTwice)
<1>1. TInv /\ TailInv => (NoTails => NoSpanTwice)
  <2> SUFFICES ASSUME TInv, TailInv, NoTails, NEW i \in 2 .. Len(segments)
               PROVE  2 * (segments[i].start - segments[i - 1].end) >= -Ticks
    BY DEF NoSpanTwice
  <2>1. CASE phase = "resolve"
    <3>1. segments = << >>
      BY <2>1 DEF TInv, CallInv, Fresh
    <3> QED BY <3>1
  <2>2. CASE phase # "resolve"
    <3>1. SegmentsInv /\ Ticks \in Nat /\ model \in DOMAIN Files
      BY <2>2, TimeAssumption DEF NoTails, TInv, CallInv
    <3>2. /\ segments \in Seq(SegmentType) /\ DOMAIN segments = 1 .. Len(segments)
          /\ Len(segments) \in Nat
      BY <3>1, LenProperties DEF SegmentsInv
    <3>3. i \in DOMAIN segments /\ i - 1 \in DOMAIN segments /\ i - 1 < i
      BY <3>2
    <3>4. CASE Timed
      <4>1. segments[i].closed /\ segments[i - 1].closed
        BY <3>3, <3>4 DEF TailInv, AllClosed
      <4>2. Steady
        BY <3>4 DEF NoTails, Timed, Steady
      <4> QED BY <3>1, <3>3, <4>1, <4>2 DEF SegmentsInv
    <3>5. CASE ~Timed
      <4>1. segments[i - 1].end <= segments[i].start
        BY <3>5 DEF TailInv, Gapped
      <4>2. segments[i - 1].end \in Int /\ segments[i].start \in Int
        <5>1. segments[i - 1] \in SegmentType /\ segments[i] \in SegmentType
          BY <3>2, <3>3
        <5> QED BY <5>1 DEF SegmentType
      <4> QED BY <3>1, <4>1, <4>2
    <3> QED BY <3>4, <3>5
  <2> QED BY <2>1, <2>2
<1> QED BY <1>1, TInvHolds, TailInvHolds, PTL
=============================================================================
