------------------------ MODULE ComputeBuffer_proofs ------------------------
(***************************************************************************)
(* The compute buffer, for every window, factor and set of shapes.  The    *)
(* invariant ties the one counter the code keeps to the calls it stands    *)
(* for: counting back from the last completed call, the calls that under-  *)
(* used the live buffer are as many as the counter says, neither fewer     *)
(* (CountIsEarned) nor more (CountIsComplete).                             *)
(***************************************************************************)
EXTENDS ComputeBuffer, TLAPS

\* The k-th call, counting back from the last one.
Back(calls, k) == calls[Len(calls) + 1 - k]

Counted(e, b) == e.id = b.id /\ Underuses(e.need, b)

CallType == [need : Size, id : 0 .. allocs]

\* The counter is never ahead of the calls: a failed rebuild may count its own.
CountIsEarned ==
    Active => \A k \in 1 .. underused :
                 k < Window => k <= Len(recent) /\ Counted(Back(recent, k), buf)

\* Nor behind them.
CountIsComplete ==
    Active => \A j \in 1 .. Len(recent) :
                 (\A k \in 1 .. j : Counted(Back(recent, k), buf)) => j <= underused /\ j < Window

\* A count that reached the window has lost its graph; one without a buffer is zero.
CountIsSettled ==
    Active => /\ underused = Window => graph = NoGraph
              /\ buf.size = 0 => underused = 0

NothingWhileInactive == ~Active => recent = << >>

BufferHasIdentity == buf.size > 0 => buf.id > 0

IInv ==
    /\ TypeOK
    /\ GraphInLiveBuffer
    /\ NeedIsKnown
    /\ BufferHasIdentity
    /\ NothingWhileInactive
    /\ CountIsSettled
    /\ CountIsEarned
    /\ CountIsComplete

-----------------------------------------------------------------------------
(* Needs, sequences *)

\* A need is positive.
LEMMA NeedType ==
    ASSUME NEW s \in Shape
    PROVE  Need[s] \in Nat \ {0} /\ Need[s] \in Size
BY NeedAssumption DEF Size

\* So every size is a number.
LEMMA SizeType == Size \subseteq Nat
BY NeedAssumption DEF Size

\* A buffer not larger than a need is not under-used by it.
LEMMA NotUnderused ==
    ASSUME NEW s \in Shape, NEW b, b.size \in Nat, b.size <= Need[s]
    PROVE  ~Underuses(Need[s], b)
<1>1. Need[s] \in Nat /\ Need[s] > 0
  BY NeedType
<1>2. Factor \in Nat /\ Factor >= 2
  BY PolicyAssumption
<1>3. Need[s] * Factor >= Need[s] * 2
  BY <1>1, <1>2
<1> QED BY <1>1, <1>2, <1>3 DEF Underuses

\* The last Window calls after one more: it is the last, the others move back by one.
LEMMA Pushed ==
    ASSUME NEW S, NEW q \in Seq(S), NEW e \in S, Len(q) <= Window
    PROVE  LET r == LastCalls(Append(q, e)) IN
           /\ r \in Seq(S)
           /\ Len(r) = IF Len(q) = Window THEN Window ELSE Len(q) + 1
           /\ Back(r, 1) = e
           /\ \A k \in 1 .. Len(r) - 1 : Back(r, k + 1) = Back(q, k)
<1> DEFINE r == LastCalls(Append(q, e))
<1> SUFFICES /\ r \in Seq(S)
             /\ Len(r) = IF Len(q) = Window THEN Window ELSE Len(q) + 1
             /\ Back(r, 1) = e
             /\ \A k \in 1 .. Len(r) - 1 : Back(r, k + 1) = Back(q, k)
  OBVIOUS
<1>1. Window \in Nat /\ Window > 0 /\ Len(q) \in Nat
  BY PolicyAssumption
<1>2. /\ Append(q, e) \in Seq(S) /\ Len(Append(q, e)) = Len(q) + 1
      /\ Append(q, e)[Len(q) + 1] = e
      /\ \A i \in 1 .. Len(q) : Append(q, e)[i] = q[i]
  OBVIOUS
<1>3. CASE Len(q) = Window
  <2>1. r = Tail(Append(q, e))
    BY <1>1, <1>2, <1>3 DEF LastCalls
  <2> HIDE DEF r
  <2>2. /\ r \in Seq(S) /\ Len(r) = Len(q)
        /\ \A i \in 1 .. Len(q) : r[i] = Append(q, e)[i + 1]
    BY <1>1, <1>2, <1>3, <2>1
  <2>3. r[Len(r)] = e
    BY <1>1, <1>2, <1>3, <2>2
  <2>4. Back(r, 1) = e
    BY <1>1, <1>3, <2>2, <2>3 DEF Back
  <2>5. ASSUME NEW k \in 1 .. Len(r) - 1
        PROVE  Back(r, k + 1) = Back(q, k)
    <3>1. Len(r) - k \in 1 .. Len(q) /\ Len(r) - k + 1 \in 1 .. Len(q)
      BY <1>1, <2>2
    <3>2. r[Len(r) - k] = q[Len(r) - k + 1]
      BY <1>2, <2>2, <3>1
    <3>3. Len(r) + 1 - (k + 1) = Len(r) - k /\ Len(q) + 1 - k = Len(r) - k + 1
      BY <1>1, <2>2
    <3> QED BY <3>2, <3>3 DEF Back
  <2> QED BY <1>1, <1>3, <2>2, <2>4, <2>5
<1>4. CASE Len(q) # Window
  <2>1. r = Append(q, e)
    BY <1>1, <1>2, <1>4 DEF LastCalls
  <2> HIDE DEF r
  <2>2. Back(r, 1) = e
    BY <1>1, <1>2, <2>1 DEF Back
  <2>3. ASSUME NEW k \in 1 .. Len(r) - 1
        PROVE  Back(r, k + 1) = Back(q, k)
    <3>1. Len(r) - k = Len(q) + 1 - k /\ Len(r) - k \in 1 .. Len(q)
      BY <1>1, <1>2, <2>1
    <3>2. r[Len(r) - k] = q[Len(r) - k]
      BY <1>2, <2>1, <3>1
    <3> QED BY <1>1, <1>2, <2>1, <3>1, <3>2 DEF Back
  <2> QED BY <1>1, <1>2, <1>4, <2>1, <2>2, <2>3
<1> QED BY <1>3, <1>4
-----------------------------------------------------------------------------
(* What a completed call does to the calls remembered and to the count *)

\* The remembered calls keep their type, and the policy forgets them when it is off.
LEMMA RecentType ==
    ASSUME TypeOK, NEW s \in Shape, recent' = Remembered(s),
           allocs' \in Nat, allocs <= allocs', buf'.id \in 0 .. allocs'
    PROVE  /\ recent' \in Seq(CallType') /\ Len(recent') <= Window
           /\ ~Active => recent' = << >>
           /\ Active => /\ Len(recent') > 0
                        /\ Len(recent') =
                             IF Len(recent) = Window THEN Window ELSE Len(recent) + 1
                        /\ Back(recent', 1) = [need |-> Need[s], id |-> buf'.id]
                        /\ \A k \in 1 .. Len(recent') - 1 :
                             Back(recent', k + 1) = Back(recent, k)
<1> DEFINE e == [need |-> Need[s], id |-> buf'.id]
           T == CallType'
<1>1. Window \in Nat /\ Window > 0
  BY PolicyAssumption
<1>2. e \in T
  BY NeedType DEF CallType
<1>3. recent \in Seq(CallType) /\ Len(recent) <= Window
  BY DEF TypeOK, CallType
<1>4. CallType \subseteq T
  BY DEF CallType, TypeOK
<1>5. recent \in Seq(T)
  BY <1>3, <1>4
<1>6. CASE ~Active
  <2>1. recent' = << >>
    BY <1>6 DEF Remembered
  <2> QED BY <1>1, <1>6, <2>1
<1>7. CASE Active
  <2>1. recent' = LastCalls(Append(recent, e))
    BY <1>7 DEF Remembered
  <2> HIDE DEF e, T
  <2>2. /\ recent' \in Seq(T)
        /\ Len(recent') = IF Len(recent) = Window THEN Window ELSE Len(recent) + 1
        /\ Back(recent', 1) = e
        /\ \A k \in 1 .. Len(recent') - 1 : Back(recent', k + 1) = Back(recent, k)
    BY <1>2, <1>3, <1>5, <2>1, Pushed
  <2>5. Len(recent) \in Nat
    BY <1>3
  <2> QED BY <1>1, <1>3, <1>7, <2>2, <2>5 DEF e, T
<1> QED BY <1>6, <1>7

\* A call that needed the buffer ends the count, whatever buffer it is left with.
LEMMA CountEnds ==
    ASSUME IInv, Active, NEW s \in Shape, recent' = Remembered(s),
           allocs' \in Nat, allocs <= allocs', buf'.id \in 0 .. allocs',
           ~Underuses(Need[s], buf'), underused' = 0
    PROVE  CountIsEarned' /\ CountIsComplete'
<1>1. TypeOK
  BY DEF IInv
<1>2. Back(recent', 1) = [need |-> Need[s], id |-> buf'.id]
  BY <1>1, RecentType
<1>3. ~Counted(Back(recent', 1), buf')
  BY <1>2 DEF Counted
<1>4. CountIsEarned'
  BY DEF CountIsEarned
<1>5. ASSUME NEW j \in 1 .. Len(recent'), \A k \in 1 .. j : Counted(Back(recent', k), buf')
      PROVE  FALSE
  <2>1. 1 \in 1 .. j
    OBVIOUS
  <2> QED BY <1>3, <1>5, <2>1
<1> QED BY <1>4, <1>5 DEF CountIsComplete

\* One that did not, and did not complete a window, moves the count and the calls
\* together.
LEMMA CountMoves ==
    ASSUME IInv, Active, Active', NEW s \in Shape, recent' = Remembered(s),
           allocs' = allocs, buf' = buf,
           Underuses(Need[s], buf), underused' = underused + 1, underused + 1 < Window
    PROVE  CountIsEarned' /\ CountIsComplete'
<1>1. TypeOK
  BY DEF IInv
<1>2. Window \in Nat /\ underused \in Nat /\ allocs \in Nat /\ buf.id \in 0 .. allocs
      /\ Len(recent) \in Nat
  BY <1>1, PolicyAssumption DEF TypeOK
<1>3. /\ Len(recent') \in Nat /\ Len(recent') > 0
      /\ Len(recent') = IF Len(recent) = Window THEN Window ELSE Len(recent) + 1
      /\ Back(recent', 1) = [need |-> Need[s], id |-> buf'.id]
      /\ \A k \in 1 .. Len(recent') - 1 : Back(recent', k + 1) = Back(recent, k)
  BY <1>1, <1>2, RecentType
<1>4. Counted(Back(recent', 1), buf')
  BY <1>3 DEF Counted
<1>5. ASSUME NEW k \in 1 .. underused'
      PROVE  k <= Len(recent') /\ Counted(Back(recent', k), buf')
  <2>1. CASE k = 1
    BY <1>3, <1>4, <2>1
  <2>2. CASE k # 1
    <3>1. k - 1 \in 1 .. underused /\ k - 1 < Window
      BY <1>2, <2>2
    <3>2. k - 1 <= Len(recent) /\ Counted(Back(recent, k - 1), buf)
      BY <3>1 DEF IInv, CountIsEarned
    <3>3. k <= Len(recent')
      BY <1>2, <1>3, <3>2
    <3>4. Back(recent', (k - 1) + 1) = Back(recent, k - 1)
      BY <1>2, <1>3, <3>1, <3>3
    <3>5. (k - 1) + 1 = k
      BY <1>2
    <3> QED BY <3>2, <3>3, <3>4, <3>5
  <2> QED BY <2>1, <2>2
<1>6. ASSUME NEW j \in 1 .. Len(recent'), \A k \in 1 .. j : Counted(Back(recent', k), buf')
      PROVE  j <= underused' /\ j < Window
  <2>1. CASE j = 1
    BY <1>2, <2>1
  <2>2. CASE j # 1
    <3>1. j - 1 \in 1 .. Len(recent)
      BY <1>2, <1>3, <2>2, <1>1 DEF TypeOK
    <3>2. ASSUME NEW k \in 1 .. j - 1
          PROVE  Counted(Back(recent, k), buf)
      <4>1. k + 1 \in 1 .. j /\ k \in 1 .. Len(recent') - 1
        BY <1>3
      <4>2. Counted(Back(recent', k + 1), buf')
        BY <1>6, <4>1
      <4> QED BY <1>3, <4>1, <4>2
    <3>3. j - 1 <= underused
      BY <3>1, <3>2 DEF IInv, CountIsComplete
    <3> QED BY <1>2, <3>3
  <2> QED BY <2>1, <2>2
<1>7. CountIsEarned'
  BY <1>5 DEF CountIsEarned
<1> QED BY <1>6, <1>7 DEF CountIsComplete

-----------------------------------------------------------------------------
(* The invariant *)

\* A builder starts without a buffer and has made no calls.
LEMMA InitInv == Init => IInv
<1> SUFFICES ASSUME Init
             PROVE  IInv
  OBVIOUS
<1> USE DEF Init
<1>1. TypeOK
  <2>1. << >> \in Seq([need : Size, id : 0 .. allocs]) /\ Len(<< >>) <= Window
    BY PolicyAssumption
  <2>2. 0 \in Size /\ 0 \in 0 .. Window /\ 0 \in 0 .. 0
    BY PolicyAssumption DEF Size
  <2> QED BY <2>1, <2>2 DEF TypeOK, NoBuffer
<1>2. NeedIsKnown /\ GraphInLiveBuffer /\ BufferHasIdentity /\ NothingWhileInactive
  BY DEF NeedIsKnown, GraphInLiveBuffer, BufferHasIdentity, NothingWhileInactive, NoBuffer
<1>3. CountIsSettled /\ CountIsEarned /\ CountIsComplete
  BY PolicyAssumption DEF CountIsSettled, CountIsEarned, CountIsComplete, NoBuffer
<1> QED BY <1>1, <1>2, <1>3 DEF IInv

-----------------------------------------------------------------------------
(* The steps *)

\* The allocator keeps a buffer or replaces it by a new one that is larger.
LEMMA AllocatedType ==
    ASSUME TypeOK, BufferHasIdentity, NEW s \in Shape
    PROVE  LET b == Allocated(buf, Need[s]) IN
           /\ b \in [id : 1 .. allocs + 1, size : Size]
           /\ b.size \in Nat /\ Need[s] <= b.size /\ buf.size <= b.size
           /\ \/ b = buf
              \/ b.id = allocs + 1 /\ b.size = Need[s] /\ buf.size < Need[s] /\ b # buf
<1>1. Need[s] \in Nat /\ Need[s] > 0 /\ Need[s] \in Size /\ Size \subseteq Nat
  BY NeedType, SizeType
<1>2. /\ allocs \in Nat /\ buf.id \in 0 .. allocs /\ buf.size \in Size
      /\ buf = [id |-> buf.id, size |-> buf.size]
  BY DEF TypeOK
<1>3. CASE Need[s] <= buf.size
  <2>1. buf.id > 0
    BY <1>1, <1>2, <1>3 DEF BufferHasIdentity
  <2>2. Allocated(buf, Need[s]) = buf
    BY <1>3 DEF Allocated
  <2>3. buf \in [id : 1 .. allocs + 1, size : Size]
    BY <1>2, <2>1
  <2>4. buf.size \in Nat
    BY <1>1, <1>2
  <2> QED BY <1>3, <2>2, <2>3, <2>4
<1>4. CASE ~(Need[s] <= buf.size)
  <2> DEFINE b == [id |-> allocs + 1, size |-> Need[s]]
  <2>1. Allocated(buf, Need[s]) = b
    BY <1>4 DEF Allocated
  <2>2. b.id = allocs + 1 /\ b.size = Need[s] /\ b \in [id : 1 .. allocs + 1, size : Size]
    BY <1>1, <1>2
  <2>3. b # buf
    BY <1>2, <2>2
  <2>4. buf.size < Need[s] /\ buf.size <= Need[s]
    BY <1>1, <1>2, <1>4
  <2>5. b.size \in Nat /\ Need[s] <= b.size /\ buf.size <= b.size
    BY <1>1, <2>2, <2>4
  <2> HIDE DEF b
  <2> QED BY <2>1, <2>2, <2>3, <2>4, <2>5
<1> QED BY <1>3, <1>4

\* A graph held in a buffer is not the missing one.
LEMMA HoldingType ==
    ASSUME NEW s \in Shape, NEW n \in Nat, NEW b, b.id \in 1 .. n
    PROVE  /\ Holding(s, b) \in [id : 1 .. n, shape : Shape]
           /\ Holding(s, b) # NoGraph
           /\ Holding(s, b).id = b.id /\ Holding(s, b).shape = s
BY DEF Holding, NoGraph

\* A shrink leaves the graph in a buffer of exactly its need, and the count at zero.
LEMMA ShrinkInv ==
    ASSUME IInv, Active, NEW s \in Shape, Shrink(s), UNCHANGED <<reserved, held>>,
           recent' = Remembered(s)
    PROVE  IInv'
<1> USE DEF Shrink
<1>1. TypeOK /\ Active'
  BY DEF IInv, Active
<1>2. /\ Need[s] \in Nat /\ Need[s] > 0 /\ Need[s] \in Size /\ allocs \in Nat
      /\ Window \in Nat /\ Window > 0
  BY <1>1, NeedType, PolicyAssumption DEF TypeOK
<1>3. /\ buf' \in [id : 0 .. allocs', size : Size] /\ buf'.id \in 1 .. allocs'
      /\ buf'.size = Need[s] /\ allocs' \in Nat /\ allocs <= allocs'
  BY <1>2
<1>4. /\ graph' \in [id : 1 .. allocs', shape : Shape] /\ graph' # NoGraph
      /\ graph'.id = buf'.id /\ graph'.shape = s
  BY <1>3, HoldingType
<1>5. recent' \in Seq(CallType') /\ Len(recent') <= Window
  BY <1>1, <1>3, RecentType
<1>6. TypeOK'
  BY <1>1, <1>2, <1>3, <1>4, <1>5 DEF TypeOK, CallType
<1>7. CountIsEarned' /\ CountIsComplete'
  BY <1>2, <1>3, NotUnderused, CountEnds
<1>8. GraphInLiveBuffer' /\ NeedIsKnown' /\ BufferHasIdentity'
  BY <1>2, <1>3, <1>4 DEF GraphInLiveBuffer, NeedIsKnown, BufferHasIdentity
<1>9. CountIsSettled' /\ NothingWhileInactive'
  BY <1>1, <1>2, <1>3 DEF CountIsSettled, NothingWhileInactive
<1> QED BY <1>6, <1>7, <1>8, <1>9 DEF IInv

\* The calls and the count after a call that leaves the buffer alone, and that the
\* policy noted without a window being complete.
LEMMA NotedInv ==
    ASSUME IInv, Active, Active', NEW s \in Shape, recent' = Remembered(s),
           allocs' = allocs, buf' = buf, underused' = Noted(Need[s]), ~Due(Need[s])
    PROVE  CountIsEarned' /\ CountIsComplete' /\ underused' \in 0 .. Window - 1
<1>1. TypeOK
  BY DEF IInv
<1>2. /\ Window \in Nat /\ Window > 0 /\ underused \in Nat /\ allocs \in Nat
      /\ buf.id \in 0 .. allocs
  BY <1>1, PolicyAssumption DEF TypeOK
<1>3. CASE Underuses(Need[s], buf)
  <2>1. underused' = underused + 1 /\ underused + 1 < Window
    BY <1>2, <1>3 DEF Noted, Due
  <2> QED BY <1>2, <1>3, <2>1, CountMoves
<1>4. CASE ~Underuses(Need[s], buf)
  <2>1. underused' = 0
    BY <1>4 DEF Noted
  <2> QED BY <1>2, <1>4, <2>1, CountEnds
<1> QED BY <1>3, <1>4

\* The retained graph serves a call.
LEMMA ReuseInv ==
    ASSUME IInv, NEW s \in Shape, Reuse(s)
    PROVE  IInv'
<1> USE DEF Reuse
<1>1. /\ TypeOK /\ graph # NoGraph /\ graph.shape = s
      /\ allocs \in Nat /\ buf.id \in 0 .. allocs
  BY DEF IInv, HasGraph, TypeOK
<1>2. Active' = Active
  BY DEF Active
<1>3. recent' \in Seq(CallType') /\ Len(recent') <= Window
  BY <1>1, RecentType
<1>4. GraphInLiveBuffer' /\ NeedIsKnown' /\ BufferHasIdentity'
  BY <1>2 DEF IInv, GraphInLiveBuffer, NeedIsKnown, BufferHasIdentity
<1>5. CASE Active
  <2>1. cached_need = Need[s]
    BY <1>1, <1>5 DEF IInv, NeedIsKnown
  <2>2. CountIsEarned' /\ CountIsComplete' /\ underused' \in 0 .. Window - 1
    BY <1>2, <1>5, <2>1, NotedInv
  <2>3. underused' \in 0 .. Window /\ underused' # Window
    BY <2>2, PolicyAssumption
  <2>4. TypeOK'
    BY <1>1, <1>3, <2>3 DEF TypeOK, CallType
  <2>5. buf.size = 0 => underused' = 0
    BY <1>5 DEF Noted, Underuses
  <2> QED BY <1>2, <1>4, <1>5, <2>2, <2>3, <2>4, <2>5
          DEF IInv, CountIsSettled, NothingWhileInactive
<1>6. CASE ~Active
  <2>1. recent' = << >>
    BY <1>6 DEF Remembered
  <2>2. TypeOK'
    BY <1>1, <1>3, <1>6 DEF TypeOK, CallType
  <2> QED BY <1>2, <1>4, <1>6, <2>1, <2>2
          DEF IInv, CountIsSettled, NothingWhileInactive, CountIsEarned, CountIsComplete
<1> QED BY <1>5, <1>6

\* A rebuild that does not shrink: the buffer stays or grows.
LEMMA RebuildInv ==
    ASSUME IInv, NEW s \in Shape, Rebuild(s)
    PROVE  IInv'
<1> DEFINE probed == Active /\ buf.size > 0
           b == Allocated(buf, Need[s])
<1>1. TypeOK /\ BufferHasIdentity /\ Active' = Active /\ UNCHANGED <<reserved, held>>
      /\ recent' = Remembered(s)
  BY DEF IInv, Rebuild, Active
<1>2. /\ Need[s] \in Nat /\ Need[s] > 0 /\ Need[s] \in Size /\ allocs \in Nat
      /\ Window \in Nat /\ Window > 0 /\ buf.size \in Nat /\ buf.id \in 0 .. allocs
      /\ underused \in 0 .. Window
  <2>1. buf.size \in Size /\ buf.id \in 0 .. allocs /\ allocs \in Nat /\ underused \in 0 .. Window
    BY <1>1 DEF TypeOK
  <2>2. buf.size \in Nat
    BY <2>1, SizeType
  <2>3. Need[s] \in Nat /\ Need[s] > 0 /\ Need[s] \in Size
    BY NeedType
  <2> QED BY <2>1, <2>2, <2>3, PolicyAssumption
<1>3. CASE probed /\ Due(Need[s])
  BY <1>3, <1>1, ShrinkInv DEF Rebuild
<1>4. CASE ~(probed /\ Due(Need[s]))
  <2>1. /\ buf' = b /\ graph' = Holding(s, b)
        /\ cached_need' = IF probed THEN Need[s] ELSE b.size
        /\ underused' = IF probed THEN Noted(Need[s]) ELSE underused
        /\ allocs' = IF b = buf THEN allocs ELSE allocs + 1
    BY <1>4 DEF Rebuild
  <2>2. /\ b \in [id : 1 .. allocs + 1, size : Size]
        /\ b.size \in Nat /\ Need[s] <= b.size
        /\ \/ b = buf
           \/ b.id = allocs + 1 /\ b.size = Need[s] /\ buf.size < Need[s] /\ b # buf
    BY <1>1, AllocatedType
  <2> HIDE DEF b
  <2>3. /\ allocs' \in Nat /\ allocs <= allocs' /\ b.id \in 1 .. allocs'
        /\ b \in [id : 0 .. allocs', size : Size] /\ buf'.id \in 0 .. allocs'
    BY <1>2, <2>1, <2>2
  <2>4. /\ graph' \in [id : 1 .. allocs', shape : Shape] /\ graph' # NoGraph
        /\ graph'.id = b.id /\ graph'.shape = s
    BY <2>1, <2>3, HoldingType
  <2>5. recent' \in Seq(CallType') /\ Len(recent') <= Window
    BY <1>1, <2>3, RecentType
  <2>6. GraphInLiveBuffer' /\ BufferHasIdentity'
    BY <2>1, <2>2, <2>3, <2>4 DEF GraphInLiveBuffer, BufferHasIdentity
  <2>7. NeedIsKnown'
    <3>1. Active /\ ~probed => b.size = Need[s]
      BY <1>2, <2>2
    <3> QED BY <1>1, <2>1, <2>4, <3>1 DEF NeedIsKnown
  <2>8. NothingWhileInactive'
    BY <1>1 DEF NothingWhileInactive, Remembered
  <2>9. underused' \in 0 .. Window /\ CountIsSettled' /\ CountIsEarned' /\ CountIsComplete'
    <3>1. b.size # 0
      BY <1>2, <2>2
    <3>2. CASE ~Active
      BY <1>1, <1>2, <2>1, <2>8, <3>2
         DEF CountIsSettled, CountIsEarned, CountIsComplete
    <3>3. CASE Active /\ ~probed
      <4>1. underused' = 0
        BY <1>2, <2>1, <3>3 DEF IInv, CountIsSettled
      <4>2. b.size <= Need[s]
        BY <1>2, <2>2, <3>3
      <4>3. ~Underuses(Need[s], buf')
        BY <2>1, <2>2, <4>2, NotUnderused
      <4>4. CountIsEarned' /\ CountIsComplete'
        BY <1>1, <2>3, <3>3, <4>1, <4>3, CountEnds
      <4> QED BY <1>2, <4>1, <4>4 DEF CountIsSettled
    <3>4. CASE probed /\ b = buf
      <4>1. CountIsEarned' /\ CountIsComplete' /\ underused' \in 0 .. Window - 1
        BY <1>1, <1>4, <2>1, <3>4, NotedInv
      <4> QED BY <1>2, <2>1, <3>1, <4>1 DEF CountIsSettled
    <3>5. CASE probed /\ b # buf
      <4>1. ~Underuses(Need[s], buf) /\ ~Underuses(Need[s], buf')
        BY <1>2, <2>1, <2>2, <3>5, NotUnderused
      <4>2. underused' = 0
        BY <2>1, <3>5, <4>1 DEF Noted
      <4>3. CountIsEarned' /\ CountIsComplete'
        BY <1>1, <2>3, <3>5, <4>1, <4>2, CountEnds
      <4> QED BY <1>2, <4>2, <4>3 DEF CountIsSettled
    <3> QED BY <3>2, <3>3, <3>4, <3>5
  <2>10. TypeOK'
    <3>1. cached_need' \in Size
      BY <1>2, <2>1, <2>2
    <3> QED BY <1>1, <2>1, <2>3, <2>4, <2>5, <2>9, <3>1 DEF TypeOK, CallType
  <2> QED BY <2>6, <2>7, <2>8, <2>9, <2>10 DEF IInv
<1> QED BY <1>3, <1>4

\* A build that throws loses its graph; its own call may stay counted.
LEMMA BuildFailsInv ==
    ASSUME IInv, NEW s \in Shape, BuildFails(s)
    PROVE  IInv'
<1> USE DEF BuildFails
<1>1. TypeOK /\ Active' = Active
  BY DEF IInv, Active
<1>2. /\ Window \in Nat /\ Window > 0 /\ underused \in 0 .. Window
      /\ underused' \in {underused} \cup
           (IF Active /\ HasGraph(s) /\ Due(cached_need) THEN {Noted(cached_need)} ELSE {})
  BY <1>1, PolicyAssumption DEF TypeOK
<1>3. CASE underused' = underused
  BY <1>1, <1>3 DEF IInv, TypeOK, GraphInLiveBuffer, NeedIsKnown, BufferHasIdentity,
       NothingWhileInactive, CountIsSettled, CountIsEarned, CountIsComplete, Counted
<1>4. CASE underused' # underused
  <2>1. Active /\ HasGraph(s) /\ Due(cached_need) /\ underused' = Noted(cached_need)
    BY <1>2, <1>4
  <2>2. underused # Window
    BY <2>1 DEF IInv, CountIsSettled, HasGraph
  <2>3. underused' = Window /\ underused = Window - 1 /\ buf.size > 0
    BY <1>2, <2>1, <2>2 DEF Due, Noted, Underuses
  <2>4. CountIsEarned' /\ CountIsComplete'
    BY <1>1, <1>2, <2>1, <2>3 DEF IInv, CountIsEarned, CountIsComplete
  <2>5. TypeOK'
    BY <1>1, <1>2, <2>3 DEF TypeOK
  <2> QED BY <1>1, <2>1, <2>3, <2>4, <2>5 DEF IInv, TypeOK, GraphInLiveBuffer, NeedIsKnown,
       BufferHasIdentity, NothingWhileInactive, CountIsSettled
<1> QED BY <1>3, <1>4

\* Without a buffer nothing was under-used, and the count is zero while it matters.
LEMMA NoBufferCounts ==
    ASSUME buf' = NoBuffer, Active' => underused' = 0
    PROVE  CountIsEarned' /\ CountIsComplete'
<1>1. ASSUME NEW e PROVE ~Counted(e, buf')
  BY DEF Counted, Underuses, NoBuffer
<1>2. CountIsEarned'
  BY DEF CountIsEarned
<1>3. ASSUME NEW j \in 1 .. Len(recent'), \A k \in 1 .. j : Counted(Back(recent', k), buf')
      PROVE  FALSE
  <2>1. 1 \in 1 .. j
    OBVIOUS
  <2> QED BY <1>1, <1>3, <2>1
<1> QED BY <1>2, <1>3 DEF CountIsComplete

\* An allocation that is refused leaves neither buffer nor graph.
LEMMA AllocFailsInv ==
    ASSUME IInv, NEW s \in Shape, AllocFails(s)
    PROVE  IInv'
<1>1. /\ TypeOK /\ Active' = Active /\ buf' = NoBuffer /\ graph' = NoGraph
      /\ UNCHANGED <<cached_need, reserved, held, allocs, recent>>
      /\ underused' \in {0, underused} /\ (Active /\ buf.size > 0 => underused' = 0)
  BY DEF IInv, Active, AllocFails
<1>2. Active => underused' = 0
  <2>1. buf.size \in Nat
    BY <1>1, SizeType DEF TypeOK
  <2> QED BY <1>1, <2>1 DEF IInv, CountIsSettled
<1>3. CountIsEarned' /\ CountIsComplete'
  BY <1>1, <1>2, NoBufferCounts
<1>4. TypeOK'
  BY <1>1, PolicyAssumption DEF TypeOK, NoBuffer, Size
<1> QED BY <1>1, <1>2, <1>3, <1>4 DEF IInv, GraphInLiveBuffer, NeedIsKnown,
     BufferHasIdentity, NothingWhileInactive, CountIsSettled, NoBuffer, NoGraph

\* A hold, begun or ended, starts the count again.
LEMMA HoldComputeBufferInv ==
    ASSUME IInv, NEW hold \in BOOLEAN, HoldComputeBuffer(hold)
    PROVE  IInv'
<1> USE DEF HoldComputeBuffer
<1>1. TypeOK /\ recent' = << >> /\ Len(recent') = 0 /\ underused' = 0
  BY DEF IInv
<1>2. Active' => Active \/ graph' = NoGraph
  BY <1>1 DEF Active, TypeOK
<1>3. TypeOK'
  <2>1. 0 \in 0 .. Window
    BY PolicyAssumption
  <2>2. recent' \in Seq(CallType') /\ Len(recent') <= Window
    BY <1>1, PolicyAssumption
  <2> QED BY <1>1, <2>1, <2>2 DEF TypeOK, CallType
<1>4. CountIsSettled' /\ CountIsEarned' /\ CountIsComplete'
  BY <1>1, PolicyAssumption DEF CountIsSettled, CountIsEarned, CountIsComplete
<1> QED BY <1>1, <1>2, <1>3, <1>4 DEF IInv, GraphInLiveBuffer, NeedIsKnown,
     BufferHasIdentity, NothingWhileInactive

\* A release leaves neither buffer nor graph, nor a count.
LEMMA ReleaseComputeBufferInv ==
    ASSUME IInv, ReleaseComputeBuffer
    PROVE  IInv'
<1> USE DEF ReleaseComputeBuffer
<1>1. TypeOK /\ Active' = Active
  BY DEF IInv, Active
<1>2. CountIsEarned' /\ CountIsComplete'
  BY NoBufferCounts
<1>3. TypeOK'
  BY <1>1, PolicyAssumption DEF TypeOK, NoBuffer, Size
<1>4. CountIsSettled'
  BY PolicyAssumption DEF CountIsSettled
<1> QED BY <1>1, <1>2, <1>3, <1>4 DEF IInv, GraphInLiveBuffer, NeedIsKnown,
     BufferHasIdentity, NothingWhileInactive, NoBuffer

\* A reservation turns the policy off and leaves the decode graph in the buffer.
LEMMA ReserveInv ==
    ASSUME IInv, Reserve
    PROVE  IInv'
<1> DEFINE first == Allocated(buf, Need[Prefill])
           both == IF Need[Decode] <= first.size THEN first
                   ELSE [id |-> allocs + 1, size |-> Need[Decode]]
<1>1. TypeOK /\ BufferHasIdentity /\ ~Active' /\ recent' = << >>
  BY DEF IInv, Active, Reserve
<1>2. /\ Prefill \in Shape /\ Decode \in Shape /\ allocs \in Nat
      /\ Need[Decode] \in Nat /\ Need[Decode] > 0 /\ Need[Decode] \in Size
      /\ cached_need \in Size
  BY <1>1, ReserveAssumption, NeedType DEF TypeOK
<1>3. /\ first \in [id : 1 .. allocs + 1, size : Size] /\ first.size \in Nat
      /\ first = buf \/ first.id = allocs + 1
  BY <1>1, <1>2, AllocatedType
<1>4. /\ buf' = both /\ graph' = Holding(Decode, both)
      /\ cached_need' \in {cached_need, both.size}
      /\ allocs' = IF both = buf THEN allocs ELSE allocs + 1
      /\ UNCHANGED <<underused, held>> /\ reserved' = TRUE
  BY DEF Reserve
<1> HIDE DEF first
<1>5. /\ both \in [id : 1 .. allocs + 1, size : Size]
      /\ Need[Decode] <= both.size
  <2>1. CASE Need[Decode] <= first.size
    BY <1>3, <2>1
  <2>2. CASE ~(Need[Decode] <= first.size)
    BY <1>2, <2>2
  <2> QED BY <2>1, <2>2
<1> HIDE DEF both
<1>6. /\ allocs' \in Nat /\ both.id \in 1 .. allocs'
      /\ both \in [id : 0 .. allocs', size : Size]
  BY <1>1, <1>2, <1>4, <1>5 DEF TypeOK
<1>7. /\ graph' \in [id : 1 .. allocs', shape : Shape] /\ graph' # NoGraph
      /\ graph'.id = both.id /\ graph'.shape = Decode
  BY <1>2, <1>4, <1>6, HoldingType
<1>8. recent' \in Seq(CallType') /\ Len(recent') <= Window
  BY <1>1, PolicyAssumption
<1>9. TypeOK'
  BY <1>1, <1>2, <1>4, <1>5, <1>6, <1>7, <1>8 DEF TypeOK, CallType
<1> QED BY <1>1, <1>4, <1>5, <1>6, <1>7, <1>9 DEF IInv, GraphInLiveBuffer, NeedIsKnown,
     BufferHasIdentity, NothingWhileInactive, CountIsSettled, CountIsEarned, CountIsComplete

\* A reservation that fails turns it off as well and retains nothing.
LEMMA ReserveFailsInv ==
    ASSUME IInv, ReserveFails
    PROVE  IInv'
<1> DEFINE first == Allocated(buf, Need[Prefill])
<1>1. /\ TypeOK /\ BufferHasIdentity /\ ~Active' /\ recent' = << >>
      /\ reserved' = TRUE /\ graph' = NoGraph /\ UNCHANGED <<underused, held>>
      /\ buf' \in {buf, NoBuffer, first} /\ cached_need' \in {cached_need, first.size}
      /\ allocs' = IF buf' \in {buf, NoBuffer} THEN allocs ELSE allocs + 1
  BY DEF IInv, Active, ReserveFails
<1>2. first \in [id : 1 .. allocs + 1, size : Size]
  BY <1>1, ReserveAssumption, AllocatedType
<1> HIDE DEF first
<1>3. allocs \in Nat /\ 0 \in Size
  BY <1>1 DEF TypeOK, Size
<1>4. allocs' \in Nat /\ buf' \in [id : 0 .. allocs', size : Size]
  <2>1. CASE buf' \in {buf, NoBuffer}
    BY <1>1, <1>3, <2>1 DEF TypeOK, NoBuffer
  <2>2. CASE buf' \notin {buf, NoBuffer}
    BY <1>1, <1>2, <1>3, <2>2
  <2> QED BY <2>1, <2>2
<1>5. BufferHasIdentity'
  BY <1>1, <1>2, <1>3 DEF BufferHasIdentity, NoBuffer
<1>6. recent' \in Seq(CallType') /\ Len(recent') <= Window
  BY <1>1, PolicyAssumption
<1>7. TypeOK'
  BY <1>1, <1>2, <1>4, <1>6 DEF TypeOK, CallType
<1> QED BY <1>1, <1>5, <1>7 DEF IInv, GraphInLiveBuffer, NeedIsKnown,
     NothingWhileInactive, CountIsSettled, CountIsEarned, CountIsComplete

\* No step of a builder breaks the invariant.
LEMMA NextInv == IInv /\ [Next]_vars => IInv'
<1> SUFFICES ASSUME IInv, [Next]_vars
             PROVE  IInv'
  OBVIOUS
<1>1. ASSUME NEW s \in Shape, Reuse(s) PROVE IInv'
  BY <1>1, ReuseInv
<1>2. ASSUME NEW s \in Shape, ShrinkOnReuse(s) PROVE IInv'
  BY <1>2, ShrinkInv DEF ShrinkOnReuse
<1>3. ASSUME NEW s \in Shape, Rebuild(s) PROVE IInv'
  BY <1>3, RebuildInv
<1>4. ASSUME NEW s \in Shape, BuildFails(s) PROVE IInv'
  BY <1>4, BuildFailsInv
<1>5. ASSUME NEW s \in Shape, AllocFails(s) PROVE IInv'
  BY <1>5, AllocFailsInv
<1>6. ASSUME NEW hold \in BOOLEAN, HoldComputeBuffer(hold) PROVE IInv'
  BY <1>6, HoldComputeBufferInv
<1>7. CASE ReleaseComputeBuffer
  BY <1>7, ReleaseComputeBufferInv
<1>8. CASE Reserve
  BY <1>8, ReserveInv
<1>9. CASE ReserveFails
  BY <1>9, ReserveFailsInv
<1>10. CASE UNCHANGED vars
  BY <1>10 DEF vars, IInv, TypeOK, GraphInLiveBuffer, NeedIsKnown, BufferHasIdentity,
     NothingWhileInactive, CountIsSettled, CountIsEarned, CountIsComplete, Active, Counted
<1> QED BY <1>1, <1>2, <1>3, <1>4, <1>5, <1>6, <1>7, <1>8, <1>9, <1>10 DEF Next

-----------------------------------------------------------------------------
(* Theorems *)

\* The inductive invariant holds of every reachable state.
THEOREM InvariantHolds == Spec => []IInv
BY InitInv, NextInv, PTL DEF Spec

\* Every variable has its type, for every window: the count never passes it.
THEOREM TypeCorrect == Spec => []TypeOK
<1>1. IInv => TypeOK
  BY DEF IInv
<1> QED BY <1>1, InvariantHolds, PTL

\* The retained graph is always in the buffer that is live, and fits it.
THEOREM GraphStaysInBuffer == Spec => []GraphInLiveBuffer
<1>1. IInv => GraphInLiveBuffer
  BY DEF IInv
<1> QED BY <1>1, InvariantHolds, PTL

\* The policy never judges a retained graph by a need that is not its own.
THEOREM NeedStaysKnown == Spec => []NeedIsKnown
<1>1. IInv => NeedIsKnown
  BY DEF IInv
<1> QED BY <1>1, InvariantHolds, PTL

\* A window of calls that all under-used the live buffer never goes unanswered.
THEOREM UnderuseAnswered == Spec => []UnderuseIsAnswered
<1>1. ASSUME IInv
      PROVE  UnderuseIsAnswered
  <2> SUFFICES ASSUME Len(recent) = Window,
                      \A i \in 1 .. Window : recent[i].id = buf.id /\ Underuses(recent[i].need, buf)
               PROVE  FALSE
    BY DEF UnderuseIsAnswered
  <2>1. Window \in Nat /\ Window > 0
    BY PolicyAssumption
  <2>2. Active
    BY <1>1, <2>1 DEF IInv, NothingWhileInactive
  <2>3. \A k \in 1 .. Window : Counted(Back(recent, k), buf)
    BY <2>1 DEF Counted, Back
  <2>4. Window < Window
    BY <1>1, <2>1, <2>2, <2>3 DEF IInv, CountIsComplete
  <2> QED BY <2>1, <2>4
<1> QED BY <1>1, InvariantHolds, PTL

\* What a shrink is earned by: a whole window of remembered calls.
LEMMA ShrinkEarned ==
    ASSUME IInv, Active, NEW s \in Shape, recent' = Remembered(s), Due(Need[s]),
           allocs' \in Nat, allocs <= allocs', buf'.id \in 0 .. allocs'
    PROVE  /\ Len(recent') = Window
           /\ \A i \in 1 .. Window : recent'[i].need * Factor <= buf.size
<1>1. TypeOK
  BY DEF IInv
<1>2. /\ Window \in Nat /\ Window > 0 /\ underused \in Nat /\ Len(recent) \in Nat
      /\ Len(recent) <= Window
  BY <1>1, PolicyAssumption DEF TypeOK
<1>3. Underuses(Need[s], buf) /\ underused >= Window - 1
  BY <1>2 DEF Due, Noted
<1>4. /\ Len(recent') = IF Len(recent) = Window THEN Window ELSE Len(recent) + 1
      /\ Back(recent', 1) = [need |-> Need[s], id |-> buf'.id]
      /\ \A k \in 1 .. Len(recent') - 1 : Back(recent', k + 1) = Back(recent, k)
  BY <1>1, RecentType
<1>5. ASSUME NEW k \in 1 .. Window - 1
      PROVE  k <= Len(recent) /\ Underuses(Back(recent, k).need, buf)
  <2>1. k \in 1 .. underused /\ k < Window
    BY <1>2, <1>3
  <2> QED BY <2>1 DEF IInv, CountIsEarned, Counted
<1>6. Len(recent') = Window
  <2>1. Len(recent) >= Window - 1
    BY <1>2, <1>5
  <2> QED BY <1>2, <1>4, <2>1
<1>7. ASSUME NEW i \in 1 .. Window
      PROVE  Underuses(recent'[i].need, buf)
  <2>1. CASE i = Window
    <3>1. Back(recent', 1) = recent'[i]
      BY <1>2, <1>6, <2>1 DEF Back
    <3>2. recent'[i].need = Need[s]
      BY <1>4, <3>1
    <3> QED BY <1>3, <3>2
  <2>2. CASE i # Window
    <3> DEFINE k == Window - i
    <3>1. k \in 1 .. Window - 1
      BY <1>2, <2>2
    <3>2. Back(recent', k + 1) = recent'[i]
      BY <1>2, <1>6 DEF Back
    <3> HIDE DEF k
    <3>3. Back(recent', k + 1) = Back(recent, k)
      BY <1>4, <1>6, <3>1
    <3> QED BY <1>5, <3>1, <3>2, <3>3
  <2> QED BY <2>1, <2>2
<1> QED BY <1>6, <1>7 DEF Underuses

\* A buffer only gets smaller when the policy is on and a whole window of calls has
\* earned it.
THEOREM ShrinksAreEarned == Spec => ShrinkIsEarned
<1> DEFINE Earned == 0 < buf'.size /\ buf'.size < buf.size =>
                        /\ Active
                        /\ Len(recent') = Window
                        /\ \A i \in 1 .. Window : recent'[i].need * Factor <= buf.size
<1>1. ASSUME IInv, [Next]_vars
      PROVE  Earned \/ UNCHANGED vars
  <2>1. /\ TypeOK /\ BufferHasIdentity /\ buf.size \in Nat /\ allocs \in Nat
        /\ buf.id \in 0 .. allocs
    BY <1>1, SizeType DEF IInv, TypeOK
  <2>2. ASSUME buf' = buf PROVE Earned
    BY <2>1, <2>2
  <2>3. ASSUME buf' = NoBuffer PROVE Earned
    BY <2>3 DEF NoBuffer
  <2>4. ASSUME buf'.size \in Nat, buf.size <= buf'.size PROVE Earned
    BY <2>1, <2>4
  <2>5. ASSUME NEW s \in Shape, Active, Due(Need[s]), Shrink(s), recent' = Remembered(s)
        PROVE  Earned
    <3>1. allocs' \in Nat /\ allocs <= allocs' /\ buf'.id \in 0 .. allocs'
      BY <2>1, <2>5 DEF Shrink
    <3> QED BY <1>1, <2>5, <3>1, ShrinkEarned
  <2>6. ASSUME NEW s \in Shape, Reuse(s) PROVE Earned
    BY <2>2, <2>6 DEF Reuse
  <2>7. ASSUME NEW s \in Shape, ShrinkOnReuse(s) PROVE Earned
    <3>1. cached_need = Need[s]
      BY <1>1, <2>7 DEF IInv, NeedIsKnown, ShrinkOnReuse, HasGraph
    <3> QED BY <2>5, <2>7, <3>1 DEF ShrinkOnReuse
  <2>8. ASSUME NEW s \in Shape, Rebuild(s) PROVE Earned
    <3>1. CASE Active /\ buf.size > 0 /\ Due(Need[s])
      BY <2>5, <2>8, <3>1 DEF Rebuild
    <3>2. CASE ~(Active /\ buf.size > 0 /\ Due(Need[s]))
      <4>1. buf' = Allocated(buf, Need[s])
        BY <2>8, <3>2 DEF Rebuild
      <4>2. buf'.size \in Nat /\ buf.size <= buf'.size
        BY <2>1, <4>1, AllocatedType
      <4> QED BY <2>4, <4>2
    <3> QED BY <3>1, <3>2
  <2>9. ASSUME NEW s \in Shape, BuildFails(s) \/ AllocFails(s) PROVE Earned
    BY <2>2, <2>3, <2>9 DEF BuildFails, AllocFails
  <2>10. ASSUME NEW hold \in BOOLEAN, HoldComputeBuffer(hold) PROVE Earned
    BY <2>2, <2>10 DEF HoldComputeBuffer
  <2>11. CASE ReleaseComputeBuffer
    BY <2>3, <2>11 DEF ReleaseComputeBuffer
  <2>12. CASE Reserve
    <3> DEFINE first == Allocated(buf, Need[Prefill])
    <3>1. first.size \in Nat /\ buf.size <= first.size
      BY <2>1, ReserveAssumption, AllocatedType
    <3>2. Need[Decode] \in Nat
      BY ReserveAssumption, NeedType
    <3>3. buf' = IF Need[Decode] <= first.size THEN first
                 ELSE [id |-> allocs + 1, size |-> Need[Decode]]
      BY <2>12 DEF Reserve
    <3> HIDE DEF first
    <3>4. buf'.size \in Nat /\ buf.size <= buf'.size
      BY <2>1, <3>1, <3>2, <3>3
    <3> QED BY <2>4, <3>4
  <2>13. CASE ReserveFails
    <3>1. CASE buf' \in {buf, NoBuffer}
      BY <2>2, <2>3, <3>1
    <3>2. CASE buf' = Allocated(buf, Need[Prefill])
      <4>1. buf'.size \in Nat /\ buf.size <= buf'.size
        BY <2>1, <3>2, ReserveAssumption, AllocatedType
      <4> QED BY <2>4, <4>1
    <3> QED BY <2>13, <3>1, <3>2 DEF ReserveFails
  <2> HIDE DEF Earned
  <2> QED BY <1>1, <2>6, <2>7, <2>8, <2>9, <2>10, <2>11, <2>12, <2>13 DEF Next
<1>2. IInv /\ [Next]_vars => [Earned]_vars
  BY <1>1
<1> QED BY <1>2, InvariantHolds, PTL DEF Spec, ShrinkIsEarned

=============================================================================
