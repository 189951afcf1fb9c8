-------------------------- MODULE StepAxes_proofs --------------------------
(***************************************************************************)
(* What the arithmetic of a step's axes guarantees for every capacity and  *)
(* every bucket: a step that fits reads a view that covers its sequence    *)
(* and stays in the store, its rows go to distinct cells of the store, and *)
(* a full ring's cells are exactly its last Capacity positions.            *)
(***************************************************************************)
EXTENDS StepAxes, TLAPS

\* Division with remainder, the form in which the other lemmas use it.
LEMMA DivMod ==
    ASSUME NEW a \in Nat, NEW k \in Nat \ {0}
    PROVE  /\ a = k * (a \div k) + (a % k)
           /\ (a % k) \in 0 .. k - 1
           /\ (a \div k) \in Nat
    OBVIOUS

\* A number below the divisor is its own remainder.
LEMMA ModSmall ==
    ASSUME NEW k \in Nat \ {0}, NEW a \in 0 .. k - 1
    PROVE  (a % k) = a
    OBVIOUS

\* Quotient and remainder are unique.
LEMMA DivModUnique ==
    ASSUME NEW k \in Nat \ {0}, NEW q \in Nat, NEW u \in Nat,
           NEW c \in 0 .. k - 1, NEW v \in 0 .. k - 1,
           k * q + c = k * u + v
    PROVE  q = u /\ c = v
<1>0. k * q \in Nat /\ k * u \in Nat
  OBVIOUS
<1>1. CASE u >= q + 1
  <2>1. k * (u - q - 1) \in Nat /\ k * u = k * q + k + k * (u - q - 1)
    BY <1>1
  <2> QED BY <1>0, <2>1
<1>2. CASE q >= u + 1
  <2>1. k * (q - u - 1) \in Nat /\ k * q = k * u + k + k * (q - u - 1)
    BY <1>2
  <2> QED BY <1>0, <2>1
<1>3. CASE q = u
  BY <1>0, <1>3
<1> QED BY <1>1, <1>2, <1>3

\* Adding a multiple of the divisor leaves the remainder alone.
LEMMA ModOf ==
    ASSUME NEW k \in Nat \ {0}, NEW q \in Nat, NEW c \in 0 .. k - 1
    PROVE  k * q + c \in Nat /\ ((k * q + c) % k) = c
<1> DEFINE p == k * q + c
           u == p \div k
           v == p % k
<1>1. p \in Nat
  OBVIOUS
<1>2. p = k * u + v /\ u \in Nat /\ v \in 0 .. k - 1
  BY <1>1, DivMod
<1> HIDE DEF u, v
<1>3. v = c
  BY <1>2, DivModUnique
<1> QED BY <1>1, <1>3 DEF v

\* Two numbers less than k apart with one remainder are one number.
LEMMA ModInjective ==
    ASSUME NEW k \in Nat \ {0}, NEW a \in Nat, NEW b \in Nat,
           a - b < k, b - a < k, (a % k) = (b % k)
    PROVE  a = b
<1> DEFINE q == a \div k
           r == b \div k
           c == a % k
<1>1. a = k * q + c /\ q \in Nat /\ c \in 0 .. k - 1
  BY DivMod
<1>2. b = k * r + c /\ r \in Nat
  BY DivMod
<1> HIDE DEF q, r, c
<1>3. CASE q = r
  BY <1>1, <1>2, <1>3
<1>4. CASE q >= r + 1
  <2>1. k * (q - r - 1) \in Nat /\ k * q = k * r + k + k * (q - r - 1)
    BY <1>1, <1>2, <1>4
  <2>2. k * r \in Nat
    BY <1>2
  <2> QED BY <1>1, <1>2, <2>1, <2>2
<1>5. CASE r >= q + 1
  <2>1. k * (r - q - 1) \in Nat /\ k * r = k * q + k + k * (r - q - 1)
    BY <1>1, <1>2, <1>5
  <2>2. k * q \in Nat
    BY <1>1
  <2> QED BY <1>1, <1>2, <2>1, <2>2
<1> QED BY <1>1, <1>2, <1>3, <1>4, <1>5

\* Every remainder is met in any k consecutive numbers.
LEMMA ModWitness ==
    ASSUME NEW k \in Nat \ {0}, NEW a \in Nat, a >= k - 1, NEW c \in 0 .. k - 1
    PROVE  \E p \in Nat : p > a - k /\ p <= a /\ (p % k) = c
<1> DEFINE q == a \div k
           r == a % k
<1>1. a = k * q + r /\ q \in Nat /\ r \in 0 .. k - 1
  BY DivMod
<1> HIDE DEF q, r
<1>2. CASE c <= r
  <2>1. k * q \in Nat
    BY <1>1
  <2>2. k * q + c > a - k /\ k * q + c <= a
    BY <1>1, <1>2, <2>1
  <2> QED BY <1>1, <2>2, ModOf
<1>3. CASE c > r
  <2>1. q - 1 \in Nat
    <3>1. CASE q = 0
      BY <1>1, <1>3, <3>1
    <3> QED BY <1>1, <3>1
  <2>2. k * (q - 1) \in Nat /\ k * q = k * (q - 1) + k
    BY <1>1, <2>1
  <2>3. k * (q - 1) + c > a - k /\ k * (q - 1) + c <= a
    BY <1>1, <1>3, <2>2
  <2> QED BY <2>1, <2>3, ModOf
<1> QED BY <1>1, <1>2, <1>3

\* Rounding up to a bucket never rounds down.
LEMMA RoundedUpCovers ==
    ASSUME NEW k \in Nat
    PROVE  RoundedUp(k) \in Nat /\ RoundedUp(k) >= k
<1> DEFINE a == k + Bucket - 1
           q == a \div Bucket
           r == a % Bucket
<1>1. a \in Nat /\ Bucket \in Nat \ {0}
  BY BucketAssumption
<1>2. a = Bucket * q + r /\ q \in Nat /\ r \in 0 .. Bucket - 1
  BY <1>1, DivMod
<1> HIDE DEF q, r
<1>3. Bucket * q \in Nat /\ Bucket * q >= k
  BY <1>1, <1>2
<1> QED BY <1>1, <1>2, <1>3 DEF RoundedUp, q

\* A step that fits is built at a length that covers its sequence and that the
\* store has.
LEMMA FittingLengths ==
    ASSUME NEW n \in Nat \ {0}, NEW past \in Nat, Fits(n, past)
    PROVE  /\ RealNKv(n, past) \in 1 .. Capacity
           /\ EffectiveNKv(n, past) \in 1 .. Capacity
           /\ RealNKv(n, past) <= EffectiveNKv(n, past)
<1>1. RealNKv(n, past) \in 1 .. Capacity
  BY CapacityAssumption, RingAssumption
     DEF Fits, Wraps, Overflows, RealNKv, RequestedNKv, Smaller
<1>2. RoundedUp(RealNKv(n, past)) \in Nat /\ RoundedUp(RealNKv(n, past)) >= RealNKv(n, past)
  BY <1>1, RoundedUpCovers
<1> QED BY <1>1, <1>2, CapacityAssumption DEF EffectiveNKv, Smaller

\* Every row of a step that fits goes to a cell of the store.
LEMMA RowsAreCells ==
    ASSUME NEW n \in Nat \ {0}, NEW past \in Nat, Fits(n, past), NEW i \in 0 .. n - 1
    PROVE  CellOf(past + i) \in Cell
<1>1. CASE Ring
  <2>1. past + i \in Nat
    OBVIOUS
  <2> QED BY <1>1, <2>1, DivMod, CapacityAssumption DEF CellOf, Cell
<1>2. CASE ~Ring
  BY <1>2, CapacityAssumption DEF Fits, Overflows, RequestedNKv, CellOf, Cell
<1> QED BY <1>1, <1>2, RingAssumption

\* Positions less than a capacity apart never share a cell.
LEMMA CellOfInjective ==
    ASSUME NEW p \in Nat, NEW r \in Nat, p - r < Capacity, r - p < Capacity,
           CellOf(p) = CellOf(r)
    PROVE  p = r
<1>1. CASE Ring
  BY <1>1, ModInjective, CapacityAssumption DEF CellOf
<1>2. CASE ~Ring
  BY <1>2 DEF CellOf
<1> QED BY <1>1, <1>2, RingAssumption

\* Below the capacity a position is its own cell, ring or not.
LEMMA CellOfSmall ==
    ASSUME NEW p \in Cell
    PROVE  CellOf(p) = p
  BY ModSmall, CapacityAssumption DEF CellOf, Cell

\* A step that fits has fewer rows than the store has cells, or as many.
LEMMA FewRows ==
    ASSUME NEW n \in Nat \ {0}, NEW past \in Nat, Fits(n, past)
    PROVE  n <= Capacity
  BY CapacityAssumption, RingAssumption DEF Fits, Wraps, Overflows, RequestedNKv
=============================================================================
