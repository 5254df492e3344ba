-------------------------------- MODULE Sums --------------------------------
(***************************************************************************)
(* Running sums of natural numbers: what the banner's parts take together,  *)
(* and where the frames of the host start.  They are defined recursively    *)
(* where they are used; that such a function exists and never decreases is  *)
(* shown here, by induction over a set of numbers.                          *)
(***************************************************************************)
EXTENDS Naturals, WellFoundedInduction, TLAPS

\* g is the running sum of a, from 0 on.
RunningSum(g, a, n) ==
  /\ g \in [0..n -> Nat] /\ g[0] = 0
  /\ \A k \in 1..n : g[k] = g[k - 1] + a[k]

Below == {pair \in Nat \X Nat : pair[1] < pair[2]}

LEMMA BelowWellFounded == IsWellFoundedOn(Below, Nat)
<1>1. OpToRel(<, Nat) = Below
  BY DEF OpToRel, Below
<1> QED BY <1>1, NatLessThanWellFounded

LEMMA LeastNumber ==
  ASSUME NEW T, T \subseteq Nat, T # {}
  PROVE  \E x \in T : \A y \in T : x <= y
<1>1. PICK x \in T : \A y \in T : ~(<<y, x>> \in Below)
  <2>1. \E x \in T : \A y \in T : ~(<<y, x>> \in Below)
    BY BelowWellFounded, WFMin
  <2> QED BY <2>1
<1>2. ASSUME NEW y \in T PROVE x <= y
  <2>1. x \in Nat /\ y \in Nat
    OBVIOUS
  <2>2. /\ <<y, x>> \in Nat \X Nat
        /\ <<y, x>>[1] = y /\ <<y, x>>[2] = x
    BY <2>1
  <2>3. ~(y < x)
    BY <1>1, <2>2 DEF Below
  <2> QED BY <2>1, <2>3
<1> QED BY <1>2

\* Induction over the natural numbers, for a set.
LEMMA Induction ==
  ASSUME NEW S, 0 \in S, \A n \in Nat : n \in S => n + 1 \in S
  PROVE  Nat \subseteq S
<1> SUFFICES ASSUME Nat \ S # {} PROVE FALSE
  OBVIOUS
<1>1. PICK x \in Nat \ S : \A y \in Nat \ S : x <= y
  BY LeastNumber
<1>2. x - 1 \in Nat /\ x - 1 \in S
  BY <1>1
<1> QED BY <1>1, <1>2

LEMMA SumExists ==
  ASSUME NEW N \in Nat, NEW a, \A k \in 1..N : a[k] \in Nat
  PROVE  \E g : RunningSum(g, a, N)
<1> DEFINE S == {n \in Nat : n <= N => \E g : RunningSum(g, a, n)}
<1>1. 0 \in S
  <2> DEFINE g == [k \in 0..0 |-> 0]
  <2>1. RunningSum(g, a, 0)
    BY DEF RunningSum
  <2> QED BY <2>1
<1>2. ASSUME NEW n \in Nat, n \in S, n + 1 <= N
      PROVE  \E g : RunningSum(g, a, n + 1)
  <2>1. PICK g : RunningSum(g, a, n)
    BY <1>2
  <2>2. n \in 0..n /\ g[n] \in Nat /\ a[n + 1] \in Nat
    BY <1>2, <2>1 DEF RunningSum
  <2> DEFINE h == [k \in 0..(n + 1) |-> IF k <= n THEN g[k] ELSE g[n] + a[n + 1]]
  <2>3. h \in [0..(n + 1) -> Nat] /\ h[0] = 0
    BY <2>1, <2>2 DEF RunningSum
  <2>4. ASSUME NEW k \in 1..(n + 1) PROVE h[k] = h[k - 1] + a[k]
    <3>1. k \in 0..(n + 1) /\ k - 1 \in 0..(n + 1) /\ k - 1 <= n
      OBVIOUS
    <3>2. CASE k <= n
      BY <2>1, <3>1, <3>2 DEF RunningSum
    <3>3. CASE k = n + 1
      BY <3>1, <3>3
    <3> QED BY <3>2, <3>3
  <2> HIDE DEF h
  <2>5. RunningSum(h, a, n + 1)
    BY <2>3, <2>4 DEF RunningSum
  <2> QED BY <2>5
<1>3. \A n \in Nat : n \in S => n + 1 \in S
  BY <1>2
<1> HIDE DEF S
<1>4. N \in S
  BY <1>1, <1>3, Induction
<1> QED BY <1>4 DEF S

LEMMA SumMonotone ==
  ASSUME NEW N \in Nat, NEW a, \A k \in 1..N : a[k] \in Nat,
         NEW g, RunningSum(g, a, N)
  PROVE  \A m, n \in 0..N : m <= n => g[m] <= g[n]
<1> SUFFICES ASSUME NEW m \in 0..N PROVE \A n \in 0..N : m <= n => g[m] <= g[n]
  OBVIOUS
<1>1. \A k \in 0..N : g[k] \in Nat
  BY DEF RunningSum
<1> DEFINE S == {n \in Nat : n <= N /\ m <= n => g[m] <= g[n]}
<1>2. 0 \in S
  BY <1>1
<1>3. ASSUME NEW n \in Nat, n \in S, n + 1 <= N, m <= n + 1
      PROVE  g[m] <= g[n + 1]
  <2>1. n \in 0..N /\ n + 1 \in 0..N /\ n + 1 \in 1..N /\ (n + 1) - 1 = n
    BY <1>3
  <2>2. g[n + 1] = g[n] + a[n + 1]
    BY <2>1 DEF RunningSum
  <2>3. g[n] <= g[n + 1]
    BY <1>1, <2>1, <2>2
  <2>4. CASE m = n + 1
    BY <1>1, <2>4
  <2>5. CASE m <= n
    <3>1. g[m] <= g[n]
      BY <1>3, <2>1, <2>5
    <3> QED BY <1>1, <2>1, <2>3, <3>1
  <2> QED BY <1>3, <2>4, <2>5
<1>4. \A n \in Nat : n \in S => n + 1 \in S
  BY <1>3
<1> HIDE DEF S
<1>5. Nat \subseteq S
  BY <1>2, <1>4, Induction
<1> QED BY <1>5 DEF S

\* The recursive definition and the running sum are the same thing.
LEMMA SumDefined ==
  ASSUME NEW N \in Nat, NEW a, \A k \in 1..N : a[k] \in Nat, NEW f
  PROVE  RunningSum(f, a, N) <=>
           f = [k \in 0..N |-> IF k = 0 THEN 0 ELSE f[k - 1] + a[k]]
<1>1. ASSUME RunningSum(f, a, N)
      PROVE  f = [k \in 0..N |-> IF k = 0 THEN 0 ELSE f[k - 1] + a[k]]
  <2>1. ASSUME NEW k \in 0..N
        PROVE  f[k] = IF k = 0 THEN 0 ELSE f[k - 1] + a[k]
    BY <1>1 DEF RunningSum
  <2>2. f = [k \in 0..N |-> f[k]]
    BY <1>1 DEF RunningSum
  <2> QED BY <2>1, <2>2
<1>2. ASSUME f = [k \in 0..N |-> IF k = 0 THEN 0 ELSE f[k - 1] + a[k]]
      PROVE  RunningSum(f, a, N)
  <2>1. /\ DOMAIN f = 0..N /\ f[0] = 0
        /\ \A k \in 1..N : f[k] = f[k - 1] + a[k]
    <3>1. \A k \in 0..N : f[k] = IF k = 0 THEN 0 ELSE f[k - 1] + a[k]
      BY <1>2
    <3>2. DOMAIN f = 0..N
      BY <1>2
    <3> QED BY <3>1, <3>2
  <2> DEFINE S == {n \in Nat : n <= N => f[n] \in Nat}
  <2>2. 0 \in S
    BY <2>1
  <2>3. ASSUME NEW n \in Nat, n \in S, n + 1 <= N
        PROVE  f[n + 1] \in Nat
    <3>1. n + 1 \in 1..N /\ (n + 1) - 1 = n
      BY <2>3
    <3> QED BY <2>1, <2>3, <3>1
  <2>4. \A n \in Nat : n \in S => n + 1 \in S
    BY <2>3
  <2> HIDE DEF S
  <2>5. \A k \in 0..N : f[k] \in Nat
    <3>1. Nat \subseteq S
      BY <2>2, <2>4, Induction
    <3> QED BY <3>1 DEF S
  <2>6. f = [k \in 0..N |-> f[k]]
    BY <1>2, <2>1
  <2> QED BY <2>1, <2>5, <2>6 DEF RunningSum
<1> QED BY <1>1, <1>2
=============================================================================
