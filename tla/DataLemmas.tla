----------------------------- MODULE DataLemmas -----------------------------
(***************************************************************************)
(* The lemmas about data that the proofs of several components rest on.    *)
(* Induction on the natural numbers comes first, without an operator       *)
(* parameter; then what it says of the models' folds (a fold over a        *)
(* sequence is the last of a series of intermediate results), of loops     *)
(* that end, of the shares of Allocation, of counting, of the sorts,       *)
(* of sequences put one after the other, and of encodings.                 *)
(***************************************************************************)
EXTENDS Allocation, Sorting, TLAPS, FunctionTheorems, FiniteSetTheorems

(* Every non-empty set of naturals has a least member.                     *)
LEMMA NatLeast ==
  ASSUME NEW T \in SUBSET Nat, T # {}
  PROVE  \E x \in T : \A y \in T : x <= y
<1>. DEFINE R == OpToRel(<, Nat)
<1>1. IsWellFoundedOn(R, Nat)
  BY NatLessThanWellFounded, Zenon
<1>2. \A a, b \in Nat : a < b => <<a, b>> \in R
  BY Zenon DEF OpToRel
<1>. HIDE DEF R
<1>3. PICK x \in T : \A y \in T : ~(<<y, x>> \in R)
  BY <1>1, WFMin
<1>4. \A y \in T : ~(y < x)
  BY <1>2, <1>3
<1>. QED BY <1>4

(* A set of naturals with 0 and every successor has them all.              *)
LEMMA NatStep ==
  ASSUME NEW S \in SUBSET Nat, 0 \in S, \A n \in S : n + 1 \in S
  PROVE  S = Nat
<1>. SUFFICES ASSUME S # Nat PROVE FALSE
  OBVIOUS
<1>. DEFINE T == Nat \ S
<1>1. T \in SUBSET Nat /\ T # {}
  OBVIOUS
<1>. HIDE DEF T
<1>2. PICK x \in T : \A y \in T : x <= y
  BY <1>1, NatLeast
<1>3. x \in Nat /\ x \notin S /\ x # 0
  BY <1>2 DEF T
<1>4. x - 1 \in S
  BY <1>2, <1>3 DEF T
<1>. QED BY <1>3, <1>4

----------------------------------------------------------------------------
(* The greatest of the positions a fold still has before it: Max, by a     *)
(* name that does not depend on how a module comes by Max.                 *)
Greatest(t) == CHOOSE x \in t : \A y \in t : x >= y

LEMMA GreatestIsLast ==
  ASSUME NEW k \in Nat, NEW t \in SUBSET (1..k + 1), k + 1 \in t
  PROVE  Greatest(t) = k + 1
<1>1. \A x \in t : (\A y \in t : x >= y) => x = k + 1
  OBVIOUS
<1>2. \A y \in t : k + 1 >= y
  OBVIOUS
<1>. QED BY <1>1, <1>2 DEF Greatest

(* A set of positions has a greatest.                                      *)
LEMMA GreatestIn ==
  ASSUME NEW n \in Nat, NEW t \in SUBSET (1..n), t # {}
  PROVE  Greatest(t) \in t /\ \A y \in t : Greatest(t) >= y
<1>. DEFINE T == {m \in Nat : \A x \in t : x <= m}
<1>1. T \in SUBSET Nat /\ n \in T
  OBVIOUS
<1>2. PICK m \in T : \A y \in T : m <= y
  <2>. HIDE DEF T
  <2>. QED BY <1>1, NatLeast
<1>3. m \in t
  <2>1. CASE m = 0
    <3>1. PICK x \in t : TRUE
      OBVIOUS
    <3>2. x <= m /\ x \in Nat /\ x >= 1
      BY <3>1
    <3>. QED BY <2>1, <3>2
  <2>2. CASE m # 0
    <3>1. m - 1 \in Nat /\ m - 1 \notin T
      BY <1>2, <2>2
    <3>2. PICK x \in t : ~(x <= m - 1)
      BY <3>1
    <3>. QED BY <3>2
  <2>. QED BY <2>1, <2>2
<1>4. \A x \in t : m >= x
  OBVIOUS
<1>. QED BY <1>3, <1>4 DEF Greatest

LEMMA MaxIn ==
  ASSUME NEW n \in Nat, NEW t \in SUBSET (1..n), t # {}
  PROVE  Max(t) \in t /\ \A y \in t : Max(t) >= y
<1>1. Max(t) = Greatest(t)
  BY DEF Max, Greatest
<1>. QED BY <1>1, GreatestIn

(* The recursion of a fold over n positions has a solution: `step` takes a *)
(* position and the result so far.                                         *)
FoldEquation(f, n, base, step) ==
  \A t \in SUBSET (1..n) :
    f[t] = IF t = {} THEN base ELSE step[Greatest(t), f[t \ {Greatest(t)}]]

Foldable(V, n, base, step) ==
  \E f \in [SUBSET (1..n) -> V] : FoldEquation(f, n, base, step)

LEMMA FoldExists ==
  ASSUME NEW V, NEW base \in V, NEW n \in Nat,
         NEW step \in [(1..n) \X V -> V]
  PROVE  Foldable(V, n, base, step)
<1>. DEFINE S == {k \in Nat : k <= n => Foldable(V, k, base, step)}
<1>1. Foldable(V, 0, base, step)
  <2>. DEFINE f == [t \in SUBSET (1..0) |-> base]
  <2>1. \A t \in SUBSET (1..0) : t = {}
    OBVIOUS
  <2>2. f \in [SUBSET (1..0) -> V]
    OBVIOUS
  <2>3. FoldEquation(f, 0, base, step)
    BY <2>1 DEF FoldEquation
  <2>. HIDE DEF f
  <2>. QED BY <2>2, <2>3 DEF Foldable
<1>2. ASSUME NEW k \in Nat, Foldable(V, k, base, step), k + 1 <= n
      PROVE  Foldable(V, k + 1, base, step)
  <2>1. PICK f \in [SUBSET (1..k) -> V] : FoldEquation(f, k, base, step)
    BY <1>2 DEF Foldable
  <2>. DEFINE g == [t \in SUBSET (1..k + 1) |->
                      IF k + 1 \in t THEN step[k + 1, f[t \ {k + 1}]] ELSE f[t]]
  <2>3. \A t \in SUBSET (1..k + 1) : /\ t \ {k + 1} \in SUBSET (1..k)
                                     /\ k + 1 \notin t => t \in SUBSET (1..k)
    OBVIOUS
  <2>4. g \in [SUBSET (1..k + 1) -> V]
    <3>1. ASSUME NEW t \in SUBSET (1..k + 1)
          PROVE  (IF k + 1 \in t THEN step[k + 1, f[t \ {k + 1}]] ELSE f[t]) \in V
      <4>1. k + 1 \in 1..n
        BY <1>2
      <4>2. f[t \ {k + 1}] \in V /\ (k + 1 \notin t => f[t] \in V)
        BY <2>3
      <4>. QED BY <4>1, <4>2
    <3>. QED BY <3>1
  <2>5. ASSUME NEW t \in SUBSET (1..k + 1)
        PROVE  g[t] = IF t = {} THEN base ELSE step[Greatest(t), g[t \ {Greatest(t)}]]
    <3>1. CASE k + 1 \in t
      <4>1. Greatest(t) = k + 1 /\ g[t] = step[k + 1, f[t \ {k + 1}]]
        BY <3>1, GreatestIsLast
      <4>2. g[t \ {k + 1}] = f[t \ {k + 1}]
        OBVIOUS
      <4>. QED BY <3>1, <4>1, <4>2
    <3>2. CASE k + 1 \notin t /\ t # {}
      <4>1. t \in SUBSET (1..k) /\ g[t] = f[t]
        BY <2>3, <3>2
      <4>2. f[t] = step[Greatest(t), f[t \ {Greatest(t)}]]
        BY <2>1, <3>2, <4>1 DEF FoldEquation
      <4>3. g[t \ {Greatest(t)}] = f[t \ {Greatest(t)}]
        BY <3>2
      <4>. QED BY <3>2, <4>1, <4>2, <4>3
    <3>3. CASE t = {}
      <4>1. t \in SUBSET (1..k) /\ g[t] = f[t]
        BY <3>3
      <4>. QED BY <2>1, <3>3, <4>1 DEF FoldEquation
    <3>. QED BY <3>1, <3>2, <3>3
  <2>6. FoldEquation(g, k + 1, base, step)
    BY <2>5 DEF FoldEquation
  <2>. HIDE DEF g
  <2>. QED BY <2>4, <2>6 DEF Foldable
<1>3. S \in SUBSET Nat /\ 0 \in S /\ \A k \in S : k + 1 \in S
  <2>1. ASSUME NEW k \in S PROVE k + 1 \in S
    BY <1>2
  <2>. QED BY <1>1, <2>1
<1>4. S = Nat
  <2>. HIDE DEF S
  <2>. QED BY <1>3, NatStep
<1>. QED BY <1>4

(* What is left of the first k positions is the first k - 1.               *)
LEMMA PrefixStep ==
  ASSUME NEW n \in Nat, NEW k \in 1..n
  PROVE  /\ 1..k \in SUBSET (1..n) /\ 1..k # {}
         /\ Greatest(1..k) = k /\ (1..k) \ {k} = 1..k - 1
<1>1. 1..k \in SUBSET (1..n) /\ 1..k # {} /\ k \in 1..k /\ (1..k) \ {k} = 1..k - 1
  OBVIOUS
<1>2. k - 1 \in Nat /\ (k - 1) + 1 = k /\ 1..k \in SUBSET (1..(k - 1) + 1)
  OBVIOUS
<1>. QED BY <1>1, <1>2, GreatestIsLast

(* A fold has a solution: that of the step as a function.                  *)
FoldSolution(h, s, base, step) ==
  \A t \in SUBSET (1..Len(s)) :
    /\ t # {} => Max(t) \in 1..Len(s)
    /\ h[t] = IF t = {} THEN base ELSE step[h[t \ {Max(t)}], s[Max(t)]]

LEMMA FoldSolves ==
  ASSUME NEW V, NEW W, NEW base \in V, NEW s \in Seq(W), NEW step \in [V \X W -> V]
  PROVE  \E h \in [SUBSET (1..Len(s)) -> V] : FoldSolution(h, s, base, step)
<1>. DEFINE n == Len(s)
            turned == [p \in (1..n) \X V |-> step[p[2], s[p[1]]]]
<1>1. n \in Nat /\ \A i \in 1..n : s[i] \in W
  OBVIOUS
<1>. HIDE DEF n
<1>2. \A t : Max(t) = Greatest(t)
  BY DEF Max, Greatest
<1>3. /\ turned \in [(1..n) \X V -> V]
      /\ \A i \in 1..n, v \in V : turned[i, v] = step[v, s[i]]
  BY <1>1
<1>. HIDE DEF turned
<1>4. PICK h \in [SUBSET (1..n) -> V] : FoldEquation(h, n, base, turned)
  BY <1>1, <1>3, FoldExists DEF Foldable
<1>5. ASSUME NEW t \in SUBSET (1..n)
      PROVE  /\ t # {} => Max(t) \in 1..n
             /\ h[t] = IF t = {} THEN base ELSE step[h[t \ {Max(t)}], s[Max(t)]]
  <2>1. CASE t # {}
    <3>1. Max(t) \in 1..n /\ t \ {Max(t)} \in SUBSET (1..n)
      BY <1>1, <1>2, <2>1, GreatestIn
    <3>2. h[t] = turned[Max(t), h[t \ {Max(t)}]]
      BY <1>2, <1>4, <2>1 DEF FoldEquation
    <3>3. h[t \ {Max(t)}] \in V
      BY <3>1
    <3>. QED BY <1>3, <2>1, <3>1, <3>2, <3>3
  <2>2. CASE t = {}
    BY <1>4, <2>2 DEF FoldEquation
  <2>. QED BY <2>1, <2>2
<1>6. FoldSolution(h, s, base, step)
  BY <1>5 DEF FoldSolution, n
<1>. QED BY <1>4, <1>6 DEF n

(* What the solution is for the first k positions.                         *)
LEMMA PrefixMax ==
  ASSUME NEW n \in Nat, NEW k \in 1..n
  PROVE  /\ 1..k \in SUBSET (1..n) /\ 1..k # {}
         /\ Max(1..k) = k /\ (1..k) \ {k} = 1..k - 1
<1>1. Max(1..k) = Greatest(1..k)
  BY DEF Max, Greatest
<1>. QED BY <1>1, PrefixStep

LEMMA MemberIn ==
  ASSUME NEW V, NEW s \in Seq(V)
  PROVE  Len(s) \in Nat /\ DOMAIN s = 1..Len(s) /\ \A i \in 1..Len(s) : s[i] \in V
  OBVIOUS

----------------------------------------------------------------------------
(* A loop that ends is a function.  Its states are D; it goes on from      *)
(* those of `goes` to the next, each time with a smaller measure.          *)
Loops(f, D, goes, next) ==
  \A s \in D : f[s] = IF s \in goes THEN f[next[s]] ELSE s

Ends(D, measure, goes, next) ==
  /\ measure \in [D -> Nat]
  /\ goes \in SUBSET D /\ next \in [goes -> D]
  /\ \A s \in goes : measure[next[s]] < measure[s]

Measured(D, measure, k) == {s \in D : measure[s] <= k}

LEMMA LoopUpTo ==
  ASSUME NEW D, NEW measure, NEW goes, NEW next, Ends(D, measure, goes, next),
         NEW k \in Nat
  PROVE  \E f \in [Measured(D, measure, k) -> D] :
           Loops(f, Measured(D, measure, k), goes, next)
<1>. DEFINE W(i) == Measured(D, measure, i)
            P(i) == \E f \in [W(i) -> D] : Loops(f, W(i), goes, next)
            S == {i \in Nat : P(i)}
<1>1. P(0)
  <2>. DEFINE f == [s \in W(0) |-> s]
  <2>1. \A s \in W(0) : s \in D /\ s \notin goes
    BY DEF Measured, Ends
  <2>2. f \in [W(0) -> D] /\ Loops(f, W(0), goes, next)
    BY <2>1 DEF Loops
  <2>. QED BY <2>2
<1>2. ASSUME NEW i \in Nat, P(i) PROVE P(i + 1)
  <2>1. PICK f \in [W(i) -> D] : Loops(f, W(i), goes, next)
    BY <1>2
  <2>. DEFINE g == [s \in W(i + 1) |-> IF s \in goes THEN f[next[s]] ELSE s]
  <2>2. \A s \in W(i + 1) : /\ s \in D
                            /\ s \in goes => next[s] \in W(i) /\ next[s] \in W(i + 1)
    <3>1. ASSUME NEW s \in W(i + 1), s \in goes
          PROVE  next[s] \in W(i) /\ next[s] \in W(i + 1)
      <4>1. next[s] \in D /\ measure[s] \in Nat /\ measure[next[s]] \in Nat
        BY <3>1 DEF Ends
      <4>2. measure[s] <= i + 1 /\ measure[next[s]] < measure[s]
        BY <3>1 DEF Measured, Ends
      <4>. QED BY <4>1, <4>2 DEF Measured
    <3>. QED BY <3>1 DEF Measured
  <2>. HIDE DEF W
  <2>3. g \in [W(i + 1) -> D]
    BY <2>2
  <2>4. ASSUME NEW s \in W(i + 1), s \in goes PROVE g[next[s]] = f[next[s]]
    <3>1. next[s] \in W(i) /\ next[s] \in W(i + 1)
      BY <2>2, <2>4
    <3>. QED BY <2>1, <3>1 DEF Loops
  <2>5. Loops(g, W(i + 1), goes, next)
    BY <2>2, <2>4 DEF Loops
  <2>. QED BY <2>3, <2>5
<1>. HIDE DEF P
<1>3. S \in SUBSET Nat /\ 0 \in S /\ \A i \in S : i + 1 \in S
  BY <1>1, <1>2
<1>4. S = Nat
  <2>. HIDE DEF S
  <2>. QED BY <1>3, NatStep
<1>5. P(k)
  BY <1>4
<1>. QED BY <1>5 DEF P

(* Wherever two solutions are defined they agree.                          *)
LEMMA LoopAlike ==
  ASSUME NEW D, NEW measure, NEW goes, NEW next, Ends(D, measure, goes, next),
         NEW j \in Nat, NEW f, Loops(f, Measured(D, measure, j), goes, next),
         NEW k \in Nat, NEW g, Loops(g, Measured(D, measure, k), goes, next),
         NEW t \in Measured(D, measure, j), t \in Measured(D, measure, k)
  PROVE  f[t] = g[t]
<1>. DEFINE Both == Measured(D, measure, j) \cap Measured(D, measure, k)
            S == {i \in Nat : \A s \in Both : measure[s] <= i => f[s] = g[s]}
<1>1. \A s \in Both : /\ s \in D /\ measure[s] \in Nat
                      /\ s \in goes => /\ next[s] \in Both /\ measure[next[s]] \in Nat
                                       /\ measure[next[s]] < measure[s]
  <2>1. ASSUME NEW s \in Both, s \in goes PROVE next[s] \in Both /\ measure[next[s]] \in Nat
    <3>1. next[s] \in D /\ measure[s] \in Nat /\ measure[next[s]] \in Nat
      BY <2>1 DEF Measured, Ends
    <3>2. measure[s] <= j /\ measure[s] <= k /\ measure[next[s]] < measure[s]
      BY <2>1 DEF Measured, Ends
    <3>. QED BY <3>1, <3>2 DEF Measured
  <2>. QED BY <2>1 DEF Measured, Ends
<1>2. \A s \in Both : /\ f[s] = IF s \in goes THEN f[next[s]] ELSE s
                      /\ g[s] = IF s \in goes THEN g[next[s]] ELSE s
  BY DEF Loops
<1>. HIDE DEF Both
<1>3. 0 \in S
  <2>1. ASSUME NEW s \in Both, measure[s] <= 0 PROVE f[s] = g[s]
    BY <1>1, <1>2, <2>1
  <2>. QED BY <2>1
<1>4. ASSUME NEW i \in S PROVE i + 1 \in S
  <2>1. ASSUME NEW s \in Both, measure[s] <= i + 1 PROVE f[s] = g[s]
    <3>1. CASE s \in goes
      <4>1. next[s] \in Both /\ measure[next[s]] <= i
        BY <1>1, <2>1, <3>1
      <4>. QED BY <1>2, <3>1, <4>1
    <3>2. CASE s \notin goes
      BY <1>2, <3>2
    <3>. QED BY <3>1, <3>2
  <2>. QED BY <2>1
<1>5. S \in SUBSET Nat
  OBVIOUS
<1>6. S = Nat
  <2>. HIDE DEF S
  <2>. QED BY <1>3, <1>4, <1>5, NatStep
<1>7. t \in Both /\ measure[t] \in Nat
  BY <1>1 DEF Both
<1>. QED BY <1>6, <1>7

LEMMA LoopExists ==
  ASSUME NEW D, NEW measure, NEW goes, NEW next, Ends(D, measure, goes, next)
  PROVE  \E f \in [D -> D] : Loops(f, D, goes, next)
<1>. DEFINE W(k) == Measured(D, measure, k)
            upTo(k) == CHOOSE f : f \in [W(k) -> D] /\ Loops(f, W(k), goes, next)
            f == [s \in D |-> upTo(measure[s])[s]]
<1>1. \A k \in Nat : upTo(k) \in [W(k) -> D] /\ Loops(upTo(k), W(k), goes, next)
  <2>. SUFFICES ASSUME NEW k \in Nat
                PROVE  \E h : h \in [W(k) -> D] /\ Loops(h, W(k), goes, next)
    OBVIOUS
  <2>. QED BY LoopUpTo
<1>. HIDE DEF upTo
<1>2. \A s \in D : measure[s] \in Nat /\ s \in W(measure[s])
  BY DEF Measured, Ends
<1>3. f \in [D -> D]
  BY <1>1, <1>2
<1>4. ASSUME NEW s \in D PROVE f[s] = IF s \in goes THEN f[next[s]] ELSE s
  <2>1. upTo(measure[s])[s] = IF s \in goes THEN upTo(measure[s])[next[s]] ELSE s
    BY <1>1, <1>2 DEF Loops
  <2>2. CASE s \in goes
    <3>1. next[s] \in D /\ measure[next[s]] \in Nat /\ measure[next[s]] < measure[s]
      BY <2>2 DEF Ends
    <3>2. next[s] \in W(measure[s])
      BY <1>2, <3>1 DEF Measured
    <3>3. upTo(measure[s])[next[s]] = upTo(measure[next[s]])[next[s]]
      <4>. DEFINE a == upTo(measure[s])
                  b == upTo(measure[next[s]])
                  j == measure[s]
                  k == measure[next[s]]
      <4>1. Loops(a, W(j), goes, next) /\ Loops(b, W(k), goes, next)
        BY <1>1, <1>2, <3>1
      <4>2. next[s] \in W(j) /\ next[s] \in W(k) /\ j \in Nat /\ k \in Nat
        BY <1>2, <3>1, <3>2
      <4>. HIDE DEF a, b, j, k
      <4>3. a[next[s]] = b[next[s]]
        BY <4>1, <4>2, LoopAlike
      <4>. QED BY <4>3 DEF a, b, j, k
    <3>. QED BY <2>1, <2>2, <3>1, <3>3
  <2>3. CASE s \notin goes
    BY <2>1, <2>3
  <2>. QED BY <2>2, <2>3
<1>5. Loops(f, D, goes, next)
  BY <1>4 DEF Loops
<1>. HIDE DEF f
<1>. QED BY <1>3, <1>5

----------------------------------------------------------------------------
(* The shares of a membrane query, and what they add up to.               *)

(* The partial sums of a sequence.                                         *)
IsSeries(g, s) ==
  /\ g \in [0..Len(s) -> Int]
  /\ g[0] = 0
  /\ \A k \in 1..Len(s) : g[k] = g[k - 1] + s[k]

LEMMA TotalSeries ==
  ASSUME NEW s \in Seq(Int)
  PROVE  \E g : IsSeries(g, s) /\ Total(s) = g[Len(s)]
<1>. DEFINE n == Len(s)
            step == [p \in (1..n) \X Int |-> s[p[1]] + p[2]]
            Equation(f) ==
              f = [t \in SUBSET (1..n) |->
                     IF t = {} THEN 0 ELSE s[Max(t)] + f[t \ {Max(t)}]]
            f == CHOOSE f : Equation(f)
            g == [k \in 0..n |-> f[1..k]]
<1>1. n \in Nat /\ DOMAIN s = 1..n /\ \A i \in 1..n : s[i] \in Int
  OBVIOUS
<1>0. \A t : Max(t) = Greatest(t)
  BY DEF Max, Greatest
<1>2. step \in [(1..n) \X Int -> Int]
  BY <1>1
<1>3. \A i \in 1..n, v \in Int : step[i, v] = s[i] + v
  BY <1>1
<1>4. PICK h \in [SUBSET (1..n) -> Int] : FoldEquation(h, n, 0, step)
  <2>. HIDE DEF step, n
  <2>1. 0 \in Int
    OBVIOUS
  <2>2. Foldable(Int, n, 0, step)
    BY <1>1, <1>2, <2>1, FoldExists
  <2>. QED BY <2>2 DEF Foldable
<1>5. Equation(h)
  <2>1. ASSUME NEW t \in SUBSET (1..n)
        PROVE  h[t] = IF t = {} THEN 0 ELSE s[Max(t)] + h[t \ {Max(t)}]
    <3>1. CASE t # {}
      <4>1. Max(t) \in 1..n
        BY <3>1, <1>1, MaxIn
      <4>2. h[t] = step[Max(t), h[t \ {Max(t)}]] /\ h[t \ {Max(t)}] \in Int
        BY <1>0, <1>4, <3>1, <4>1 DEF FoldEquation
      <4>. QED BY <1>3, <3>1, <4>1, <4>2
    <3>2. CASE t = {}
      BY <1>4, <3>2 DEF FoldEquation
    <3>. QED BY <3>1, <3>2
  <2>. QED BY <2>1
<1>6. Equation(f)
  <2>. HIDE DEF Equation
  <2>. QED BY <1>5
<1>7. Total(s) = f[1..n]
  BY <1>1 DEF Total, MapThenFoldSet
<1>8. f[{}] = 0
  <2>. HIDE DEF f
  <2>. QED BY <1>6
<1>9. ASSUME NEW k \in 1..n PROVE f[1..k] = s[k] + f[1..k - 1]
  <2>. HIDE DEF f, n
  <2>1. 1..k \in SUBSET (1..n) /\ 1..k # {} /\ Max(1..k) = k /\ (1..k) \ {k} = 1..k - 1
    BY <1>0, <1>1, PrefixStep
  <2>. QED BY <1>6, <2>1
<1>10. ASSUME NEW k \in 0..n PROVE g[k] \in Int
  <2>. DEFINE S == {i \in Nat : i <= n => f[1..i] \in Int}
  <2>. HIDE DEF f, n
  <2>1. 1..0 = {} /\ 0 \in S
    BY <1>8
  <2>2. ASSUME NEW i \in S PROVE i + 1 \in S
    BY <1>1, <1>9
  <2>3. S \in SUBSET Nat
    OBVIOUS
  <2>4. S = Nat
    <3>. HIDE DEF S
    <3>. QED BY <2>1, <2>2, <2>3, NatStep
  <2>. QED BY <1>1, <2>4
<1>11. IsSeries(g, s)
  <2>. HIDE DEF f
  <2>1. 1..0 = {} /\ g[0] = 0
    BY <1>1, <1>8
  <2>. QED BY <1>1, <1>9, <1>10, <2>1 DEF IsSeries
<1>12. Total(s) = g[n]
  <2>. HIDE DEF f
  <2>. QED BY <1>1, <1>7
<1>. HIDE DEF f, g
<1>. QED BY <1>11, <1>12

(* They are the only series there is.                                      *)
LEMMA SeriesTotal ==
  ASSUME NEW s \in Seq(Int), NEW g, IsSeries(g, s)
  PROVE  Total(s) = g[Len(s)]
<1>1. PICK h : IsSeries(h, s) /\ Total(s) = h[Len(s)]
  BY TotalSeries
<1>. DEFINE S == {i \in Nat : i <= Len(s) => g[i] = h[i]}
<1>2. Len(s) \in Nat
  OBVIOUS
<1>3. 0 \in S
  BY <1>1 DEF IsSeries
<1>4. ASSUME NEW i \in S PROVE i + 1 \in S
  <2>1. CASE i + 1 <= Len(s)
    <3>1. i + 1 \in 1..Len(s) /\ (i + 1) - 1 = i /\ g[i] = h[i]
      BY <1>2, <2>1
    <3>2. g[i + 1] = g[(i + 1) - 1] + s[i + 1] /\ h[i + 1] = h[(i + 1) - 1] + s[i + 1]
      BY <1>1, <3>1 DEF IsSeries
    <3>. QED BY <3>1, <3>2
  <2>. QED BY <2>1
<1>5. S \in SUBSET Nat
  OBVIOUS
<1>6. S = Nat
  <2>. HIDE DEF S
  <2>. QED BY <1>3, <1>4, <1>5, NatStep
<1>. QED BY <1>1, <1>2, <1>6

LEMMA TotalType ==
  ASSUME NEW s \in Seq(Int)
  PROVE  Total(s) \in Int
BY TotalSeries DEF IsSeries

LEMMA TotalEmpty == Total(<<>>) = 0
<1>1. <<>> \in Seq(Int) /\ Len(<<>>) = 0
  OBVIOUS
<1>. QED BY <1>1, TotalSeries DEF IsSeries

(* One share changes.                                                      *)
LEMMA TotalChanged ==
  ASSUME NEW s \in Seq(Int), NEW i \in 1..Len(s), NEW v \in Int
  PROVE  Total([s EXCEPT ![i] = v]) = Total(s) - s[i] + v
<1>. DEFINE r == [s EXCEPT ![i] = v]
<1>1. PICK g : IsSeries(g, s) /\ Total(s) = g[Len(s)]
  BY TotalSeries
<1>. DEFINE h == [k \in 0..Len(s) |-> IF k < i THEN g[k] ELSE g[k] - s[i] + v]
<1>2. /\ r \in Seq(Int) /\ Len(r) = Len(s) /\ Len(s) \in Nat
      /\ \A k \in 1..Len(s) : r[k] = (IF k = i THEN v ELSE s[k]) /\ s[k] \in Int
  OBVIOUS
<1>3. \A k \in 0..Len(s) : g[k] \in Int
  BY <1>1 DEF IsSeries
<1>4. ASSUME NEW k \in 1..Len(s) PROVE h[k] = h[k - 1] + r[k]
  <2>1. k \in 0..Len(s) /\ k - 1 \in 0..Len(s)
    BY <1>2
  <2>2. g[k] = g[k - 1] + s[k]
    BY <1>1 DEF IsSeries
  <2>3. h[k] = (IF k < i THEN g[k] ELSE g[k] - s[i] + v)
    BY <2>1
  <2>4. h[k - 1] = (IF k - 1 < i THEN g[k - 1] ELSE g[k - 1] - s[i] + v)
    BY <2>1
  <2>5. /\ g[k] \in Int /\ g[k - 1] \in Int /\ s[k] \in Int /\ s[i] \in Int
        /\ r[k] = IF k = i THEN v ELSE s[k]
    BY <1>2, <1>3, <2>1
  <2>. HIDE DEF h, r
  <2>. QED BY <2>2, <2>3, <2>4, <2>5
<1>5. h \in [0..Len(s) -> Int] /\ h[0] = 0
  BY <1>1, <1>2, <1>3 DEF IsSeries
<1>6. IsSeries(h, r)
  <2>. HIDE DEF h, r
  <2>. QED BY <1>2, <1>4, <1>5 DEF IsSeries
<1>7. Total(r) = h[Len(s)]
  <2>. HIDE DEF h, r
  <2>. QED BY <1>2, <1>6, SeriesTotal
<1>. QED BY <1>1, <1>2, <1>7

(* The last share goes.                                                    *)
LEMMA TotalFront ==
  ASSUME NEW s \in Seq(Int), s # <<>>
  PROVE  Total(SubSeq(s, 1, Len(s) - 1)) = Total(s) - s[Len(s)]
<1>. DEFINE n == Len(s)
            r == SubSeq(s, 1, n - 1)
<1>1. PICK g : IsSeries(g, s) /\ Total(s) = g[n]
  BY TotalSeries
<1>. DEFINE h == [k \in 0..n - 1 |-> g[k]]
<1>2. /\ n \in Nat \ {0} /\ n - 1 \in Nat /\ r \in Seq(Int) /\ Len(r) = n - 1
      /\ \A k \in 1..n - 1 : r[k] = s[k]
      /\ s[n] \in Int
  OBVIOUS
<1>3. g \in [0..n -> Int] /\ g[0] = 0 /\ \A k \in 1..n : g[k] = g[k - 1] + s[k]
  BY <1>1 DEF IsSeries, n
<1>. HIDE DEF r, n
<1>4. IsSeries(h, r)
  BY <1>2, <1>3 DEF IsSeries
<1>5. g[n] = g[n - 1] + s[n] /\ g[n - 1] \in Int /\ h[n - 1] = g[n - 1]
  <2>1. n \in 1..n /\ n - 1 \in 0..n /\ n - 1 \in 0..n - 1
    BY <1>2
  <2>. QED BY <1>3, <2>1
<1>6. Total(r) = h[n - 1]
  <2>. HIDE DEF h
  <2>. QED BY <1>2, <1>4, SeriesTotal
<1>7. Total(r) = Total(s) - s[n]
  <2>. HIDE DEF h
  <2>. QED BY <1>1, <1>2, <1>5, <1>6
<1>. QED BY <1>7 DEF r, n

(* Shares that are natural numbers.                                        *)
LEMMA TotalNatural ==
  ASSUME NEW s \in Seq(Nat)
  PROVE  /\ s \in Seq(Int) /\ Total(s) \in Nat
         /\ \A i \in 1..Len(s) : s[i] <= Total(s)
<1>1. s \in Seq(Int) /\ Len(s) \in Nat /\ \A k \in 1..Len(s) : s[k] \in Nat
  OBVIOUS
<1>2. PICK g : IsSeries(g, s) /\ Total(s) = g[Len(s)]
  BY <1>1, TotalSeries
<1>. DEFINE S == {i \in Nat : i <= Len(s) =>
                    g[i] \in Nat /\ \A k \in 1..i : s[k] <= g[i]}
<1>3. 0 \in S
  BY <1>2 DEF IsSeries
<1>4. ASSUME NEW i \in S PROVE i + 1 \in S
  <2>1. CASE i + 1 <= Len(s)
    <3>1. i + 1 \in 1..Len(s) /\ (i + 1) - 1 = i /\ s[i + 1] \in Nat
      BY <1>1, <2>1
    <3>2. g[i + 1] = g[(i + 1) - 1] + s[i + 1]
      BY <1>2, <3>1 DEF IsSeries
    <3>3. g[i] \in Nat /\ \A k \in 1..i : s[k] <= g[i]
      BY <1>1, <2>1
    <3>4. \A k \in 1..i : s[k] \in Nat
      BY <1>1, <2>1
    <3>. QED BY <3>1, <3>2, <3>3, <3>4
  <2>. QED BY <2>1
<1>5. S \in SUBSET Nat
  OBVIOUS
<1>6. S = Nat
  <2>. HIDE DEF S
  <2>. QED BY <1>3, <1>4, <1>5, NatStep
<1>. QED BY <1>1, <1>2, <1>6

----------------------------------------------------------------------------
(* The first pass.                                                         *)

(* A share is the quotient of two naturals, and no smaller for a better    *)
(* score.                                                                  *)
LEMMA Quotient ==
  ASSUME NEW a \in Nat, NEW b \in Nat, NEW t \in Nat, NEW d \in Nat \ {0}, a >= b
  PROVE  (a * t) \div d \in Nat /\ (a * t) \div d >= (b * t) \div d
<1>1. a * t \in Nat /\ b * t \in Nat /\ a * t >= b * t
  OBVIOUS
<1>2. \A x, y \in Nat : x >= y => x \div d \in Nat /\ x \div d >= y \div d
  OBVIOUS
<1>. QED BY <1>1, <1>2

LEMMA Greater ==
  ASSUME NEW a \in Int, NEW b \in Int
  PROVE  Max({a, b}) = IF a >= b THEN a ELSE b
BY DEF Max

(* The lowest score is the last.                                           *)
LEMMA LowestIsLast ==
  ASSUME NEW s \in Seq(Int), s # <<>>, Descending(s)
  PROVE  Min({s[j] : j \in DOMAIN s}) = s[Len(s)]
<1>. DEFINE T == {s[j] : j \in DOMAIN s}
<1>1. Len(s) \in Nat \ {0} /\ DOMAIN s = 1..Len(s) /\ \A i \in 1..Len(s) : s[i] \in Int
  OBVIOUS
<1>2. \A i \in 1..Len(s) : s[i] >= s[Len(s)]
  BY <1>1 DEF Descending
<1>3. s[Len(s)] \in T /\ \A y \in T : y \in Int /\ y >= s[Len(s)]
  BY <1>1, <1>2
<1>. HIDE DEF T
<1>4. \A x \in T : (\A y \in T : x <= y) => x = s[Len(s)]
  BY <1>1, <1>3
<1>5. \A y \in T : s[Len(s)] <= y
  BY <1>1, <1>3
<1>6. Min(T) = s[Len(s)]
  BY <1>3, <1>4, <1>5 DEF Min
<1>. QED BY <1>6 DEF T

LEMMA ShiftedType ==
  ASSUME NEW s \in Seq(Int), s # <<>>, Descending(s)
  PROVE  /\ Shifted(s) \in Seq(Nat) /\ Len(Shifted(s)) = Len(s)
         /\ Descending(Shifted(s)) /\ Total(Shifted(s)) \in Nat \ {0}
<1>1. /\ Len(s) \in Nat \ {0} /\ DOMAIN s = 1..Len(s)
      /\ \A i \in 1..Len(s) : s[i] \in Int /\ s[i] >= s[Len(s)]
  BY DEF Descending
<1>2. Shifted(s) = [i \in 1..Len(s) |-> s[i] - s[Len(s)] + 1]
  BY <1>1, LowestIsLast DEF Shifted
<1>3. \A i \in 1..Len(s) : s[i] - s[Len(s)] + 1 \in Nat \ {0}
  BY <1>1
<1>4. Shifted(s) \in Seq(Nat) /\ Len(Shifted(s)) = Len(s)
  BY <1>1, <1>2, <1>3
<1>5. Descending(Shifted(s))
  BY <1>1, <1>2 DEF Descending
<1>6. Shifted(s)[1] \in Nat \ {0} /\ 1 \in 1..Len(Shifted(s))
  BY <1>1, <1>2, <1>3, <1>4
<1>7. Total(Shifted(s)) \in Nat /\ Shifted(s)[1] <= Total(Shifted(s))
  BY <1>4, <1>6, TotalNatural
<1>. QED BY <1>4, <1>5, <1>6, <1>7

LEMMA ProportionalSound ==
  ASSUME NEW s \in Seq(Int), s # <<>>, Descending(s), NEW t \in Nat, NEW m \in Nat
  PROVE  /\ Proportional(s, t, m) \in Seq(Nat) /\ Len(Proportional(s, t, m)) = Len(s)
         /\ \A i \in 1..Len(s) : Proportional(s, t, m)[i] >= m
         /\ Descending(Proportional(s, t, m))
<1>. DEFINE shifted == Shifted(s)
            d == Total(shifted)
            share(i) == (shifted[i] * t) \div d
            p == Proportional(s, t, m)
<1>1. /\ Len(s) \in Nat /\ DOMAIN s = 1..Len(s) /\ d \in Nat \ {0}
      /\ \A i \in 1..Len(s) : shifted[i] \in Nat
      /\ \A i, j \in 1..Len(s) : i < j => shifted[i] >= shifted[j]
  BY ShiftedType DEF Descending
<1>2. \A i \in 1..Len(s) : share(i) \in Nat
  <2>. HIDE DEF d, shifted
  <2>1. \A i \in 1..Len(s) : shifted[i] >= shifted[i]
    BY <1>1
  <2>. QED BY <1>1, <2>1, Quotient
<1>3. \A i, j \in 1..Len(s) : i < j => share(i) >= share(j)
  <2>. HIDE DEF d, shifted
  <2>. QED BY <1>1, Quotient
<1>4. p = [i \in 1..Len(s) |-> Max({share(i), m})]
  BY <1>1 DEF Proportional
<1>. HIDE DEF share, p
<1>5. \A i \in 1..Len(s) : Max({share(i), m}) = IF share(i) >= m THEN share(i) ELSE m
  BY <1>2, Greater
<1>6. p = [i \in 1..Len(s) |-> IF share(i) >= m THEN share(i) ELSE m]
  BY <1>4, <1>5
<1>7. p \in Seq(Nat) /\ Len(p) = Len(s) /\ \A i \in 1..Len(s) : p[i] >= m
  BY <1>1, <1>2, <1>6
<1>8. Descending(p)
  BY <1>1, <1>2, <1>3, <1>6 DEF Descending
<1>. QED BY <1>7, <1>8 DEF p

(* Quotient and remainder, and that there are no others.                   *)
LEMMA Divided ==
  ASSUME NEW n \in Nat \ {0}, NEW i \in Nat
  PROVE  i \div n \in Nat /\ i % n \in 0..n - 1 /\ i = (i \div n) * n + (i % n)
<1>. DEFINE k == i \div n
            m == i % n
<1>1. k \in Int /\ m \in 0..n - 1 /\ i = n * k + m
  OBVIOUS
<1>. HIDE DEF k, m
<1>2. CASE k <= -1
  <2>1. n * k <= -n
    BY <1>1, <1>2
  <2>. QED BY <1>1, <2>1
<1>3. CASE k >= 0
  <2>1. k \in Nat /\ n * k = k * n
    BY <1>1, <1>3
  <2>2. k \in Nat /\ m \in 0..n - 1 /\ i = k * n + m
    BY <1>1, <2>1
  <2>. QED BY <2>2 DEF k, m
<1>. QED BY <1>1, <1>2, <1>3

LEMMA DividedOnce ==
  ASSUME NEW n \in Nat \ {0}, NEW q \in Int, NEW r \in 0..n - 1
  PROVE  (q * n + r) % n = r /\ (q * n + r) \div n = q
<1>. DEFINE x == q * n + r
            k == x \div n
            m == x % n
<1>1. q * n \in Int /\ x \in Int
  OBVIOUS
<1>. HIDE DEF x
<1>2. k \in Int /\ m \in 0..n - 1 /\ x = k * n + m
  BY <1>1
<1>. HIDE DEF k, m
<1>3. (q - k) * n = m - r
  BY <1>2 DEF x
<1>4. CASE q - k >= 1
  <2>1. (q - k) * n >= n
    BY <1>2, <1>4
  <2>. QED BY <1>2, <1>3, <2>1
<1>5. CASE q - k <= -1
  <2>1. (q - k) * n <= -n
    BY <1>2, <1>5
  <2>. QED BY <1>2, <1>3, <2>1
<1>6. CASE q - k = 0
  BY <1>2, <1>3, <1>6 DEF k, m, x
<1>. QED BY <1>2, <1>4, <1>5, <1>6

(* The next place in a round.                                              *)
LEMMA NextPlace ==
  ASSUME NEW n \in Nat \ {0}, NEW i \in Nat
  PROVE  /\ i % n \in 0..n - 1
         /\ (i + 1) % n = IF i % n = n - 1 THEN 0 ELSE (i % n) + 1
<1>. DEFINE q == i \div n
            r == i % n
<1>1. q \in Nat /\ r \in 0..n - 1 /\ i = q * n + r
  BY Divided
<1>. HIDE DEF q, r
<1>2. CASE r = n - 1
  <2>1. i + 1 = (q + 1) * n + 0
    BY <1>1, <1>2
  <2>2. q + 1 \in Int /\ 0 \in 0..n - 1
    BY <1>1
  <2>3. ((q + 1) * n + 0) % n = 0
    BY <2>2, DividedOnce
  <2>. QED BY <1>1, <1>2, <2>1, <2>3 DEF r
<1>3. CASE r # n - 1
  <2>1. i + 1 = q * n + (r + 1)
    BY <1>1
  <2>2. q \in Int /\ r + 1 \in 0..n - 1
    BY <1>1, <1>3
  <2>3. (q * n + (r + 1)) % n = r + 1
    BY <2>2, DividedOnce
  <2>. QED BY <1>1, <1>3, <2>1, <2>3 DEF r
<1>. QED BY <1>2, <1>3

Above(s, m) == {i \in DOMAIN s : s[i] > m}

LEMMA AboveGreatest ==
  ASSUME NEW s \in Seq(Nat), NEW m \in Nat
  PROVE  /\ \A i \in 1..Len(s) :
              s[i] > m /\ (\A j \in i + 1..Len(s) : s[j] <= m) =>
                i = Max(Above(s, m)) /\ Above(s, m) # {}
         /\ Above(s, m) # {} =>
              Max(Above(s, m)) \in 1..Len(s) /\ s[Max(Above(s, m))] > m
<1>1. Len(s) \in Nat /\ DOMAIN s = 1..Len(s) /\ \A i \in 1..Len(s) : s[i] \in Nat
  OBVIOUS
<1>2. Above(s, m) \in SUBSET (1..Len(s))
  BY <1>1 DEF Above
<1>3. ASSUME NEW i \in 1..Len(s), s[i] > m, \A j \in i + 1..Len(s) : s[j] <= m
      PROVE  i = Max(Above(s, m))
  <2>1. i \in Above(s, m)
    BY <1>1, <1>3 DEF Above
  <2>2. ASSUME NEW y \in Above(s, m) PROVE i >= y
    <3>1. y \in 1..Len(s) /\ s[y] > m /\ s[y] \in Nat
      BY <1>1 DEF Above
    <3>2. CASE y > i
      <4>1. y \in i + 1..Len(s)
        BY <1>1, <3>1, <3>2
      <4>. QED BY <1>3, <3>1, <4>1
    <3>. QED BY <3>1, <3>2
  <2>3. \A x \in Above(s, m) : (\A y \in Above(s, m) : x >= y) => x = i
    BY <1>2, <2>1, <2>2
  <2>. QED BY <2>1, <2>2, <2>3 DEF Max
<1>4. \A i \in 1..Len(s) : s[i] > m => Above(s, m) # {}
  BY <1>1 DEF Above
<1>5. Above(s, m) # {} => Max(Above(s, m)) \in Above(s, m)
  BY <1>1, <1>2, MaxIn
<1>. QED BY <1>1, <1>3, <1>4, <1>5 DEF Above

LEMMA FrontType ==
  ASSUME NEW s \in Seq(Nat), s # <<>>
  PROVE  /\ Len(s) \in Nat \ {0} /\ s[Len(s)] \in Nat
         /\ SubSeq(s, 1, Len(s) - 1) \in Seq(Nat)
         /\ Len(SubSeq(s, 1, Len(s) - 1)) = Len(s) - 1
<1>. DEFINE n == Len(s)
            r == SubSeq(s, 1, n - 1)
<1>1. n \in Nat \ {0} /\ \A i \in 1..n : s[i] \in Nat
  OBVIOUS
<1>. HIDE DEF n
<1>2. r \in Seq(Nat) /\ Len(r) = n - 1
  BY <1>1
<1>. QED BY <1>1, <1>2 DEF n

(* One turn of the loop that takes from the shares.                        *)
TrimTurn(s, m) ==
  IF Above(s, m) # {} THEN [s EXCEPT ![Max(Above(s, m))] = @ - 1] ELSE SubSeq(s, 1, Len(s) - 1)

LEMMA TrimTurnShrinks ==
  ASSUME NEW s \in Seq(Nat), NEW t \in Nat, NEW m \in Nat, Total(s) > t
  PROVE  /\ TrimTurn(s, m) \in Seq(Nat)
         /\ Total(TrimTurn(s, m)) + Len(TrimTurn(s, m)) < Total(s) + Len(s)
         /\ Total(TrimTurn(s, m)) \in Nat /\ Total(s) \in Nat
         /\ Len(TrimTurn(s, m)) <= Len(s)
<1>1. s \in Seq(Int) /\ Total(s) \in Nat /\ Len(s) \in Nat
  BY TotalNatural
<1>2. CASE Above(s, m) # {}
  <2>. DEFINE i == Max(Above(s, m))
              v == s[i] - 1
              r == [s EXCEPT ![i] = v]
  <2>1. i \in 1..Len(s) /\ s[i] > m /\ s[i] \in Nat
    BY <1>2, AboveGreatest
  <2>2. TrimTurn(s, m) = r
    BY <1>2 DEF TrimTurn
  <2>. HIDE DEF i
  <2>3. v \in Nat /\ v \in Int
    BY <2>1
  <2>4. r \in Seq(Nat) /\ Len(r) = Len(s)
    <3>1. Len(s) \in Nat /\ DOMAIN s = 1..Len(s) /\ \A j \in 1..Len(s) : s[j] \in Nat
      OBVIOUS
    <3>2. DOMAIN r = 1..Len(s) /\ \A j \in 1..Len(s) : r[j] = IF j = i THEN v ELSE s[j]
      BY <3>1
    <3>3. r = [j \in 1..Len(s) |-> IF j = i THEN v ELSE s[j]]
      BY <3>1
    <3>. HIDE DEF v, r
    <3>. QED BY <2>3, <3>1, <3>2, <3>3
  <2>5. Total(r) = Total(s) - s[i] + v
    <3>. HIDE DEF v
    <3>. QED BY <1>1, <2>1, <2>3, TotalChanged
  <2>6. Total(r) = Total(s) - 1
    BY <1>1, <2>1, <2>5
  <2>. HIDE DEF r
  <2>. QED BY <1>1, <2>2, <2>4, <2>6, TotalNatural
<1>3. CASE Above(s, m) = {}
  <2>. DEFINE r == SubSeq(s, 1, Len(s) - 1)
  <2>1. s # <<>>
    <3>1. \A u \in Seq(Int) : u = <<>> => Total(u) = 0
      BY TotalSeries DEF IsSeries
    <3>. QED BY <1>1, <3>1
  <2>2. TrimTurn(s, m) = r
    BY <1>3 DEF TrimTurn
  <2>3. Len(s) \in Nat \ {0} /\ r \in Seq(Nat) /\ Len(r) = Len(s) - 1 /\ s[Len(s)] \in Nat
    BY <2>1, FrontType
  <2>4. Total(r) = Total(s) - s[Len(s)]
    BY <1>1, <2>1, TotalFront
  <2>. HIDE DEF r
  <2>5. Total(r) \in Nat
    BY <2>3, TotalNatural
  <2>6. Total(r) + Len(r) < Total(s) + Len(s) /\ Len(r) <= Len(s)
    BY <1>1, <2>3, <2>4, <2>5
  <2>. QED BY <1>1, <2>2, <2>3, <2>5, <2>6
<1>. QED BY <1>2, <1>3

LEMMA TrimmedTurns ==
  ASSUME NEW t \in Nat, NEW m \in Nat, NEW s \in Seq(Nat)
  PROVE  Trimmed(s, t, m) = IF Total(s) <= t THEN s ELSE Trimmed(TrimTurn(s, m), t, m)
<1>. DEFINE D == Seq(Nat)
            goes == {u \in D : Total(u) > t}
            measure == [u \in D |-> Total(u) + Len(u)]
            next == [u \in goes |-> TrimTurn(u, m)]
            above(u) == {i \in DOMAIN u : u[i] > m}
            Equation(f) ==
              f = [u \in D |->
                     IF Total(u) <= t THEN u
                     ELSE IF above(u) # {} THEN f[[u EXCEPT ![Max(above(u))] = @ - 1]]
                     ELSE f[SubSeq(u, 1, Len(u) - 1)]]
            trim == CHOOSE f : Equation(f)
<1>1. Ends(D, measure, goes, next)
  <2>1. measure \in [D -> Nat]
    <3>1. \A u \in D : Total(u) \in Nat /\ Len(u) \in Nat
      BY TotalNatural
    <3>. QED BY <3>1
  <2>2. \A u \in goes : TrimTurn(u, m) \in D /\ measure[TrimTurn(u, m)] < measure[u]
    BY TrimTurnShrinks
  <2>. QED BY <2>1, <2>2 DEF Ends
<1>2. PICK h \in [D -> D] : Loops(h, D, goes, next)
  <2>. HIDE DEF D, goes, measure, next
  <2>. QED BY <1>1, LoopExists
<1>3. \A u \in D : h[u] = IF Total(u) <= t THEN u ELSE h[TrimTurn(u, m)]
  <2>1. ASSUME NEW u \in D PROVE u \in goes <=> ~(Total(u) <= t)
    <3>1. Total(u) \in Nat
      BY TotalNatural
    <3>. QED BY <3>1
  <2>. QED BY <1>2, <2>1 DEF Loops
<1>4. \A u \in D : TrimTurn(u, m) =
                     IF above(u) # {} THEN [u EXCEPT ![Max(above(u))] = @ - 1] ELSE SubSeq(u, 1, Len(u) - 1)
  BY DEF TrimTurn, Above
<1>5. Equation(h)
  <2>. HIDE DEF D, above
  <2>. QED BY <1>2, <1>3, <1>4
<1>6. Equation(trim)
  <2>. HIDE DEF Equation
  <2>. QED BY <1>5
<1>7. \A u \in D : Trimmed(u, t, m) = trim[u]
  BY DEF Trimmed
<1>8. \A u \in D : trim[u] = IF Total(u) <= t THEN u ELSE trim[TrimTurn(u, m)]
  <2>. HIDE DEF D, above, trim
  <2>. QED BY <1>4, <1>6
<1>9. ~(Total(s) <= t) => TrimTurn(s, m) \in D
  <2>1. Total(s) \in Nat
    BY TotalNatural
  <2>. QED BY <2>1, TrimTurnShrinks
<1>. HIDE DEF trim
<1>. QED BY <1>7, <1>8, <1>9

----------------------------------------------------------------------------
(* How often a place was raised in k turns, and when it is raised again.   *)
Raised(k, n, i) == (k + n - i) \div n

LEMMA RaisedOnce ==
  ASSUME NEW n \in Nat \ {0}, NEW k \in Nat, NEW i \in 1..n
  PROVE  /\ Raised(0, n, i) = 0 /\ Raised(k, n, i) \in Nat
         /\ Raised(k + 1, n, i) = Raised(k, n, i) + (IF i = (k % n) + 1 THEN 1 ELSE 0)
<1>. DEFINE q == k \div n
            r == k % n
<1>1. q \in Nat /\ r \in 0..n - 1 /\ k = q * n + r
  BY Divided
<1>. HIDE DEF q, r
<1>2. \A p \in Int, u \in 0..n - 1 : (p * n + u) \div n = p
  BY DividedOnce
<1>3. Raised(0, n, i) = 0
  <2>1. 0 + n - i = 0 * n + (n - i) /\ n - i \in 0..n - 1 /\ 0 \in Int
    OBVIOUS
  <2>2. (0 * n + (n - i)) \div n = 0
    BY <1>2, <2>1
  <2>. QED BY <2>1, <2>2 DEF Raised
<1>4. q * n \in Int /\ (q + 1) * n = q * n + n /\ q + 1 \in Int /\ q \in Int
  BY <1>1
<1>5. CASE i <= r
  <2>1. /\ k + n - i = (q + 1) * n + (r - i) /\ r - i \in 0..n - 1
        /\ (k + 1) + n - i = (q + 1) * n + (r - i + 1) /\ r - i + 1 \in 0..n - 1
    BY <1>1, <1>4, <1>5
  <2>2. ((q + 1) * n + (r - i)) \div n = q + 1 /\ ((q + 1) * n + (r - i + 1)) \div n = q + 1
    BY <1>2, <1>4, <2>1
  <2>3. Raised(k, n, i) = q + 1 /\ Raised(k + 1, n, i) = q + 1 /\ i # r + 1
    BY <1>1, <1>5, <2>1, <2>2 DEF Raised
  <2>. QED BY <1>1, <1>3, <2>3 DEF r
<1>6. CASE i = r + 1
  <2>1. /\ k + n - i = q * n + (n - 1) /\ n - 1 \in 0..n - 1
        /\ (k + 1) + n - i = (q + 1) * n + 0 /\ 0 \in 0..n - 1
    BY <1>1, <1>4, <1>6
  <2>2. (q * n + (n - 1)) \div n = q /\ ((q + 1) * n + 0) \div n = q + 1
    BY <1>2, <1>4, <2>1
  <2>3. Raised(k, n, i) = q /\ Raised(k + 1, n, i) = q + 1
    BY <2>1, <2>2 DEF Raised
  <2>. QED BY <1>1, <1>3, <1>6, <2>3 DEF r
<1>7. CASE i > r + 1
  <2>1. /\ k + n - i = q * n + (n + r - i) /\ n + r - i \in 0..n - 1
        /\ (k + 1) + n - i = q * n + (n + r - i + 1) /\ n + r - i + 1 \in 0..n - 1
    BY <1>1, <1>4, <1>7
  <2>2. (q * n + (n + r - i)) \div n = q /\ (q * n + (n + r - i + 1)) \div n = q
    BY <1>2, <1>4, <2>1
  <2>3. Raised(k, n, i) = q /\ Raised(k + 1, n, i) = q /\ i # r + 1
    BY <1>1, <1>7, <2>1, <2>2 DEF Raised
  <2>. QED BY <1>1, <1>3, <2>3 DEF r
<1>. QED BY <1>1, <1>5, <1>6, <1>7

LEMMA Lesser ==
  ASSUME NEW a \in Int, NEW b \in Int
  PROVE  Min({a, b}) = IF a < b THEN a ELSE b
BY DEF Min

LEMMA SharesAre ==
  ASSUME NEW s, NEW total, NEW least, NEW most, Len(s) \in Int, most \in Int,
         s # <<>>, total # 0, most # 0
  PROVE  LET n == IF most < Len(s) THEN most ELSE Len(s)
         IN  Shares(s, total, least, most) =
               Spread(Trimmed(Proportional(SubSeq(s, 1, n), total, least), total, least),
                      total)
BY Lesser DEF Shares

(* Raising shares in turn adds what is left over.                          *)
LEMMA SpreadTotal ==
  ASSUME NEW s \in Seq(Nat), s # <<>>, NEW t \in Nat, Total(s) <= t
  PROVE  Spread(s, t) \in Seq(Nat) /\ Len(Spread(s, t)) = Len(s) /\ Total(Spread(s, t)) = t
<1>. DEFINE n == Len(s)
            lifted(k) == [i \in 1..n |-> s[i] + Raised(k, n, i)]
            S == {k \in Nat : Total(lifted(k)) = Total(s) + k}
<1>1. s = [i \in 1..n |-> s[i]]
  OBVIOUS
<1>2. n \in Nat \ {0} /\ Total(s) \in Nat /\ \A i \in 1..n : s[i] \in Nat
  BY TotalNatural
<1>. HIDE DEF n
<1>3. \A k \in Nat, i \in 1..n : Raised(k, n, i) \in Nat
  BY <1>2, RaisedOnce
<1>4. \A i \in 1..n : Raised(0, n, i) = 0
  BY <1>2, RaisedOnce
<1>5. \A k \in Nat, i \in 1..n :
        Raised(k + 1, n, i) = Raised(k, n, i) + (IF i = (k % n) + 1 THEN 1 ELSE 0)
  BY <1>2, RaisedOnce
<1>6. ASSUME NEW k \in Nat
      PROVE  /\ lifted(k) \in Seq(Nat) /\ Len(lifted(k)) = n
             /\ \A i \in 1..n : lifted(k)[i] = s[i] + Raised(k, n, i) /\ lifted(k)[i] \in Nat
  <2>1. ASSUME NEW i \in 1..n PROVE s[i] + Raised(k, n, i) \in Nat
    <3>1. s[i] \in Nat /\ Raised(k, n, i) \in Nat
      BY <1>2, <1>3
    <3>. QED BY <3>1
  <2>. QED BY <1>2, <2>1
<1>7. 0 \in S
  <2>1. \A i \in 1..n : s[i] + Raised(0, n, i) = s[i]
    BY <1>2, <1>4
  <2>2. lifted(0) = s
    BY <1>1, <2>1
  <2>. HIDE DEF lifted
  <2>. QED BY <1>2, <2>2
<1>8. ASSUME NEW k \in S PROVE k + 1 \in S
  <2>. DEFINE at == (k % n) + 1
              r == lifted(k)
  <2>1. at \in 1..n /\ k \in Nat
    BY <1>2
  <2>. HIDE DEF at, lifted
  <2>2. r \in Seq(Nat) /\ Len(r) = n /\ r[at] \in Nat /\ r \in Seq(Int) /\ Total(r) = Total(s) + k
    <3>1. r \in Seq(Nat) /\ Len(r) = n /\ r[at] \in Nat
      BY <1>6, <2>1
    <3>2. r \in Seq(Int)
      BY <3>1
    <3>. QED BY <3>1, <3>2
  <2>3. lifted(k + 1) = [r EXCEPT ![at] = r[at] + 1]
    <3>1. \A i \in 1..n : s[i] + Raised(k + 1, n, i) = IF i = at THEN r[i] + 1 ELSE r[i]
      <4>1. ASSUME NEW i \in 1..n
            PROVE  s[i] + Raised(k + 1, n, i) = IF i = at THEN r[i] + 1 ELSE r[i]
        <5>1. Raised(k + 1, n, i) = Raised(k, n, i) + (IF i = at THEN 1 ELSE 0)
          BY <1>5, <2>1 DEF at
        <5>2. r[i] = s[i] + Raised(k, n, i) /\ Raised(k, n, i) \in Nat /\ s[i] \in Nat
          BY <1>2, <1>3, <1>6, <2>1
        <5>. QED BY <5>1, <5>2
      <4>. QED BY <4>1
    <3>2. [r EXCEPT ![at] = r[at] + 1] = [i \in 1..n |-> IF i = at THEN r[i] + 1 ELSE r[i]]
      <4>. HIDE DEF r
      <4>1. r \in [1..n -> Nat]
        BY <2>2
      <4>. QED BY <2>1, <4>1
    <3>3. lifted(k + 1) = [i \in 1..n |-> s[i] + Raised(k + 1, n, i)]
      BY DEF lifted
    <3>. HIDE DEF r
    <3>. QED BY <3>1, <3>2, <3>3
  <2>. HIDE DEF r
  <2>4. Total([r EXCEPT ![at] = r[at] + 1]) = Total(r) - r[at] + (r[at] + 1)
    <3>1. r[at] + 1 \in Int /\ at \in 1..Len(r)
      BY <2>1, <2>2
    <3>. QED BY <2>2, <3>1, TotalChanged
  <2>. QED BY <1>2, <2>1, <2>2, <2>3, <2>4
<1>9. S = Nat
  <2>1. S \in SUBSET Nat
    OBVIOUS
  <2>. HIDE DEF S
  <2>. QED BY <1>7, <1>8, <2>1, NatStep
<1>10. Spread(s, t) = lifted(t - Total(s)) /\ t - Total(s) \in Nat
  BY <1>2 DEF Spread, Raised, n
<1>11. Total(lifted(t - Total(s))) = Total(s) + (t - Total(s))
  <2>. HIDE DEF lifted
  <2>. QED BY <1>9, <1>10
<1>. HIDE DEF lifted
<1>. QED BY <1>2, <1>6, <1>10, <1>11 DEF n

(* Taking from shares brings them within the budget.                       *)
LEMMA TrimmedTotal ==
  ASSUME NEW t \in Nat, NEW m \in Nat, NEW s \in Seq(Nat)
  PROVE  /\ Trimmed(s, t, m) \in Seq(Nat) /\ Len(Trimmed(s, t, m)) <= Len(s)
         /\ Total(Trimmed(s, t, m)) <= t
<1>. DEFINE Small(u, k) == Total(u) + Len(u) <= k
            Good(u) == /\ Trimmed(u, t, m) \in Seq(Nat) /\ Len(Trimmed(u, t, m)) <= Len(u)
                       /\ Total(Trimmed(u, t, m)) <= t
            S == {k \in Nat : \A u \in Seq(Nat) : Small(u, k) => Good(u)}
<1>1. ASSUME NEW u \in Seq(Nat), Total(u) <= t PROVE Good(u)
  <2>1. Trimmed(u, t, m) = u /\ Len(u) \in Nat
    BY <1>1, TrimmedTurns
  <2>. QED BY <1>1, <2>1
<1>2. ASSUME NEW u \in Seq(Nat), ~(Total(u) <= t), Good(TrimTurn(u, m)) PROVE Good(u)
  <2>1. Total(u) > t
    BY <1>2, TotalNatural
  <2>2. TrimTurn(u, m) \in Seq(Nat) /\ Len(TrimTurn(u, m)) <= Len(u)
    BY <2>1, TrimTurnShrinks
  <2>3. Trimmed(u, t, m) = Trimmed(TrimTurn(u, m), t, m)
    BY <1>2, TrimmedTurns
  <2>4. Len(TrimTurn(u, m)) \in Nat /\ Len(u) \in Nat
    BY <2>2
  <2>5. Len(Trimmed(TrimTurn(u, m), t, m)) \in Nat
    BY <1>2
  <2>. QED BY <1>2, <2>2, <2>3, <2>4, <2>5
<1>. HIDE DEF Good
<1>3. \A u \in Seq(Nat) : Total(u) \in Nat /\ Len(u) \in Nat
  BY TotalNatural
<1>4. 0 \in S
  BY <1>1, <1>3
<1>5. ASSUME NEW k \in S PROVE k + 1 \in S
  <2>. SUFFICES ASSUME NEW u \in Seq(Nat), Small(u, k + 1), ~(Total(u) <= t)
                PROVE  Good(u)
    BY <1>1, <1>5
  <2>1. Total(u) > t
    BY <1>3
  <2>2. /\ TrimTurn(u, m) \in Seq(Nat)
        /\ Total(TrimTurn(u, m)) + Len(TrimTurn(u, m)) < Total(u) + Len(u)
    BY <2>1, TrimTurnShrinks
  <2>3. Small(TrimTurn(u, m), k)
    BY <1>3, <2>2
  <2>. QED BY <1>2, <1>5, <2>2, <2>3
<1>6. S = Nat
  <2>1. S \in SUBSET Nat
    OBVIOUS
  <2>. HIDE DEF S
  <2>. QED BY <1>4, <1>5, <2>1, NatStep
<1>7. Total(s) + Len(s) \in Nat /\ Small(s, Total(s) + Len(s))
  BY <1>3
<1>8. Good(s)
  BY <1>6, <1>7
<1>. QED BY <1>8 DEF Good

(* What the closed form promises a membrane query.                         *)
LEMMA SharesSound ==
  ASSUME NEW s \in Seq(Int), Descending(s), NEW t \in Nat, NEW m \in Nat, NEW c \in Nat
  PROVE  /\ Shares(s, t, m, c) \in Seq(Nat)
         /\ Len(Shares(s, t, m, c)) <= c /\ Len(Shares(s, t, m, c)) <= Len(s)
         /\ Total(Shares(s, t, m, c)) <= t
<1>0. <<>> \in Seq(Nat) /\ Total(<<>>) = 0 /\ Len(s) \in Nat
  BY TotalEmpty
<1>1. CASE s = <<>> \/ t = 0 \/ c = 0
  <2>1. Shares(s, t, m, c) = <<>>
    BY <1>1 DEF Shares
  <2>. QED BY <1>0, <2>1
<1>2. CASE ~(s = <<>> \/ t = 0 \/ c = 0)
  <2>. DEFINE n == IF c < Len(s) THEN c ELSE Len(s)
              kept == SubSeq(s, 1, n)
              cut == Trimmed(Proportional(kept, t, m), t, m)
  <2>1. n \in 1..Len(s) /\ n <= c /\ Min({c, Len(s)}) = n
    BY <1>0, <1>2, Lesser
  <2>2. kept \in Seq(Int) /\ Len(kept) = n /\ kept # <<>> /\ \A i \in 1..n : kept[i] = s[i]
    BY <1>0, <2>1
  <2>3. Descending(kept)
    <3>1. \A i, j \in 1..Len(s) : i < j => s[i] >= s[j]
      BY DEF Descending
    <3>2. DOMAIN kept = 1..n /\ 1..n \subseteq 1..Len(s)
      BY <1>0, <2>1, <2>2
    <3>. HIDE DEF kept, n
    <3>3. \A i, j \in 1..n : i < j => kept[i] >= kept[j]
      BY <2>2, <3>1, <3>2
    <3>. QED BY <3>2, <3>3 DEF Descending
  <2>4. Shares(s, t, m, c) = Spread(cut, t)
    <3>. HIDE DEF n
    <3>. QED BY <1>2, <2>1 DEF Shares
  <2>. HIDE DEF kept, n
  <2>5. Proportional(kept, t, m) \in Seq(Nat) /\ Len(Proportional(kept, t, m)) = n
    BY <2>2, <2>3, ProportionalSound
  <2>6. cut \in Seq(Nat) /\ Len(cut) <= n /\ Total(cut) <= t
    BY <2>5, TrimmedTotal
  <2>. HIDE DEF cut
  <2>7. CASE cut = <<>>
    <3>1. Spread(cut, t) = <<>>
      BY <2>7 DEF Spread
    <3>. QED BY <1>0, <2>4, <3>1
  <2>8. CASE cut # <<>>
    <3>1. Spread(cut, t) \in Seq(Nat) /\ Len(Spread(cut, t)) = Len(cut) /\ Total(Spread(cut, t)) = t
      BY <2>6, <2>8, SpreadTotal
    <3>2. Len(cut) \in Nat
      BY <2>6
    <3>. QED BY <1>0, <2>1, <2>4, <2>6, <3>1, <3>2
  <2>. QED BY <2>7, <2>8
<1>. QED BY <1>1, <1>2

----------------------------------------------------------------------------
(* Counting.                                                               *)

OneToOne(f, S) == \A a, b \in S : f[a] = f[b] => a = b

LEMMA CountAtMost ==
  ASSUME NEW S, NEW T, IsFiniteSet(T), NEW f \in [S -> T], OneToOne(f, S)
  PROVE  IsFiniteSet(S) /\ Cardinality(S) <= Cardinality(T)
         /\ Cardinality(S) \in Nat /\ Cardinality(T) \in Nat
<1>1. f \in Injection(S, T)
  BY DEF Injection, IsInjective, OneToOne
<1>2. IsFiniteSet(S) /\ Cardinality(S) <= Cardinality(T)
  BY <1>1, FS_Injection
<1>. QED BY <1>2, FS_CardinalityType

LEMMA CountSame ==
  ASSUME NEW S, NEW T, IsFiniteSet(T), NEW f \in [S -> T], OneToOne(f, S),
         \A t \in T : \E a \in S : f[a] = t
  PROVE  IsFiniteSet(S) /\ Cardinality(S) = Cardinality(T)
<1>1. f \in Injection(S, T) /\ f \in Surjection(S, T)
  BY DEF Injection, Surjection, IsInjective, OneToOne
<1>. QED BY <1>1, FS_Injection

LEMMA CountPlaces ==
  ASSUME NEW n \in Nat
  PROVE  IsFiniteSet(1..n) /\ Cardinality(1..n) = n
<1>1. IsFiniteSet(1..n) /\ Cardinality(1..n) = IF 1 > n THEN 0 ELSE n - 1 + 1
  BY FS_Interval
<1>. QED BY <1>1

LEMMA CountKept ==
  ASSUME NEW n \in Nat, NEW kept \in SUBSET (1..n)
  PROVE  IsFiniteSet(kept) /\ Cardinality(kept) \in Nat /\ Cardinality(kept) <= n
<1>1. IsFiniteSet(1..n) /\ Cardinality(1..n) = n
  BY CountPlaces
<1>2. IsFiniteSet(kept) /\ Cardinality(kept) <= Cardinality(1..n)
  BY <1>1, FS_Subset
<1>. QED BY <1>1, <1>2, FS_CardinalityType

----------------------------------------------------------------------------
(* What a stable sort is: the places that are kept, each once, in order.   *)

GoesBefore(keys, i, j) == keys[i] > keys[j] \/ (keys[i] = keys[j] /\ i < j)

Arranges(at, kept, keys) ==
  /\ at \in [1..Cardinality(kept) -> kept]
  /\ OneToOne(at, 1..Cardinality(kept))
  /\ \A i \in kept : \E k \in 1..Cardinality(kept) : at[k] = i
  /\ \A j, k \in 1..Cardinality(kept) : j < k => GoesBefore(keys, at[j], at[k])

Sorts(r, s, kept, keys) ==
  \E at : /\ Arranges(at, kept, keys)
          /\ r = [k \in 1..Cardinality(kept) |-> s[at[k]]]

LEMMA OrderedIs ==
  ASSUME NEW s, NEW n \in Nat, NEW kept \in SUBSET (1..n), NEW keys \in [kept -> Int]
  PROVE  Sorts(Ordered(s, kept, keys), s, kept, keys)
<1>. DEFINE c == Cardinality(kept)
            first(i) == {j \in kept : GoesBefore(keys, j, i)}
            place == [i \in kept |-> Cardinality(first(i)) + 1]
            at == [k \in 1..c |-> CHOOSE i \in kept : place[i] = k]
<1>1. IsFiniteSet(kept) /\ c \in Nat
  BY CountKept
<1>2. ASSUME NEW i \in kept
      PROVE  /\ IsFiniteSet(first(i)) /\ Cardinality(first(i)) \in Nat
             /\ place[i] \in 1..c
  <2>1. first(i) \in SUBSET (kept \ {i})
    BY DEF GoesBefore
  <2>2. IsFiniteSet(kept \ {i}) /\ Cardinality(kept \ {i}) = c - 1
    BY <1>1, FS_RemoveElement
  <2>. HIDE DEF c, first
  <2>3. IsFiniteSet(first(i)) /\ Cardinality(first(i)) <= c - 1
    BY <2>1, <2>2, FS_Subset
  <2>4. Cardinality(first(i)) \in Nat
    BY <2>3, FS_CardinalityType
  <2>. QED BY <1>1, <2>3, <2>4
<1>3. ASSUME NEW i \in kept, NEW j \in kept, GoesBefore(keys, i, j)
      PROVE  place[i] < place[j]
  <2>1. first(i) \cup {i} \in SUBSET first(j)
    <3>1. \A h \in kept : keys[h] \in Int /\ h \in Int
      OBVIOUS
    <3>2. \A h \in kept : GoesBefore(keys, h, i) => GoesBefore(keys, h, j)
      BY <1>3, <3>1 DEF GoesBefore
    <3>. QED BY <1>3, <3>2
  <2>2. i \notin first(i)
    BY DEF GoesBefore
  <2>3. IsFiniteSet(first(i)) /\ IsFiniteSet(first(j))
        /\ Cardinality(first(i)) \in Nat /\ Cardinality(first(j)) \in Nat
    BY <1>2
  <2>4. place[i] = Cardinality(first(i)) + 1 /\ place[j] = Cardinality(first(j)) + 1
    OBVIOUS
  <2>. HIDE DEF first, place
  <2>5. Cardinality(first(i) \cup {i}) = Cardinality(first(i)) + 1
    BY <2>2, <2>3, FS_AddElement
  <2>6. Cardinality(first(i) \cup {i}) <= Cardinality(first(j))
    BY <2>1, <2>3, FS_Subset
  <2>. QED BY <2>3, <2>4, <2>5, <2>6
<1>4. \A i, j \in kept : i = j \/ GoesBefore(keys, i, j) \/ GoesBefore(keys, j, i)
  <2>1. \A h \in kept : keys[h] \in Int /\ h \in Int
    OBVIOUS
  <2>. QED BY <2>1 DEF GoesBefore
<1>5. Ordered(s, kept, keys) = [k \in 1..c |-> s[at[k]]]
  <2>1. place = [i \in kept |-> Cardinality({j \in kept :
                    keys[j] > keys[i] \/ (keys[j] = keys[i] /\ j < i)}) + 1]
    BY DEF GoesBefore
  <2>. HIDE DEF place
  <2>2. \A k \in 1..c : at[k] = CHOOSE i \in kept : place[i] = k
    OBVIOUS
  <2>3. Ordered(s, kept, keys) = [k \in 1..c |-> s[CHOOSE i \in kept : place[i] = k]]
    BY <2>1 DEF Ordered
  <2>. HIDE DEF at
  <2>. QED BY <2>2, <2>3
<1>6. place \in [kept -> 1..c]
  <2>. HIDE DEF c
  <2>. QED BY <1>2
<1>. HIDE DEF first, place, c
<1>7. OneToOne(place, kept)
  <2>1. \A i \in kept : place[i] \in Int
    BY <1>1, <1>6
  <2>. QED BY <1>3, <1>4, <2>1 DEF OneToOne
<1>8. \A k \in 1..c : \E i \in kept : place[i] = k
  <2>. DEFINE T == 1..c
  <2>1. IsFiniteSet(T) /\ Cardinality(kept) = Cardinality(T)
    BY <1>1, CountPlaces DEF c
  <2>2. place \in [kept -> T]
    BY <1>6
  <2>. HIDE DEF T
  <2>3. place \in Injection(kept, T)
    BY <1>7, <2>2 DEF Injection, IsInjective, OneToOne
  <2>4. place \in Surjection(kept, T)
    BY <2>1, <2>3, FS_Injection
  <2>. QED BY <2>4 DEF T, Surjection
<1>9. \A k \in 1..c : at[k] \in kept /\ place[at[k]] = k
  BY <1>8
<1>. HIDE DEF at
<1>10. \A i \in kept : \E k \in 1..c : at[k] = i
  <2>1. \A i \in kept : place[i] \in 1..c /\ at[place[i]] \in kept /\ place[at[place[i]]] = place[i]
    BY <1>6, <1>9
  <2>. QED BY <1>7, <2>1 DEF OneToOne
<1>11. \A j, k \in 1..c : j < k => GoesBefore(keys, at[j], at[k])
  <2>. SUFFICES ASSUME NEW j \in 1..c, NEW k \in 1..c, j < k
                PROVE  GoesBefore(keys, at[j], at[k])
    OBVIOUS
  <2>1. at[j] \in kept /\ at[k] \in kept /\ place[at[j]] = j /\ place[at[k]] = k
    BY <1>9
  <2>2. j \in Int /\ k \in Int /\ ~(k < j) /\ j # k
    BY <1>1
  <2>. QED BY <1>3, <1>4, <2>1, <2>2
<1>12. at \in [1..c -> kept]
  BY <1>9 DEF at
<1>13. OneToOne(at, 1..c)
  BY <1>9 DEF OneToOne
<1>. QED BY <1>5, <1>10, <1>11, <1>12, <1>13 DEF Sorts, Arranges, c

----------------------------------------------------------------------------
(* Numbers that add up are places one after the other: l[1], then l[2]...  *)

Places(l) == {p \in Nat \X Nat : p[1] \in 1..Len(l) /\ p[2] \in 1..l[p[1]]}

Lined(g, l) == [p \in Places(l) |-> g[p[1] - 1] + p[2]]

LEMMA SeriesRises ==
  ASSUME NEW l \in Seq(Nat), NEW g, IsSeries(g, l)
  PROVE  /\ \A k \in 0..Len(l) : g[k] \in Nat
         /\ \A j, k \in 0..Len(l) : j <= k => g[j] <= g[k]
<1>. DEFINE n == Len(l)
            S == {d \in Nat : \A k \in 0..n : k + d <= n => g[k + d] \in Nat /\ g[k] <= g[k + d]}
            S0 == {k \in Nat : k <= n => g[k] \in Nat}
<1>1. n \in Nat /\ \A k \in 1..n : l[k] \in Nat
  OBVIOUS
<1>2. g[0] = 0 /\ \A k \in 1..n : g[k] = g[k - 1] + l[k]
  BY DEF IsSeries
<1>. HIDE DEF n
<1>3. S0 = Nat
  <2>1. 0 \in S0
    BY <1>2
  <2>2. ASSUME NEW k \in S0 PROVE k + 1 \in S0
    <3>1. k \in Nat
      OBVIOUS
    <3>2. CASE k + 1 <= n
      <4>1. k + 1 \in 1..n /\ (k + 1) - 1 = k /\ g[k] \in Nat
        BY <1>1, <3>1, <3>2
      <4>. QED BY <1>1, <1>2, <4>1
    <3>. QED BY <3>1, <3>2
  <2>3. S0 \in SUBSET Nat
    OBVIOUS
  <2>. HIDE DEF S0
  <2>. QED BY <2>1, <2>2, <2>3, NatStep
<1>4. \A k \in 0..n : g[k] \in Nat
  BY <1>1, <1>3
<1>. HIDE DEF S0
<1>5. S = Nat
  <2>1. 0 \in S
    BY <1>1, <1>4
  <2>2. ASSUME NEW d \in S PROVE d + 1 \in S
    <3>. SUFFICES ASSUME NEW k \in 0..n, k + (d + 1) <= n
                  PROVE  g[k + (d + 1)] \in Nat /\ g[k] <= g[k + (d + 1)]
      OBVIOUS
    <3>1. /\ k + d \in 0..n /\ k + d <= n /\ k + (d + 1) \in 1..n
          /\ (k + (d + 1)) - 1 = k + d /\ k + (d + 1) \in 0..n
      BY <1>1
    <3>2. g[k] <= g[k + d]
      BY <3>1
    <3>3. g[k + (d + 1)] = g[k + d] + l[k + (d + 1)] /\ l[k + (d + 1)] \in Nat
      BY <1>1, <1>2, <3>1
    <3>. QED BY <1>4, <3>1, <3>2, <3>3
  <2>3. S \in SUBSET Nat
    OBVIOUS
  <2>. HIDE DEF S
  <2>. QED BY <2>1, <2>2, <2>3, NatStep
<1>6. ASSUME NEW j \in 0..n, NEW k \in 0..n, j <= k PROVE g[j] <= g[k]
  <2>1. k - j \in Nat /\ j + (k - j) = k
    BY <1>1, <1>6
  <2>2. k - j \in S
    <3>. HIDE DEF S
    <3>. QED BY <1>5, <2>1
  <2>. QED BY <1>1, <2>1, <2>2
<1>. QED BY <1>4, <1>6 DEF n

LEMMA SeriesPlaces ==
  ASSUME NEW l \in Seq(Nat), NEW g, IsSeries(g, l)
  PROVE  /\ g[Len(l)] \in Nat
         /\ Lined(g, l) \in [Places(l) -> 1..g[Len(l)]]
         /\ OneToOne(Lined(g, l), Places(l))
         /\ \A x \in 1..g[Len(l)] : \E p \in Places(l) : Lined(g, l)[p] = x
<1>. DEFINE n == Len(l)
<1>1. n \in Nat /\ \A k \in 1..n : l[k] \in Nat
  OBVIOUS
<1>2. g[0] = 0 /\ \A k \in 1..n : g[k] = g[k - 1] + l[k]
  BY DEF IsSeries
<1>3. /\ \A k \in 0..n : g[k] \in Nat
      /\ \A j, k \in 0..n : j <= k => g[j] <= g[k]
  BY SeriesRises
<1>4. \A p \in Places(l) : /\ p[1] \in 1..n /\ p[2] \in 1..l[p[1]] /\ p = <<p[1], p[2]>>
                           /\ Lined(g, l)[p] = g[p[1] - 1] + p[2]
  BY DEF Places, Lined
<1>5. \A i \in 1..n, j \in Nat : j \in 1..l[i] => <<i, j>> \in Places(l)
  BY <1>1 DEF Places
<1>. HIDE DEF n
<1>6. ASSUME NEW p \in Places(l)
      PROVE  /\ Lined(g, l)[p] \in Nat /\ g[p[1] - 1] < Lined(g, l)[p]
             /\ Lined(g, l)[p] <= g[p[1]] /\ Lined(g, l)[p] <= g[n]
  <2>1. p[1] - 1 \in 0..n /\ p[1] \in 0..n /\ n \in 0..n /\ p[1] <= n
    BY <1>1, <1>4
  <2>2. g[p[1] - 1] \in Nat /\ p[2] \in Nat /\ p[2] >= 1 /\ p[2] <= l[p[1]] /\ l[p[1]] \in Nat
    BY <1>1, <1>3, <1>4, <2>1
  <2>3. g[p[1]] = g[p[1] - 1] + l[p[1]] /\ g[p[1]] <= g[n] /\ g[n] \in Nat
    BY <1>2, <1>3, <1>4, <2>1
  <2>4. Lined(g, l)[p] = g[p[1] - 1] + p[2]
    BY <1>4
  <2>5. \A a, j, k, m \in Nat :
          j >= 1 /\ j <= k /\ a + k <= m => a + j \in Nat /\ a < a + j /\ a + j <= a + k /\ a + j <= m
    OBVIOUS
  <2>6. g[p[1] - 1] + l[p[1]] <= g[n]
    BY <2>3
  <2>. QED BY <2>2, <2>3, <2>4, <2>5, <2>6
<1>7. ASSUME NEW p \in Places(l), NEW q \in Places(l), p[1] < q[1]
      PROVE  Lined(g, l)[p] < Lined(g, l)[q]
  <2>1. p[1] \in 0..n /\ q[1] - 1 \in 0..n /\ p[1] <= q[1] - 1
    BY <1>1, <1>4, <1>7
  <2>2. g[p[1]] <= g[q[1] - 1] /\ g[p[1]] \in Nat /\ g[q[1] - 1] \in Nat
    BY <1>3, <2>1
  <2>. QED BY <1>6, <2>2
<1>8. ASSUME NEW p \in Places(l), NEW q \in Places(l), Lined(g, l)[p] = Lined(g, l)[q]
      PROVE  p = q
  <2>1. Lined(g, l)[p] \in Nat /\ p[1] \in Nat /\ q[1] \in Nat
    BY <1>1, <1>4, <1>6
  <2>2. p[1] = q[1]
    BY <1>7, <1>8, <2>1
  <2>3. g[p[1] - 1] \in Nat /\ p[2] \in Nat /\ q[2] \in Nat
    <3>1. p[1] - 1 \in 0..n
      BY <1>1, <1>4
    <3>. QED BY <1>1, <1>3, <1>4, <3>1, <2>2
  <2>4. p[2] = q[2]
    BY <1>4, <1>8, <2>2, <2>3
  <2>. QED BY <1>4, <2>2, <2>4
<1>9. ASSUME NEW x \in 1..g[n] PROVE \E p \in Places(l) : Lined(g, l)[p] = x
  <2>. DEFINE T == {k \in Nat : k <= n /\ g[k] >= x}
  <2>0. g[n] \in Nat /\ x \in Nat /\ x >= 1
    BY <1>1, <1>3
  <2>1. T \in SUBSET Nat /\ n \in T
    BY <1>1, <2>0
  <2>2. PICK k \in T : \A y \in T : k <= y
    <3>. HIDE DEF T
    <3>. QED BY <2>1, NatLeast
  <2>3. k \in 1..n /\ k - 1 \in Nat /\ k - 1 \in 0..n
    BY <1>1, <1>2, <2>0
  <2>4. k - 1 \notin T
    <3>. HIDE DEF T
    <3>. QED BY <2>2, <2>3
  <2>5. g[k - 1] \in Nat /\ g[k - 1] < x /\ g[k] >= x /\ g[k] = g[k - 1] + l[k] /\ l[k] \in Nat
    <3>1. g[k - 1] \in Nat /\ g[k] = g[k - 1] + l[k] /\ l[k] \in Nat
      BY <1>1, <1>2, <1>3, <2>3
    <3>2. ~(g[k - 1] >= x) /\ g[k] >= x
      BY <1>1, <2>3, <2>4
    <3>. QED BY <2>0, <3>1, <3>2
  <2>. DEFINE j == x - g[k - 1]
  <2>6. j \in Nat /\ j \in 1..l[k] /\ g[k - 1] + j = x
    BY <2>0, <2>5
  <2>7. <<k, j>> \in Places(l)
    BY <1>5, <2>3, <2>6
  <2>. HIDE DEF j
  <2>8. Lined(g, l)[<<k, j>>] = x
    BY <1>4, <2>6, <2>7
  <2>. QED BY <2>7, <2>8
<1>10. Lined(g, l) \in [Places(l) -> 1..g[n]]
  <2>1. \A p \in Places(l) : Lined(g, l)[p] \in 1..g[n]
    <3>1. \A k \in 0..n : g[k] \in Nat
      BY <1>3
    <3>2. \A p \in Places(l) : p[1] - 1 \in 0..n /\ n \in 0..n
      BY <1>1, <1>4
    <3>3. ASSUME NEW p \in Places(l) PROVE Lined(g, l)[p] \in 1..g[n]
      <4>1. g[p[1] - 1] \in Nat /\ g[n] \in Nat
        BY <3>1, <3>2
      <4>. QED BY <1>6, <4>1
    <3>. QED BY <3>3
  <2>2. Lined(g, l) = [p \in Places(l) |-> Lined(g, l)[p]]
    BY DEF Lined
  <2>. QED BY <2>1, <2>2
<1>11. g[n] \in Nat
  BY <1>1, <1>3
<1>. QED BY <1>8, <1>9, <1>10, <1>11 DEF OneToOne, n

(* A total is a number of places.                                          *)
LEMMA TotalCounts ==
  ASSUME NEW l \in Seq(Nat)
  PROVE  IsFiniteSet(Places(l)) /\ Cardinality(Places(l)) = Total(l) /\ Total(l) \in Nat
<1>1. l \in Seq(Int) /\ Total(l) \in Nat
  BY TotalNatural
<1>2. PICK g : IsSeries(g, l) /\ Total(l) = g[Len(l)]
  BY <1>1, TotalSeries
<1>. DEFINE T == 1..Total(l)
            f == Lined(g, l)
<1>3. IsFiniteSet(T) /\ Cardinality(T) = Total(l)
  BY <1>1, CountPlaces
<1>4. f \in [Places(l) -> T] /\ OneToOne(f, Places(l)) /\ \A x \in T : \E p \in Places(l) : f[p] = x
  BY <1>2, SeriesPlaces
<1>. HIDE DEF T, f
<1>5. IsFiniteSet(Places(l)) /\ Cardinality(Places(l)) = Cardinality(T)
  BY <1>3, <1>4, CountSame
<1>. QED BY <1>1, <1>3, <1>5

----------------------------------------------------------------------------
(* Sequences put one after the other: every item of every one of them has  *)
(* a place of its own in the whole.                                        *)

IsFlat(f, ss) == f[0] = <<>> /\ \A k \in 1..Len(ss) : f[k] = f[k - 1] \o ss[k]

Lengths(ss) == [i \in 1..Len(ss) |-> Len(ss[i])]

Lays(at, ss, whole) ==
  /\ at \in [Places(Lengths(ss)) -> 1..Len(whole)]
  /\ OneToOne(at, Places(Lengths(ss)))
  /\ \A x \in 1..Len(whole) : \E p \in Places(Lengths(ss)) : at[p] = x
  /\ \A p \in Places(Lengths(ss)) : whole[at[p]] = ss[p[1]][p[2]]

LEMMA FlatExists ==
  ASSUME NEW V, NEW ss \in Seq(Seq(V))
  PROVE  \E f \in [0..Len(ss) -> Seq(V)] : IsFlat(f, ss)
<1>. DEFINE n == Len(ss)
            W == Seq(V)
            step == [p \in (1..n) \X W |-> p[2] \o ss[p[1]]]
            f(h) == [k \in 0..n |-> h[1..k]]
<1>1. n \in Nat /\ <<>> \in W /\ \A i \in 1..n : ss[i] \in W
  OBVIOUS
<1>2. step \in [(1..n) \X W -> W] /\ \A i \in 1..n, v \in W : step[i, v] = v \o ss[i]
  <2>1. \A i \in 1..n, v \in W : v \o ss[i] \in W
    BY <1>1
  <2>. HIDE DEF W, n
  <2>. QED BY <2>1
<1>. HIDE DEF n, W, step
<1>3. PICK h \in [SUBSET (1..n) -> W] : FoldEquation(h, n, <<>>, step)
  BY <1>1, <1>2, FoldExists DEF Foldable
<1>4. h[{}] = <<>>
  BY <1>3 DEF FoldEquation
<1>5. ASSUME NEW k \in 1..n PROVE h[1..k] = h[1..k - 1] \o ss[k]
  <2>1. 1..k \in SUBSET (1..n) /\ 1..k # {} /\ Greatest(1..k) = k /\ (1..k) \ {k} = 1..k - 1
    BY <1>1, PrefixStep
  <2>2. h[1..k] = step[k, h[1..k - 1]]
    BY <1>3, <2>1 DEF FoldEquation
  <2>3. 1..k - 1 \in SUBSET (1..n)
    BY <2>1
  <2>4. h[1..k - 1] \in W
    BY <1>3, <2>3
  <2>. QED BY <1>2, <2>2, <2>4
<1>6. f(h) \in [0..n -> W]
  <2>1. \A k \in 0..n : 1..k \in SUBSET (1..n)
    BY <1>1
  <2>. QED BY <1>3, <2>1
<1>7. IsFlat(f(h), ss)
  <2>1. 1..0 = {} /\ 0 \in 0..n
    BY <1>1
  <2>2. f(h)[0] = <<>>
    BY <1>4, <2>1
  <2>3. \A k \in 1..n : k \in 0..n /\ k - 1 \in 0..n
    BY <1>1
  <2>4. \A k \in 1..n : f(h)[k] = f(h)[k - 1] \o ss[k]
    BY <1>5, <2>3
  <2>. HIDE DEF f
  <2>. QED BY <2>2, <2>4 DEF IsFlat, n
<1>. HIDE DEF f
<1>. QED BY <1>6, <1>7 DEF n, W

LEMMA Joined ==
  ASSUME NEW V, NEW a \in Seq(V), NEW b \in Seq(V)
  PROVE  /\ a \o b \in Seq(V) /\ Len(a \o b) = Len(a) + Len(b)
         /\ \A x \in 1..Len(a) : (a \o b)[x] = a[x]
         /\ \A j \in 1..Len(b) : (a \o b)[Len(a) + j] = b[j]
  OBVIOUS

LEMMA FlatPlaces ==
  ASSUME NEW V, NEW ss \in Seq(Seq(V)), NEW f \in [0..Len(ss) -> Seq(V)], IsFlat(f, ss)
  PROVE  /\ f[Len(ss)] \in Seq(V)
         /\ Lengths(ss) \in Seq(Nat) /\ Len(Lengths(ss)) = Len(ss)
         /\ Len(f[Len(ss)]) = Total(Lengths(ss))
         /\ \E at : Lays(at, ss, f[Len(ss)])
<1>. DEFINE n == Len(ss)
            l == Lengths(ss)
            g == [k \in 0..n |-> Len(f[k])]
            P == Places(l)
            S == {k \in Nat : k <= n =>
                    \A p \in P : p[1] <= k => f[k][g[p[1] - 1] + p[2]] = ss[p[1]][p[2]]}
<1>1. /\ n \in Nat /\ \A i \in 1..n : ss[i] \in Seq(V) /\ Len(ss[i]) \in Nat
      /\ \A k \in 0..n : f[k] \in Seq(V) /\ Len(f[k]) \in Nat
  OBVIOUS
<1>2. l \in Seq(Nat) /\ Len(l) = n /\ \A i \in 1..n : l[i] = Len(ss[i])
  BY <1>1 DEF Lengths
<1>3. f[0] = <<>> /\ \A k \in 1..n : f[k] = f[k - 1] \o ss[k]
  BY DEF IsFlat
<1>. HIDE DEF n, l
<1>4. IsSeries(g, l)
  <2>1. g \in [0..n -> Int] /\ g[0] = 0
    BY <1>1, <1>3
  <2>2. ASSUME NEW k \in 1..n PROVE g[k] = g[k - 1] + l[k]
    <3>1. k \in 0..n /\ k - 1 \in 0..n
      BY <1>1
    <3>2. Len(f[k]) = Len(f[k - 1]) + Len(ss[k])
      BY <1>1, <1>3, <3>1
    <3>. QED BY <1>2, <3>1, <3>2
  <2>. HIDE DEF g
  <2>. QED BY <1>2, <2>1, <2>2 DEF IsSeries
<1>5. \A k \in 0..n : g[k] = Len(f[k])
  OBVIOUS
<1>. HIDE DEF g
<1>6. \A p \in P : p[1] \in 1..n /\ p[2] \in 1..Len(ss[p[1]]) /\ Lined(g, l)[p] = g[p[1] - 1] + p[2]
  BY <1>2 DEF Places, Lined
<1>7. \A j, k \in 0..n : j <= k => g[j] <= g[k]
  BY <1>2, <1>4, SeriesRises
<1>. HIDE DEF P
<1>8. 0 \in S
  BY <1>1, <1>6
<1>9. ASSUME NEW k \in S PROVE k + 1 \in S
  <2>. SUFFICES ASSUME k + 1 <= n, NEW p \in P, p[1] <= k + 1
                PROVE  f[k + 1][g[p[1] - 1] + p[2]] = ss[p[1]][p[2]]
    OBVIOUS
  <2>. DEFINE i == p[1]
              j == p[2]
              x == g[i - 1] + j
  <2>1. k \in 0..n /\ k + 1 \in 1..n /\ (k + 1) - 1 = k /\ k <= n
    BY <1>1
  <2>2. i \in 1..n /\ j \in 1..Len(ss[i]) /\ i <= k + 1 /\ Len(ss[i]) \in Nat /\ ss[i] \in Seq(V)
    BY <1>1, <1>6
  <2>3. i <= k => f[k][x] = ss[i][j]
    BY <2>1
  <2>. HIDE DEF i, j, S
  <2>4. i - 1 \in 0..n /\ i \in 0..n /\ g[i - 1] \in Nat /\ g[i] = g[i - 1] + Len(ss[i])
    <3>1. i - 1 \in 0..n /\ i \in 0..n
      BY <1>1, <2>2
    <3>2. g[i] = g[i - 1] + l[i]
      BY <1>2, <1>4, <2>2 DEF IsSeries
    <3>. QED BY <1>1, <1>2, <1>5, <2>2, <3>1, <3>2
  <2>5. f[k + 1] = f[k] \o ss[k + 1] /\ f[k] \in Seq(V) /\ Len(f[k]) = g[k] /\ ss[k + 1] \in Seq(V)
    BY <1>1, <1>3, <1>5, <2>1
  <2>9. /\ \A y \in 1..g[k] : f[k + 1][y] = f[k][y]
        /\ \A y \in 1..Len(ss[k + 1]) : f[k + 1][g[k] + y] = ss[k + 1][y]
    <3>. DEFINE a == f[k]
                b == ss[k + 1]
    <3>1. a \in Seq(V) /\ b \in Seq(V)
      BY <2>5
    <3>. HIDE DEF a, b
    <3>2. /\ \A y \in 1..Len(a) : (a \o b)[y] = a[y]
          /\ \A y \in 1..Len(b) : (a \o b)[Len(a) + y] = b[y]
      BY <3>1, Joined
    <3>3. f[k + 1] = a \o b /\ Len(a) = g[k]
      BY <2>5 DEF a, b
    <3>. QED BY <3>2, <3>3 DEF a, b
  <2>10. g[k] \in Nat /\ g[i - 1] \in Nat /\ j \in Nat /\ j >= 1 /\ j <= Len(ss[i])
    BY <2>2, <2>4, <2>5
  <2>6. CASE i <= k
    <3>1. g[i - 1] + Len(ss[i]) <= g[k]
      BY <1>7, <2>1, <2>4, <2>6
    <3>2. \A h, m, q, r \in Nat : q >= 1 /\ q <= m /\ h + m <= r => h + q \in 1..r
      OBVIOUS
    <3>3. x \in 1..g[k]
      BY <2>2, <2>10, <3>1, <3>2
    <3>. HIDE DEF x
    <3>4. f[k + 1][x] = f[k][x]
      BY <2>9, <3>3
    <3>. QED BY <2>3, <2>6, <3>4 DEF x, i, j
  <2>7. CASE i = k + 1
    <3>1. x = g[k] + j /\ j \in 1..Len(ss[k + 1])
      BY <2>1, <2>2, <2>7
    <3>. HIDE DEF x
    <3>2. f[k + 1][x] = ss[k + 1][j]
      BY <2>9, <3>1
    <3>. QED BY <2>7, <3>2 DEF x, i, j
  <2>8. i <= k \/ i = k + 1
    BY <2>1, <2>2
  <2>. QED BY <2>6, <2>7, <2>8 DEF i, j, x
<1>10. S = Nat
  <2>1. S \in SUBSET Nat
    OBVIOUS
  <2>. HIDE DEF S
  <2>. QED BY <1>8, <1>9, <2>1, NatStep
<1>11. \A p \in P : f[n][g[p[1] - 1] + p[2]] = ss[p[1]][p[2]]
  <2>1. \A p \in P : p[1] <= n
    BY <1>1, <1>6
  <2>2. n \in S
    <3>. HIDE DEF S
    <3>. QED BY <1>1, <1>10
  <2>3. n <= n
    BY <1>1
  <2>. QED BY <2>1, <2>2, <2>3
<1>12. g[n] = Len(f[n]) /\ Len(f[n]) = Total(l) /\ f[n] \in Seq(V)
  <2>1. l \in Seq(Int)
    BY <1>2
  <2>2. Total(l) = g[Len(l)]
    BY <1>4, <2>1, SeriesTotal
  <2>. QED BY <1>1, <1>2, <1>5, <2>2
<1>13. Lays(Lined(g, l), ss, f[n])
  <2>1. /\ Lined(g, l) \in [P -> 1..g[n]] /\ OneToOne(Lined(g, l), P)
        /\ \A x \in 1..g[n] : \E p \in P : Lined(g, l)[p] = x
    BY <1>2, <1>4, SeriesPlaces DEF P
  <2>. QED BY <1>6, <1>11, <1>12, <2>1 DEF Lays, P, l
<1>. QED BY <1>2, <1>12, <1>13 DEF n, l

(* What FlattenSeq of SequencesExt computes; a module that uses it says so *)
(* by expanding both.                                                      *)
Flattened(seqs) ==
  IF Len(seqs) = 0 THEN seqs
  ELSE LET flatten[i \in 1..Len(seqs)] ==
             IF i = 1 THEN seqs[i] ELSE flatten[i - 1] \o seqs[i]
       IN  flatten[Len(seqs)]

(* It is the last of the intermediate concatenations.                      *)
LEMMA FlattenFolds ==
  ASSUME NEW V, NEW ss \in Seq(Seq(V)), NEW f \in [0..Len(ss) -> Seq(V)], IsFlat(f, ss)
  PROVE  Flattened(ss) = f[Len(ss)]
<1>. DEFINE n == Len(ss)
            Solves(h) == h = [i \in 1..n |-> IF i = 1 THEN ss[i] ELSE h[i - 1] \o ss[i]]
            g == CHOOSE h : Solves(h)
            S == {k \in Nat : k + 1 \in 1..n => g[k + 1] = f[k + 1]}
<1>1. n \in Nat /\ (n = 0 => ss = <<>>) /\ \A i \in 1..n : ss[i] \in Seq(V)
  OBVIOUS
<1>3. f[0] = <<>> /\ \A k \in 1..n : f[k] = f[k - 1] \o ss[k]
  BY DEF IsFlat
<1>4. Flattened(ss) = IF n = 0 THEN ss ELSE g[n]
  BY DEF Flattened
<1>. HIDE DEF n
<1>5. n > 0 => f[1] = ss[1]
  <2>1. ASSUME n > 0 PROVE f[1] = ss[1]
    <3>1. 1 \in 1..n /\ 1 - 1 = 0
      BY <1>1, <2>1
    <3>2. f[1] = <<>> \o ss[1] /\ ss[1] \in Seq(V)
      BY <1>1, <1>3, <3>1
    <3>. QED BY <3>2
  <2>. QED BY <2>1
<1>6. Solves(g)
  <2>. DEFINE h == [i \in 1..n |-> f[i]]
  <2>1. ASSUME NEW i \in 1..n PROVE h[i] = IF i = 1 THEN ss[i] ELSE h[i - 1] \o ss[i]
    <3>1. CASE i = 1
      BY <1>1, <1>5, <2>1, <3>1
    <3>2. CASE i # 1
      <4>1. i - 1 \in 1..n
        BY <1>1, <3>2
      <4>. QED BY <1>3, <3>2, <4>1
    <3>. QED BY <3>1, <3>2
  <2>2. h = [i \in 1..n |-> h[i]]
    OBVIOUS
  <2>. HIDE DEF h
  <2>3. Solves(h)
    BY <2>1, <2>2
  <2>. HIDE DEF Solves
  <2>. QED BY <2>3 DEF g
<1>. HIDE DEF g
<1>7. \A i \in 1..n : g[i] = IF i = 1 THEN ss[i] ELSE g[i - 1] \o ss[i]
  BY <1>6
<1>. HIDE DEF Solves
<1>8. S = Nat
  <2>1. 0 \in S
    BY <1>1, <1>5, <1>7
  <2>2. ASSUME NEW k \in S PROVE k + 1 \in S
    <3>. SUFFICES ASSUME (k + 1) + 1 \in 1..n
                  PROVE  g[(k + 1) + 1] = f[(k + 1) + 1]
      OBVIOUS
    <3>1. k + 1 \in 1..n /\ ((k + 1) + 1) - 1 = k + 1 /\ (k + 1) + 1 # 1
      BY <1>1
    <3>2. g[k + 1] = f[k + 1]
      BY <3>1
    <3>3. g[(k + 1) + 1] = g[k + 1] \o ss[(k + 1) + 1]
      BY <1>7, <3>1
    <3>4. f[(k + 1) + 1] = f[k + 1] \o ss[(k + 1) + 1]
      BY <1>3, <3>1
    <3>. QED BY <3>2, <3>3, <3>4
  <2>3. S \in SUBSET Nat
    OBVIOUS
  <2>. HIDE DEF S
  <2>. QED BY <2>1, <2>2, <2>3, NatStep
<1>9. Flattened(ss) = f[n]
  <2>1. CASE n = 0
    BY <1>1, <1>3, <1>4, <2>1
  <2>2. CASE n # 0
    <3>1. n - 1 \in Nat /\ (n - 1) + 1 = n /\ n \in 1..n
      BY <1>1, <2>2
    <3>2. n - 1 \in S
      <4>. HIDE DEF S
      <4>. QED BY <1>8, <3>1
    <3>. QED BY <1>4, <2>2, <3>1, <3>2
  <2>. QED BY <2>1, <2>2
<1>. QED BY <1>9 DEF n

LEMMA FlattenIs ==
  ASSUME NEW V, NEW ss \in Seq(Seq(V))
  PROVE  /\ Flattened(ss) \in Seq(V)
         /\ Lengths(ss) \in Seq(Nat) /\ Len(Lengths(ss)) = Len(ss)
         /\ Len(Flattened(ss)) = Total(Lengths(ss))
         /\ \E at : Lays(at, ss, Flattened(ss))
<1>1. PICK f \in [0..Len(ss) -> Seq(V)] : IsFlat(f, ss)
  BY FlatExists
<1>2. Flattened(ss) = f[Len(ss)]
  BY <1>1, FlattenFolds
<1>. QED BY <1>1, <1>2, FlatPlaces

----------------------------------------------------------------------------
(* Encodings.  From a, whatever follows it, x can be read, as y from b:    *)
(* when two byte strings begin with a and b and are equal, what was        *)
(* encoded is equal, and so is what follows.                               *)

Says(a, b, x, y) ==
  \A s, t \in Seq(Nat) : a \o s = b \o t => x = y /\ s = t

Regroups(a, b, c) == (a \o b) \o c = a \o (b \o c)

LEMMA JoinedThrice == \A a, b, c \in Seq(Nat) : Regroups(a, b, c)
<1>. SUFFICES ASSUME NEW a \in Seq(Nat), NEW b \in Seq(Nat), NEW c \in Seq(Nat)
              PROVE  (a \o b) \o c = a \o (b \o c)
  BY DEF Regroups
<1>. DEFINE l == (a \o b) \o c
            r == a \o (b \o c)
            n == (Len(a) + Len(b)) + Len(c)
<1>1. Len(a) \in Nat /\ Len(b) \in Nat /\ Len(c) \in Nat
  OBVIOUS
<1>2. /\ a \o b \in Seq(Nat) /\ b \o c \in Seq(Nat)
      /\ Len(a \o b) = Len(a) + Len(b) /\ Len(b \o c) = Len(b) + Len(c)
  BY Joined
<1>3. l \in Seq(Nat) /\ r \in Seq(Nat) /\ Len(l) = n /\ Len(r) = n
  <2>1. l \in Seq(Nat) /\ Len(l) = Len(a \o b) + Len(c)
    BY <1>2, Joined
  <2>2. r \in Seq(Nat) /\ Len(r) = Len(a) + Len(b \o c)
    BY <1>2, Joined
  <2>. HIDE DEF l, r
  <2>. QED BY <1>1, <1>2, <2>1, <2>2
<1>4. ASSUME NEW i \in 1..n PROVE l[i] = r[i]
  <2>1. /\ \A x \in 1..Len(a \o b) : l[x] = (a \o b)[x]
        /\ \A j \in 1..Len(c) : l[Len(a \o b) + j] = c[j]
    BY <1>2, Joined
  <2>2. /\ \A x \in 1..Len(a) : r[x] = a[x]
        /\ \A j \in 1..Len(b \o c) : r[Len(a) + j] = (b \o c)[j]
    BY <1>2, Joined
  <2>3. /\ \A x \in 1..Len(a) : (a \o b)[x] = a[x]
        /\ \A j \in 1..Len(b) : (a \o b)[Len(a) + j] = b[j]
        /\ \A x \in 1..Len(b) : (b \o c)[x] = b[x]
        /\ \A j \in 1..Len(c) : (b \o c)[Len(b) + j] = c[j]
    BY Joined
  <2>. HIDE DEF l, r
  <2>4. CASE i <= Len(a)
    <3>1. i \in 1..Len(a) /\ i \in 1..Len(a \o b)
      BY <1>1, <1>2, <2>4
    <3>. QED BY <2>1, <2>2, <2>3, <3>1
  <2>5. CASE Len(a) < i /\ i <= Len(a) + Len(b)
    <3>. DEFINE j == i - Len(a)
    <3>1. /\ j \in 1..Len(b) /\ j \in 1..Len(b \o c) /\ i \in 1..Len(a \o b)
          /\ Len(a) + j = i
      BY <1>1, <1>2, <2>5
    <3>. HIDE DEF j
    <3>2. l[i] = b[j] /\ r[i] = b[j]
      BY <2>1, <2>2, <2>3, <3>1
    <3>. QED BY <3>2
  <2>6. CASE Len(a) + Len(b) < i
    <3>. DEFINE j == i - (Len(a) + Len(b))
    <3>1. /\ j \in 1..Len(c) /\ Len(b) + j \in 1..Len(b \o c)
          /\ Len(a \o b) + j = i /\ Len(a) + (Len(b) + j) = i
      BY <1>1, <1>2, <2>6
    <3>. HIDE DEF j
    <3>2. l[i] = c[j]
      BY <2>1, <3>1
    <3>3. r[i] = (b \o c)[Len(b) + j]
      BY <2>2, <3>1
    <3>. QED BY <2>3, <3>1, <3>2, <3>3
  <2>. QED BY <1>1, <2>4, <2>5, <2>6
<1>. HIDE DEF l, r, n
<1>5. l = r
  BY <1>3, <1>4
<1>. QED BY <1>5 DEF l, r

LEMMA SameItems ==
  ASSUME NEW V, NEW a \in Seq(V), NEW b \in Seq(V), Len(a) = Len(b),
         \A i \in 1..Len(a) : a[i] = b[i]
  PROVE  a = b
  OBVIOUS

(* One symbol says what it is; so does a sequence behind its length.       *)
LEMMA SymbolSays ==
  ASSUME NEW x \in Nat, NEW y \in Nat
  PROVE  Says(<<x>>, <<y>>, x, y)
<1>. SUFFICES ASSUME NEW s \in Seq(Nat), NEW t \in Seq(Nat), <<x>> \o s = <<y>> \o t
              PROVE  x = y /\ s = t
  BY DEF Says
<1>1. <<x>> \in Seq(Nat) /\ <<y>> \in Seq(Nat) /\ Len(<<x>>) = 1 /\ Len(<<y>>) = 1
      /\ <<x>>[1] = x /\ <<y>>[1] = y /\ Len(s) \in Nat /\ Len(t) \in Nat
  OBVIOUS
<1>. DEFINE l == <<x>> \o s
            r == <<y>> \o t
<1>2. /\ Len(l) = 1 + Len(s) /\ l[1] = x
      /\ \A j \in 1..Len(s) : l[1 + j] = s[j]
  BY <1>1, Joined
<1>3. /\ Len(r) = 1 + Len(t) /\ r[1] = y
      /\ \A j \in 1..Len(t) : r[1 + j] = t[j]
  BY <1>1, Joined
<1>4. l = r
  OBVIOUS
<1>. HIDE DEF l, r
<1>5. x = y /\ Len(s) = Len(t)
  BY <1>1, <1>2, <1>3, <1>4
<1>6. \A j \in 1..Len(s) : s[j] = t[j]
  BY <1>2, <1>3, <1>4, <1>5
<1>7. s = t
  BY <1>5, <1>6, SameItems
<1>. QED BY <1>5, <1>7

LEMMA CutSays ==
  ASSUME NEW b \in Seq(Nat), NEW c \in Seq(Nat), Len(b) = Len(c)
  PROVE  Says(b, c, b, c)
<1>0. \A p, q \in Seq(Nat) :
        /\ Len(p \o q) = Len(p) + Len(q)
        /\ \A x \in 1..Len(p) : (p \o q)[x] = p[x]
        /\ \A j \in 1..Len(q) : (p \o q)[Len(p) + j] = q[j]
  BY Joined
<1>. SUFFICES ASSUME NEW s \in Seq(Nat), NEW t \in Seq(Nat), b \o s = c \o t
              PROVE  b = c /\ s = t
  BY DEF Says
<1>. DEFINE l == b \o s
            r == c \o t
<1>1. /\ Len(l) = Len(b) + Len(s)
      /\ \A x \in 1..Len(b) : l[x] = b[x]
      /\ \A j \in 1..Len(s) : l[Len(b) + j] = s[j]
  BY <1>0, Zenon
<1>2. /\ Len(r) = Len(c) + Len(t)
      /\ \A x \in 1..Len(c) : r[x] = c[x]
      /\ \A j \in 1..Len(t) : r[Len(c) + j] = t[j]
  BY <1>0, Zenon
<1>3. l = r /\ Len(b) \in Nat /\ Len(s) \in Nat /\ Len(t) \in Nat
  OBVIOUS
<1>. HIDE DEF l, r
<1>4. Len(s) = Len(t)
  BY <1>1, <1>2, <1>3
<1>5. (\A x \in 1..Len(b) : b[x] = c[x]) /\ \A j \in 1..Len(s) : s[j] = t[j]
  BY <1>1, <1>2, <1>3, <1>4
<1>6. b = c
  BY <1>5, SameItems
<1>7. s = t
  BY <1>4, <1>5, SameItems
<1>. QED BY <1>6, <1>7

(* Two encodings one after the other say both things, the second perhaps   *)
(* only because the first is known.                                        *)
LEMMA JoinSays ==
  ASSUME NEW a \in Seq(Nat), NEW b \in Seq(Nat), NEW c \in Seq(Nat), NEW d \in Seq(Nat),
         NEW x, NEW y, NEW u, NEW v,
         Says(a, b, x, y), x = y => Says(c, d, u, v)
  PROVE  Says(a \o c, b \o d, <<x, u>>, <<y, v>>)
<1>. SUFFICES ASSUME NEW s \in Seq(Nat), NEW t \in Seq(Nat), (a \o c) \o s = (b \o d) \o t
              PROVE  x = y /\ u = v /\ s = t
  BY DEF Says
<1>1. Regroups(a, c, s) /\ Regroups(b, d, t)
  BY JoinedThrice
<1>2. a \o (c \o s) = b \o (d \o t)
  BY <1>1 DEF Regroups
<1>3. c \o s \in Seq(Nat) /\ d \o t \in Seq(Nat)
  OBVIOUS
<1>4. x = y /\ c \o s = d \o t
  BY <1>2, <1>3 DEF Says
<1>. QED BY <1>4 DEF Says

(* Two lists of as many encodings say their items.                         *)
EachSays(ss, tt, xs, ys) == \A i \in 1..Len(ss) : Says(ss[i], tt[i], xs[i], ys[i])

WholeSays(ss, tt, xs, ys) ==
  \A s, t \in Seq(Nat) :
    Flattened(ss) \o s = Flattened(tt) \o t =>
      (\A i \in 1..Len(ss) : xs[i] = ys[i]) /\ s = t

LEMMA FlatSays ==
  ASSUME NEW ss \in Seq(Seq(Nat)), NEW tt \in Seq(Seq(Nat)), Len(ss) = Len(tt),
         NEW xs, NEW ys, EachSays(ss, tt, xs, ys)
  PROVE  WholeSays(ss, tt, xs, ys)
<1>. DEFINE n == Len(ss)
<1>1. n \in Nat /\ \A i \in 1..n : ss[i] \in Seq(Nat) /\ tt[i] \in Seq(Nat)
  OBVIOUS
<1>2. PICK f \in [0..n -> Seq(Nat)] : IsFlat(f, ss)
  BY FlatExists
<1>3. PICK g \in [0..n -> Seq(Nat)] : IsFlat(g, tt)
  BY FlatExists
<1>4. /\ f[0] = <<>> /\ \A k \in 1..n : f[k] = f[k - 1] \o ss[k]
      /\ g[0] = <<>> /\ \A k \in 1..n : g[k] = g[k - 1] \o tt[k]
  BY <1>2, <1>3 DEF IsFlat
<1>5. Flattened(ss) = f[n] /\ Flattened(tt) = g[n]
  BY <1>2, <1>3, FlattenFolds
<1>. DEFINE Agree(k) == \A s, t \in Seq(Nat) : f[k] \o s = g[k] \o t =>
                          (\A i \in 1..k : xs[i] = ys[i]) /\ s = t
            S == {k \in Nat : k <= n => Agree(k)}
<1>. HIDE DEF n
<1>6. 0 \in S
  <2>1. \A s \in Seq(Nat) : <<>> \o s = s
    OBVIOUS
  <2>2. Agree(0)
    BY <1>4, <2>1
  <2>. QED BY <2>2
<1>7. ASSUME NEW k \in S PROVE k + 1 \in S
  <2>. DEFINE j == k + 1
  <2>. HIDE DEF Agree
  <2>. SUFFICES ASSUME j <= n PROVE Agree(j)
    BY DEF S
  <2>. USE DEF Agree
  <2>. SUFFICES ASSUME NEW s \in Seq(Nat), NEW t \in Seq(Nat), f[j] \o s = g[j] \o t
                PROVE  (\A i \in 1..j : xs[i] = ys[i]) /\ s = t
    BY Zenon
  <2>1. k \in Nat /\ k <= n /\ k \in 0..n /\ j \in 1..n /\ j - 1 = k
    BY <1>1
  <2>2. Agree(k)
    BY <2>1
  <2>3. f[j] = f[k] \o ss[j] /\ g[j] = g[k] \o tt[j]
    BY <1>4, <2>1
  <2>4. f[k] \in Seq(Nat) /\ g[k] \in Seq(Nat) /\ ss[j] \in Seq(Nat) /\ tt[j] \in Seq(Nat)
    BY <1>1, <2>1
  <2>5. Regroups(f[k], ss[j], s) /\ Regroups(g[k], tt[j], t)
    BY <2>4, JoinedThrice
  <2>6. ss[j] \o s \in Seq(Nat) /\ tt[j] \o t \in Seq(Nat)
    BY <2>4
  <2>7. f[k] \o (ss[j] \o s) = g[k] \o (tt[j] \o t)
    BY <2>3, <2>5 DEF Regroups
  <2>8. (\A i \in 1..k : xs[i] = ys[i]) /\ ss[j] \o s = tt[j] \o t
    BY <2>2, <2>6, <2>7
  <2>9. Says(ss[j], tt[j], xs[j], ys[j])
    BY <2>1 DEF n, EachSays
  <2>10. xs[j] = ys[j] /\ s = t
    BY <2>8, <2>9 DEF Says
  <2>11. \A i \in 1..j : i \in 1..k \/ i = j
    BY <2>1
  <2>. QED BY <2>8, <2>10, <2>11
<1>8. S = Nat
  <2>1. S \in SUBSET Nat
    OBVIOUS
  <2>. HIDE DEF S
  <2>. QED BY <1>6, <1>7, <2>1, NatStep
<1>9. Agree(n)
  <2>1. n \in S
    <3>. HIDE DEF S
    <3>. QED BY <1>1, <1>8
  <2>2. n <= n
    BY <1>1
  <2>. HIDE DEF Agree
  <2>. QED BY <2>1, <2>2
<1>. QED BY <1>5, <1>9 DEF n, WholeSays
=============================================================================
