----------------------------- MODULE FoldLemmas -----------------------------
(***************************************************************************)
(* Facts the proofs about several components rest on: least and greatest   *)
(* numbers, functions defined step by step or by jumps, and what FoldLeft  *)
(* of SequencesExt makes of a sequence.  Induction is by least             *)
(* counterexamples.                                                        *)
(***************************************************************************)
EXTENDS Integers, Sequences, FiniteSets, SequencesExt, SequenceTheorems, FiniteSetTheorems,
        WellFoundedInduction, TLAPS

-----------------------------------------------------------------------------
(* Least and greatest numbers.                                              *)

\* A set of naturals has a least element.
LEMMA LeastNat ==
  ASSUME NEW T \in SUBSET Nat, T # {}
  PROVE  \E m \in T : \A k \in T : m <= k
<1> DEFINE R == {ss \in Nat \X Nat : ss[1] < ss[2]}
<1>1. IsWellFoundedOn(OpToRel(<, Nat), Nat)
  BY NatLessThanWellFounded
<1>2. OpToRel(<, Nat) = R
  BY DEF OpToRel
<1>3. IsWellFoundedOn(R, Nat)
  BY <1>1, <1>2
<1> HIDE DEF R
<1>4. PICK x \in T : \A y \in T : ~(<<y, x>> \in R)
  BY <1>3, WFMin
<1>5. \A y \in T : ~(y < x)
  BY <1>4 DEF R
<1> QED
  BY <1>5

\* What Max picks from a set that is bounded above.
LEMMA MaxPicks ==
  ASSUME NEW T \in SUBSET Int, T # {}, NEW b \in Int, \A x \in T : x <= b
  PROVE  Max(T) \in T /\ \A x \in T : x <= Max(T)
<1> DEFINE D == {n \in Nat : \E x \in T : n = b - x}
<1>1. D \in SUBSET Nat
  OBVIOUS
<1>2. D # {}
  <2>1. PICK x \in T : TRUE
    OBVIOUS
  <2>2. b - x \in Nat
    BY <2>1
  <2> QED
    BY <2>1, <2>2
<1>3. PICK m \in D : \A k \in D : m <= k
  <2> HIDE DEF D
  <2> QED
    BY <1>1, <1>2, LeastNat
<1>4. PICK y \in T : m = b - y
  BY <1>3
<1>5. ASSUME NEW x \in T PROVE y >= x
  <2>1. b - x \in D
    OBVIOUS
  <2>2. m <= b - x
    BY <1>3, <2>1
  <2> QED
    BY <1>4, <2>2
<1>6. \E z \in T : \A x \in T : z >= x
  BY <1>5
<1>7. Max(T) \in T /\ \A x \in T : Max(T) >= x
  BY <1>6 DEF Max
<1> QED
  BY <1>7

\* What Min picks from a set of naturals.
LEMMA MinPicks ==
  ASSUME NEW T \in SUBSET Nat, T # {}
  PROVE  Min(T) \in T /\ \A x \in T : Min(T) <= x
<1>1. \E z \in T : \A x \in T : z <= x
  BY LeastNat
<1> QED
  BY <1>1 DEF Min

\* A function on 1 .. n is a sequence of length n.
LEMMA FunctionIsSeq ==
  ASSUME NEW S, NEW n \in Nat, NEW t \in [1 .. n -> S]
  PROVE  t \in Seq(S) /\ Len(t) = n
<1>1. t \in Seq(S)
  BY SeqDef
<1>2. Len(t) \in Nat /\ DOMAIN t = 1 .. Len(t)
  BY <1>1, LenProperties
<1>3. 1 .. n = 1 .. Len(t)
  BY <1>2
<1>4. n = Len(t)
  BY <1>2, <1>3
<1> QED
  BY <1>1, <1>4

-----------------------------------------------------------------------------
(* Recursion and folds, by least counterexamples.                           *)

\* A function defined step by step from 0 to n exists.
LEMMA ChainExists ==
  ASSUME NEW X, NEW b \in X, NEW n \in Nat, NEW G \in [1 .. n -> [X -> X]]
  PROVE  \E f \in [0 .. n -> X] : f[0] = b /\ \A k \in 1 .. n : f[k] = G[k][f[k - 1]]
<1> DEFINE Chains(m) == {f \in [0 .. m -> X] : f[0] = b /\ \A k \in 1 .. m : f[k] = G[k][f[k - 1]]}
           T == {m \in 0 .. n : Chains(m) = {}}
<1>1. SUFFICES ASSUME T # {} PROVE FALSE
  <2>1. n \in 0 .. n
    OBVIOUS
  <2>2. Chains(n) # {}
    BY <2>1
  <2> QED
    BY <2>2
<1>2. PICK m \in T : \A k \in T : m <= k
  <2>1. T \in SUBSET Nat
    OBVIOUS
  <2> HIDE DEF T
  <2> QED
    BY <1>1, <2>1, LeastNat
<1>3. m \in 0 .. n /\ Chains(m) = {}
  BY <1>2
<1>4. CASE m = 0
  <2> DEFINE f == [k \in 0 .. 0 |-> b]
  <2>1. f \in [0 .. m -> X] /\ f[0] = b /\ \A k \in 1 .. m : FALSE
    BY <1>4
  <2>2. f \in Chains(m)
    BY <2>1
  <2> QED
    BY <1>3, <2>2
<1>5. CASE m # 0
  <2>1. m \in 1 .. n /\ m - 1 \in 0 .. n /\ m - 1 \notin T
    <3>1. m \in Nat /\ m \in 1 .. n /\ m - 1 \in 0 .. n /\ ~(m <= m - 1)
      BY <1>3, <1>5
    <3> HIDE DEF T
    <3> QED
      BY <1>2, <3>1
  <2>2. PICK f : f \in Chains(m - 1)
    BY <2>1
  <2>3. /\ f \in [0 .. m - 1 -> X] /\ f[0] = b
        /\ \A k \in 1 .. m - 1 : f[k] = G[k][f[k - 1]]
    BY <2>2
  <2> DEFINE f2 == [k \in 0 .. m |-> IF k = m THEN G[m][f[m - 1]] ELSE f[k]]
  <2>4. f[m - 1] \in X /\ G[m][f[m - 1]] \in X
    <3>1. m - 1 \in 0 .. m - 1
      BY <2>1
    <3>2. f[m - 1] \in X
      BY <2>3, <3>1
    <3> QED
      BY <2>1, <3>2
  <2>5. ASSUME NEW k \in 0 .. m, k # m PROVE k \in 0 .. m - 1 /\ f[k] \in X
    <3>1. k \in 0 .. m - 1
      BY <2>1, <2>5
    <3> QED
      BY <2>3, <3>1
  <2>6. f2 \in [0 .. m -> X]
    BY <2>4, <2>5
  <2>7. f2[0] = b
    BY <2>1, <2>3
  <2>8. ASSUME NEW k \in 1 .. m PROVE f2[k] = G[k][f2[k - 1]]
    <3>1. k \in 0 .. m /\ k - 1 \in 0 .. m /\ k - 1 # m
      BY <2>1
    <3>2. f2[k - 1] = f[k - 1]
      BY <3>1
    <3>3. CASE k = m
      BY <3>1, <3>2, <3>3
    <3>4. CASE k # m
      <4>1. k \in 1 .. m - 1
        BY <2>1, <3>4
      <4> QED
        BY <2>3, <3>1, <3>2, <3>4, <4>1
    <3> QED
      BY <3>3, <3>4
  <2>9. f2 \in Chains(m)
    <3> HIDE DEF f2
    <3> QED
      BY <2>6, <2>7, <2>8
  <2> QED
    BY <1>3, <2>9
<1> QED
  BY <1>4, <1>5

\* What every step keeps, the chain keeps.
LEMMA ChainKeeps ==
  ASSUME NEW X, NEW n \in Nat, NEW f, f[0] \in X,
         \A k \in 1 .. n : f[k - 1] \in X => f[k] \in X
  PROVE  \A k \in 0 .. n : f[k] \in X
<1> DEFINE T == {k \in 0 .. n : f[k] \notin X}
<1>1. SUFFICES ASSUME T # {} PROVE FALSE
  OBVIOUS
<1>2. PICK m \in T : \A k \in T : m <= k
  <2>1. T \in SUBSET Nat
    OBVIOUS
  <2> HIDE DEF T
  <2> QED
    BY <1>1, <2>1, LeastNat
<1>3. m \in 1 .. n /\ m - 1 \in 0 .. n /\ ~(m <= m - 1)
  BY <1>2
<1>4. f[m - 1] \in X
  BY <1>2, <1>3
<1> QED
  BY <1>2, <1>3, <1>4

\* What Max picks from some of the numbers up to n.
LEMMA MaxUpTo ==
  ASSUME NEW n \in Nat, NEW s \in SUBSET (1 .. n), s # {}
  PROVE  Max(s) \in s /\ Max(s) \in 1 .. n /\ \A x \in s : x <= Max(s)
<1>1. s \in SUBSET Int /\ n \in Int /\ \A x \in s : x <= n
  OBVIOUS
<1> QED
  BY <1>1, MaxPicks

\* f is b at the empty set and, elsewhere, what G makes of a set without its greatest.
IsFold(f, b, n, G) ==
  /\ f[{}] = b
  /\ \A s \in SUBSET (1 .. n) : s # {} => f[s] = G[Max(s)][f[s \ {Max(s)}]]

\* A fold over 1 .. n, the greatest first, exists.
LEMMA FoldExists ==
  ASSUME NEW X, NEW b \in X, NEW n \in Nat, NEW G \in [1 .. n -> [X -> X]]
  PROVE  \E f \in [SUBSET (1 .. n) -> X] : IsFold(f, b, n, G)
<1> DEFINE Folds(m) == {f \in [SUBSET (1 .. m) -> X] : IsFold(f, b, m, G)}
           T == {m \in 0 .. n : Folds(m) = {}}
<1>1. SUFFICES ASSUME T # {} PROVE FALSE
  <2>1. n \in 0 .. n
    OBVIOUS
  <2>2. Folds(n) # {}
    BY <2>1
  <2> QED
    BY <2>2
<1>2. PICK m \in T : \A k \in T : m <= k
  <2>1. T \in SUBSET Nat
    OBVIOUS
  <2> HIDE DEF T
  <2> QED
    BY <1>1, <2>1, LeastNat
<1>3. m \in 0 .. n /\ Folds(m) = {}
  BY <1>2
<1>4. CASE m = 0
  <2>1. 1 .. m = {}
    BY <1>4
  <2> DEFINE f == [s \in SUBSET (1 .. m) |-> b]
  <2>2. f \in [SUBSET (1 .. m) -> X] /\ f[{}] = b
    OBVIOUS
  <2>3. \A s \in SUBSET (1 .. m) : s = {}
    BY <2>1
  <2>4. f \in Folds(m)
    <3> HIDE DEF f
    <3> QED
      BY <2>2, <2>3 DEF IsFold
  <2> QED
    BY <1>3, <2>4
<1>5. CASE m # 0
  <2>1. m \in 1 .. n /\ m - 1 \in 0 .. n /\ m - 1 \notin T /\ m \in Nat
    <3>1. m \in Nat /\ m \in 1 .. n /\ m - 1 \in 0 .. n /\ ~(m <= m - 1)
      BY <1>3, <1>5
    <3> HIDE DEF T
    <3> QED
      BY <1>2, <3>1
  <2>2. PICK f : f \in Folds(m - 1)
    BY <2>1
  <2> DEFINE U == 1 .. m - 1
             V == 1 .. m
  <2>3. /\ f \in [SUBSET U -> X] /\ f[{}] = b
        /\ \A s \in SUBSET U : s # {} => f[s] = G[Max(s)][f[s \ {Max(s)}]]
    BY <2>2 DEF IsFold
  <2>4. U = V \ {m} /\ m \in V /\ U \subseteq V
    BY <2>1
  <2>5. \A s \in SUBSET V : s # {} => Max(s) \in s /\ \A x \in s : x <= Max(s)
    BY <2>1, MaxUpTo
  <2>6. \A s \in SUBSET V : m \in s => Max(s) = m
    <3> TAKE s \in SUBSET V
    <3> HAVE m \in s
    <3>1. Max(s) \in s /\ m <= Max(s)
      BY <2>5
    <3>2. Max(s) \in V
      BY <3>1
    <3> QED
      BY <2>1, <3>1, <3>2
  <2> DEFINE f2 == [s \in SUBSET V |-> IF m \in s THEN G[m][f[s \ {m}]] ELSE f[s]]
  <2> HIDE DEF U, V
  <2>7. \A s \in SUBSET V : f[s \ {m}] \in X /\ (m \notin s => s \in SUBSET U /\ f[s] \in X)
    <3> TAKE s \in SUBSET V
    <3>1. s \ {m} \in SUBSET U
      BY <2>4
    <3>2. m \notin s => s \in SUBSET U
      BY <2>4
    <3> QED
      BY <2>3, <3>1, <3>2
  <2>8. G[m] \in [X -> X]
    BY <2>1
  <2>9. f2 \in [SUBSET V -> X]
    BY <2>7, <2>8
  <2>10. f2[{}] = b
    <3>1. {} \in SUBSET V /\ m \notin {}
      OBVIOUS
    <3> QED
      BY <2>3, <3>1
  <2>11. ASSUME NEW s \in SUBSET V, s # {} PROVE f2[s] = G[Max(s)][f2[s \ {Max(s)}]]
    <3>1. s \ {Max(s)} \in SUBSET V
      OBVIOUS
    <3>2. CASE m \in s
      <4>1. Max(s) = m
        BY <2>6, <3>2
      <4>2. f2[s \ {m}] = f[s \ {m}]
        BY <3>1, <4>1
      <4>3. f2[s] = G[m][f[s \ {m}]]
        BY <3>2
      <4> QED
        BY <4>1, <4>2, <4>3
    <3>3. CASE m \notin s
      <4>1. s \in SUBSET U /\ f2[s] = f[s]
        BY <2>7, <3>3
      <4>2. f[s] = G[Max(s)][f[s \ {Max(s)}]]
        BY <2>3, <2>11, <4>1
      <4>3. f2[s \ {Max(s)}] = f[s \ {Max(s)}]
        BY <3>1, <3>3
      <4> QED
        BY <4>1, <4>2, <4>3
    <3> QED
      BY <3>2, <3>3
  <2>12. f2 \in Folds(m)
    <3> HIDE DEF f2
    <3> QED
      BY <2>9, <2>10, <2>11 DEF V, IsFold
  <2> QED
    BY <1>3, <2>12
<1> QED
  BY <1>4, <1>5

\* What every step keeps, the fold keeps.
LEMMA FoldKeeps ==
  ASSUME NEW X, NEW n \in Nat, NEW f, f[{}] \in X,
         \A s \in SUBSET (1 .. n) : s # {} /\ f[s \ {Max(s)}] \in X => f[s] \in X
  PROVE  \A s \in SUBSET (1 .. n) : f[s] \in X
<1> DEFINE T == {m \in 0 .. n : \E s \in SUBSET (1 .. m) : f[s] \notin X}
<1>1. SUFFICES ASSUME T # {} PROVE FALSE
  <2>1. n \in 0 .. n
    OBVIOUS
  <2> QED
    BY <2>1
<1>2. PICK m \in T : \A k \in T : m <= k
  <2>1. T \in SUBSET Nat
    OBVIOUS
  <2> HIDE DEF T
  <2> QED
    BY <1>1, <2>1, LeastNat
<1>3. PICK s \in SUBSET (1 .. m) : f[s] \notin X
  BY <1>2
<1>4. s # {} /\ m \in 0 .. n /\ m \in Nat /\ s \in SUBSET (1 .. n)
  BY <1>2, <1>3
<1>5. Max(s) \in s /\ Max(s) \in 1 .. m /\ \A x \in s : x <= Max(s)
  BY <1>4, MaxUpTo
<1> DEFINE top == Max(s)
<1>8. m \in 1 .. n /\ m - 1 \in 0 .. n /\ ~(m <= m - 1)
  BY <1>4, <1>5
<1>9. ASSUME NEW x \in s, x # top PROVE x \in 1 .. m - 1
  <2>1. x \in 1 .. m /\ x <= top /\ top \in 1 .. m
    BY <1>3, <1>5
  <2> HIDE DEF top
  <2> QED
    BY <1>8, <1>9, <2>1
<1>6. s \ {Max(s)} \in SUBSET (1 .. m - 1) /\ m - 1 \in 0 .. n /\ ~(m <= m - 1)
  BY <1>8, <1>9
<1>7. f[s \ {Max(s)}] \in X
  BY <1>2, <1>6
<1> QED
  BY <1>3, <1>4, <1>7

\* The steps of a fold over the numbers from 1 up.
LEMMA FoldSteps ==
  ASSUME NEW b, NEW n \in Nat, NEW G, NEW f, IsFold(f, b, n, G), NEW k \in 1 .. n
  PROVE  f[1 .. k] = G[k][f[1 .. k - 1]]
<1> DEFINE s == 1 .. k
<1>1. s \in SUBSET (1 .. n) /\ s # {} /\ k \in s /\ k \in Nat /\ \A x \in s : x <= k
  OBVIOUS
<1>2. s \ {k} = 1 .. k - 1
  OBVIOUS
<1> HIDE DEF s
<1>3. Max(s) \in s /\ k <= Max(s) /\ Max(s) \in 1 .. n
  BY <1>1, MaxUpTo
<1>4. Max(s) = k
  BY <1>1, <1>3
<1>5. f[s] = G[Max(s)][f[s \ {Max(s)}]]
  BY <1>1 DEF IsFold
<1> QED
  BY <1>2, <1>4, <1>5 DEF s

-----------------------------------------------------------------------------
(* Loops that jump forward.                                                 *)

\* A function on 0 .. n that is given where stop says so and elsewhere follows
\* from its value further on, at to[i].
IsJump(f, n, stop, last, to, G) ==
  \A i \in 0 .. n : f[i] = IF stop[i] THEN last[i] ELSE G[i][f[to[i]]]

\* There is one.
LEMMA JumpExists ==
  ASSUME NEW X, NEW n \in Nat, NEW stop, NEW last, NEW to, NEW G \in [0 .. n -> [X -> X]],
         \A i \in 0 .. n : IF stop[i] THEN last[i] \in X ELSE to[i] \in i + 1 .. n
  PROVE  \E f \in [0 .. n -> X] : IsJump(f, n, stop, last, to, G)
<1> DEFINE Value(f, i) == IF stop[i] THEN last[i] ELSE G[i][f[to[i]]]
           Jumps(m) == {f \in [n - m .. n -> X] : \A i \in n - m .. n : f[i] = Value(f, i)}
           T == {m \in 0 .. n : Jumps(m) = {}}
<1>1. SUFFICES ASSUME T # {} PROVE FALSE
  <2>1. n \in 0 .. n
    OBVIOUS
  <2>2. Jumps(n) # {}
    BY <2>1
  <2>3. n - n = 0
    OBVIOUS
  <2> HIDE DEF Value
  <2>4. PICK f \in [0 .. n -> X] : \A i \in 0 .. n : f[i] = Value(f, i)
    BY <2>2, <2>3
  <2> USE DEF Value
  <2>5. IsJump(f, n, stop, last, to, G)
    BY <2>4 DEF IsJump
  <2> QED
    BY <2>4, <2>5
<1>2. PICK m \in T : \A k \in T : m <= k
  <2>1. T \in SUBSET Nat
    OBVIOUS
  <2> HIDE DEF T
  <2> QED
    BY <1>1, <2>1, LeastNat
<1>3. m \in 0 .. n /\ m \in Nat /\ Jumps(m) = {}
  BY <1>2
<1> DEFINE b == n - m
<1>4. b \in 0 .. n /\ b \in Nat
  BY <1>3
<1>5. CASE m = 0
  <2>1. b = n /\ n - m .. n = {n}
    BY <1>5
  <2>2. stop[n] /\ last[n] \in X
    <3>1. n \in 0 .. n /\ n + 1 .. n = {}
      OBVIOUS
    <3> QED
      BY <3>1
  <2> DEFINE f == [i \in {n} |-> last[n]]
  <2>3. f \in Jumps(m)
    <3>1. f \in [{n} -> X] /\ f[n] = last[n]
      BY <2>2
    <3> QED
      BY <2>1, <2>2, <3>1
  <2> QED
    BY <1>3, <2>3
<1>6. CASE m # 0
  <2>1. m - 1 \in 0 .. n /\ m - 1 \in Nat /\ ~(m <= m - 1)
    BY <1>3, <1>6
  <2>2. m - 1 \notin T
    BY <1>2, <2>1
  <2>3. n - (m - 1) = b + 1
    BY <1>3
  <2> HIDE DEF Value
  <2>4. PICK f \in [b + 1 .. n -> X] : \A i \in b + 1 .. n : f[i] = Value(f, i)
    <3>1. Jumps(m - 1) # {}
      BY <2>1, <2>2
    <3> HIDE DEF b
    <3> QED
      BY <2>3, <3>1
  <2> USE DEF Value
  <2> DEFINE v == Value(f, b)
             g == [i \in b .. n |-> IF i = b THEN v ELSE f[i]]
  <2>5. v \in X
    <3>1. CASE stop[b]
      BY <1>4, <3>1
    <3>2. CASE ~stop[b]
      <4>1. to[b] \in b + 1 .. n
        BY <1>4, <3>2
      <4>2. f[to[b]] \in X
        BY <2>4, <4>1
      <4> QED
        BY <1>4, <3>2, <4>2
    <3> QED
      BY <3>1, <3>2
  <2> HIDE DEF v, b
  <2>6. g \in [b .. n -> X]
    <3>1. \A i \in b .. n : i # b => i \in b + 1 .. n
      BY <1>4
    <3> QED
      BY <2>4, <2>5, <3>1
  <2>7. ASSUME NEW i \in b .. n PROVE g[i] = Value(g, i)
    <3>1. ~stop[i] => to[i] \in i + 1 .. n /\ to[i] \in b + 1 .. n /\ to[i] # b
      BY <1>4
    <3>2. ~stop[i] => g[to[i]] = f[to[i]]
      BY <1>4, <3>1
    <3>3. CASE i = b
      BY <3>2, <3>3 DEF v
    <3>4. CASE i # b
      <4>1. i \in b + 1 .. n /\ g[i] = f[i]
        BY <1>4, <3>4
      <4>2. f[i] = Value(f, i)
        BY <2>4, <4>1
      <4> QED
        BY <3>2, <4>1, <4>2
    <3> QED
      BY <3>3, <3>4
  <2>8. g \in Jumps(m)
    <3> HIDE DEF g, Value
    <3> QED
      BY <2>6, <2>7 DEF b
  <2> QED
    BY <1>3, <2>8
<1> QED
  BY <1>5, <1>6
=============================================================================
