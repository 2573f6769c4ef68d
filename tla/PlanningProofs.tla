--------------------------- MODULE PlanningProofs ---------------------------
(***************************************************************************)
(* What a decision of the server adds up to, for every number of slots,    *)
(* requests and cells.  The rounds of PrefillQuota give every hungry slot  *)
(* a token; every plan of Planning is sound and neither side starves the   *)
(* other; the questions MCCtxCap asks of the caps have the right answers;  *)
(* JoinPolicy gives sessions that take turns their own slots; and PoolFit  *)
(* walks down a ladder and reports the pool that was loaded.               *)
(***************************************************************************)
EXTENDS Planning, MCCtxCap, JoinPolicy, PoolFit, CtxCapProofs, FoldLemmas

Eager == {i \in Order : want[i] > 0}
Unserved == {i \in Eager : take[i] = 0}

QuotaType ==
  /\ quotaCap \in Nat /\ left \in Nat /\ share \in Nat
  /\ want \in [Order -> Nat] /\ take \in [Order -> Nat]
  /\ turn \subseteq Order

\* Nobody is left out; or nothing has been given yet; or a round is under way
\* in which all who were not served still have their turn, and the tokens for
\* it are there.
Provided ==
  quotaCap >= Cardinality(Eager) =>
    \/ Unserved = {}
    \/ turn = {} /\ left = quotaCap /\ \A i \in Order : take[i] = 0
    \/ /\ turn # {} /\ Unserved \subseteq turn
       /\ share >= 1 /\ left >= share * Cardinality(turn)

QuotaInv == QuotaType /\ (\A i \in Order : take[i] <= want[i]) /\ Provided

-----------------------------------------------------------------------------
\* Shares of equal size never exceed what there is to share (Share).
LEMMA SharesFit ==
  ASSUME NEW tokens \in Nat, NEW n \in Nat, n > 0, tokens >= n
  PROVE  /\ tokens \div n \in Nat
         /\ tokens \div n >= 1
         /\ (tokens \div n) * n <= tokens
  BY SMTT(30)

\* Sets of slots are finite and are counted by naturals (Order).
LEMMA SlotsFinite ==
  ASSUME NEW S \in SUBSET Order
  PROVE  IsFiniteSet(S) /\ Cardinality(S) \in Nat /\ (Cardinality(S) = 0 <=> S = {})
  BY OrderAssumption, FS_Subset, FS_CardinalityType, FS_EmptySet

\* A turn gives what is wanted, offered and there, and takes as much off what
\* is left (Given).
LEMMA GivenBounds ==
  ASSUME QuotaType, NEW i \in Order, take[i] <= want[i]
  PROVE  /\ Given(i) \in Nat /\ left - Given(i) \in Nat
         /\ take[i] + Given(i) \in Nat /\ take[i] + Given(i) <= want[i]
         /\ Given(i) <= share
         /\ take[i] < want[i] /\ share >= 1 /\ left >= 1 => Given(i) >= 1
  BY DEF QuotaType, Given, LesserOf

\* Before the first round nothing is given and everything is left (QuotaInit).
LEMMA QuotaInitially ==
  ASSUME NEW cap \in Nat, NEW wants \in [Order -> Nat], QuotaInit(cap, wants)
  PROVE  QuotaInv
  BY DEF QuotaInit, QuotaInv, QuotaType, Provided

\* Types and appetite survive every step (Grant).
LEMMA TypeStep ==
  ASSUME QuotaInv, QuotaNext
  PROVE  QuotaType' /\ (\A i \in Order : take[i] <= want[i])'
<1>1. CASE Round
  <2>1. Hungry \subseteq Order /\ Hungry # {}
    BY <1>1 DEF Round, Hungry
  <2>2. Cardinality(Hungry) \in Nat /\ Cardinality(Hungry) # 0
    BY <2>1, SlotsFinite
  <2>3. left \div Cardinality(Hungry) \in Nat
    BY <2>2 DEF QuotaInv, QuotaType
  <2> QED
    BY <1>1, <2>1, <2>3 DEF Round, QuotaInv, QuotaType, Share, GreaterOf
<1>2. ASSUME NEW i \in Order, Grant(i)
      PROVE  QuotaType' /\ (\A j \in Order : take[j] <= want[j])'
  <2>1. /\ left - Given(i) \in Nat /\ take[i] + Given(i) \in Nat
        /\ take[i] + Given(i) <= want[i]
    BY GivenBounds DEF QuotaInv
  <2> QED
    BY <1>2, <2>1 DEF Grant, QuotaInv, QuotaType
<1>3. CASE OutOfTokens
  BY <1>3 DEF OutOfTokens, QuotaInv, QuotaType
<1> QED
  BY <1>1, <1>2, <1>3 DEF QuotaNext

\* A round begins: its shares are one token at least, and are all there.
LEMMA RoundProvides ==
  ASSUME QuotaInv, Round
  PROVE  Provided'
<1> USE DEF QuotaInv, QuotaType
<1>1. Eager' = Eager /\ Unserved' = Unserved /\ quotaCap' = quotaCap
  BY DEF Round, Eager, Unserved
<1>2. SUFFICES ASSUME quotaCap >= Cardinality(Eager), Unserved # {}
               PROVE  Provided'
  BY <1>1 DEF Provided
<1>3. turn = {} /\ left = quotaCap /\ \A i \in Order : take[i] = 0
  BY <1>2 DEF Provided, Round
<1>4. Hungry = Eager
  BY <1>3 DEF Hungry, Eager
<1>5. Cardinality(Eager) \in Nat /\ Eager # {} /\ Cardinality(Eager) > 0
  <2>1. Eager \in SUBSET Order /\ Eager # {}
    BY <1>2 DEF Eager, Unserved
  <2> QED
    BY <2>1, SlotsFinite
<1>6. share' >= 1 /\ share' * Cardinality(Eager) <= left
  <2>1. /\ left \div Cardinality(Eager) \in Nat /\ left \div Cardinality(Eager) >= 1
        /\ (left \div Cardinality(Eager)) * Cardinality(Eager) <= left
    BY <1>2, <1>3, <1>5, SharesFit
  <2>2. share' = left \div Cardinality(Eager)
    BY <1>4, <2>1 DEF Round, Share, GreaterOf
  <2> QED
    BY <2>1, <2>2
<1> QED
  BY <1>1, <1>4, <1>5, <1>6 DEF Round, Provided, Unserved

\* A turn serves its slot, and leaves a share for each of the others.
LEMMA GrantProvides ==
  ASSUME QuotaInv, NEW i \in Order, Grant(i)
  PROVE  Provided'
<1> USE DEF QuotaInv, QuotaType
<1>1. /\ Given(i) \in Nat /\ left - Given(i) \in Nat /\ Given(i) <= share
      /\ take[i] < want[i] /\ share >= 1 /\ left >= 1 => Given(i) >= 1
  BY GivenBounds
<1>2. Eager' = Eager /\ quotaCap' = quotaCap /\ share' = share
  BY DEF Grant, Eager
<1>3. Unserved' \subseteq Unserved
  BY <1>1, <1>2 DEF Grant, Unserved, Eager
<1>4. SUFFICES ASSUME quotaCap >= Cardinality(Eager), Unserved' # {}
               PROVE  Provided'
  BY <1>2 DEF Provided
<1>5. Unserved \subseteq turn /\ share >= 1 /\ left >= share * Cardinality(turn)
  BY <1>3, <1>4 DEF Provided, Grant
<1>6. Unserved' \subseteq turn'
  <2>1. i \notin Unserved'
    <3>1. CASE i \in Unserved
      <4>1. take[i] < want[i] /\ take[i] = 0
        BY <3>1 DEF Unserved, Eager
      <4>2. Given(i) >= 1
        BY <1>1, <1>5, <4>1 DEF Grant
      <4> QED
        BY <1>1, <4>1, <4>2 DEF Grant, Unserved
    <3> QED
      BY <1>3, <3>1
  <2> QED
    BY <1>3, <1>5, <2>1 DEF Grant
<1>7. left' >= share * Cardinality(turn')
  <2>1. /\ Cardinality(turn') = Cardinality(turn) - 1
        /\ Cardinality(turn) \in Nat
    BY SlotsFinite, FS_RemoveElement DEF Grant
  <2>2. share * (Cardinality(turn) - 1) = share * Cardinality(turn) - share
    BY <2>1
  <2>3. share * Cardinality(turn) \in Nat
    BY <2>1
  <2> QED
    BY <1>1, <1>5, <2>1, <2>2, <2>3 DEF Grant
<1> QED
  BY <1>2, <1>4, <1>5, <1>6, <1>7 DEF Provided

\* A round that runs out of tokens has served everybody.
LEMMA EndProvides ==
  ASSUME QuotaInv, OutOfTokens
  PROVE  Provided'
<1> USE DEF QuotaInv, QuotaType
<1>1. Eager' = Eager /\ Unserved' = Unserved /\ quotaCap' = quotaCap
  BY DEF OutOfTokens, Eager, Unserved
<1>2. Cardinality(turn) \in Nat /\ Cardinality(turn) # 0
  BY SlotsFinite DEF OutOfTokens
<1>3. ~ (share >= 1 /\ left >= share * Cardinality(turn))
  <2>1. SUFFICES ASSUME share >= 1, left >= share * Cardinality(turn) PROVE FALSE
    OBVIOUS
  <2>2. share * Cardinality(turn) >= 1
    BY <1>2, <2>1
  <2> QED
    BY <2>1, <2>2, <1>2 DEF OutOfTokens
<1> QED
  BY <1>1, <1>3 DEF Provided, OutOfTokens

-----------------------------------------------------------------------------
\* Whoever wants tokens is provided for at every step of the split, however
\* many slots there are (split_prefill_quota).
THEOREM ProvidedAlways == QuotaSpec => []QuotaInv
<1>1. (\E cap \in Nat, wants \in [Order -> Nat] : QuotaInit(cap, wants)) => QuotaInv
  BY QuotaInitially
<1>2. QuotaInv /\ [QuotaNext]_quotaVars => QuotaInv'
  <2> SUFFICES ASSUME QuotaInv, [QuotaNext]_quotaVars PROVE QuotaInv'
    OBVIOUS
  <2>1. CASE QuotaNext
    <3>1. Provided'
      BY <2>1, RoundProvides, GrantProvides, EndProvides DEF QuotaNext
    <3> QED
      BY <2>1, <3>1, TypeStep DEF QuotaInv
  <2>2. CASE UNCHANGED quotaVars
    BY <2>2 DEF quotaVars, QuotaInv, QuotaType, Provided, Unserved, Eager
  <2> QED
    BY <2>1, <2>2
<1> QED
  BY <1>1, <1>2, PTL DEF QuotaSpec

\* A split that is done has served everybody it could.
LEMMA ServedWhenDone == QuotaInv => EveryoneServed
<1> SUFFICES ASSUME QuotaInv, QuotaDone, quotaCap >= Cardinality(Eager),
                    NEW i \in Order, want[i] > 0
             PROVE  take[i] > 0
  BY DEF EveryoneServed, Eager
<1> USE DEF QuotaInv, QuotaType
<1>1. CASE Unserved = {}
  BY <1>1 DEF Unserved, Eager
<1>2. CASE left = quotaCap /\ \A j \in Order : take[j] = 0
  <2>1. i \in Hungry
    BY <1>2 DEF Hungry
  <2>2. Cardinality(Eager) \in Nat /\ Cardinality(Eager) # 0
    BY SlotsFinite DEF Eager
  <2> QED
    BY <1>2, <2>1, <2>2 DEF QuotaDone
<1> QED
  BY <1>1, <1>2 DEF QuotaDone, Provided

\* When the split of the prefill tokens is done and there was a token for each
\* slot that has prompt left, each of them has one: no prompt stands still
\* behind the others, for any number of slots, prompts and tokens
\* (split_prefill_quota).
THEOREM EveryoneServedCorrect == QuotaSpec => []EveryoneServed
  BY ServedWhenDone, ProvidedAlways, PTL

-----------------------------------------------------------------------------
(* Finite sets of places.                                                   *)

\* Finitely many numbers have a greatest.
LEMMA GreatestOfFinite ==
  ASSUME NEW T \in SUBSET Nat, IsFiniteSet(T), T # {}
  PROVE  \E m \in T : \A k \in T : k <= m
<1> DEFINE Tops(S) == {m \in S : \A k \in S : k <= m}
           Bad == {n \in Nat : \E S \in SUBSET T : S # {} /\ Cardinality(S) = n /\ Tops(S) = {}}
<1>1. SUFFICES ASSUME Bad # {} PROVE FALSE
  <2>1. Cardinality(T) \in Nat
    BY FS_CardinalityType
  <2>2. Tops(T) # {}
    BY <2>1
  <2> QED
    BY <2>2
<1>2. PICK n \in Bad : \A k \in Bad : n <= k
  <2>1. Bad \in SUBSET Nat
    OBVIOUS
  <2> HIDE DEF Bad
  <2> QED
    BY <1>1, <2>1, LeastNat
<1>3. PICK S \in SUBSET T : S # {} /\ Cardinality(S) = n /\ Tops(S) = {}
  BY <1>2
<1>4. PICK x \in S : TRUE
  BY <1>3
<1>5. IsFiniteSet(S) /\ n \in Nat
  BY <1>2, FS_Subset
<1>6. IsFiniteSet(S \ {x}) /\ Cardinality(S \ {x}) = n - 1 /\ n - 1 \in Nat
  <2>1. Cardinality(S \ {x}) = n - 1 /\ IsFiniteSet(S \ {x})
    BY <1>3, <1>4, <1>5, FS_RemoveElement
  <2> QED
    BY <2>1, FS_CardinalityType
<1>7. CASE S \ {x} = {}
  <2>1. x \in Tops(S)
    BY <1>4, <1>7
  <2> QED
    BY <1>3, <2>1
<1>8. CASE S \ {x} # {}
  <2>1. Tops(S \ {x}) # {}
    <3>1. n - 1 \notin Bad
      <4> HIDE DEF Bad
      <4>1. ~(n <= n - 1)
        BY <1>5
      <4> QED
        BY <1>2, <4>1
    <3> QED
      BY <1>6, <1>8, <3>1
  <2>2. PICK m \in S \ {x} : \A k \in S \ {x} : k <= m
    BY <2>1
  <2>3. m \in Nat /\ x \in Nat /\ \A k \in S : k \in Nat
    BY <1>4
  <2>4. CASE x <= m
    <3>1. m \in Tops(S)
      BY <2>2, <2>4
    <3> QED
      BY <1>3, <3>1
  <2>5. CASE m < x
    <3>1. \A k \in S : k <= x
      BY <2>2, <2>3, <2>5
    <3>2. x \in Tops(S)
      BY <1>4, <3>1
    <3> QED
      BY <1>3, <3>2
  <2> QED
    BY <2>3, <2>4, <2>5
<1> QED
  BY <1>7, <1>8

\* From the first place to the last.
Increasing(s) == \A j, k \in DOMAIN s : j < k => s[j] < s[k]

\* Finitely many numbers can be put in order.
LEMMA OrderExists ==
  ASSUME NEW T \in SUBSET Nat, IsFiniteSet(T)
  PROVE  \E s \in [1 .. Cardinality(T) -> T] : Increasing(s)
<1> DEFINE Lists(S) == {s \in [1 .. Cardinality(S) -> S] : Increasing(s)}
           Bad == {n \in Nat : \E S \in SUBSET T : Cardinality(S) = n /\ Lists(S) = {}}
<1>1. SUFFICES ASSUME Bad # {} PROVE FALSE
  <2>1. Cardinality(T) \in Nat
    BY FS_CardinalityType
  <2>2. Lists(T) # {}
    BY <2>1
  <2> QED
    BY <2>2
<1>2. PICK n \in Bad : \A k \in Bad : n <= k
  <2>1. Bad \in SUBSET Nat
    OBVIOUS
  <2> HIDE DEF Bad
  <2> QED
    BY <1>1, <2>1, LeastNat
<1>3. PICK S \in SUBSET T : Cardinality(S) = n /\ Lists(S) = {}
  BY <1>2
<1>4. IsFiniteSet(S) /\ n \in Nat
  BY <1>2, FS_Subset
<1>5. CASE S = {}
  <2>1. Cardinality(S) = 0
    BY <1>5, FS_EmptySet
  <2> DEFINE s == [k \in 1 .. Cardinality(S) |-> 0]
  <2>2. s \in [1 .. Cardinality(S) -> S] /\ Increasing(s)
    BY <2>1 DEF Increasing
  <2> QED
    BY <1>3, <2>2
<1>6. CASE S # {}
  <2>1. PICK g \in S : \A k \in S : k <= g
    BY <1>4, <1>6, GreatestOfFinite
  <2> DEFINE R == S \ {g}
  <2>2. Cardinality(R) = n - 1 /\ n - 1 \in Nat
    <3>1. Cardinality(R) = n - 1 /\ IsFiniteSet(R)
      BY <1>3, <1>4, <2>1, FS_RemoveElement
    <3> QED
      BY <3>1, FS_CardinalityType
  <2>3. Lists(R) # {}
    <3>1. n - 1 \notin Bad
      <4> HIDE DEF Bad
      <4>1. ~(n <= n - 1)
        BY <1>4
      <4> QED
        BY <1>2, <4>1
    <3> QED
      BY <2>2, <3>1
  <2>4. PICK t \in [1 .. n - 1 -> R] : Increasing(t)
    BY <2>2, <2>3
  <2> DEFINE s == [k \in 1 .. n |-> IF k = n THEN g ELSE t[k]]
  <2>5. ASSUME NEW k \in 1 .. n, k # n PROVE k \in 1 .. n - 1 /\ t[k] \in R
    <3>1. k \in 1 .. n - 1
      BY <1>4, <2>5
    <3> QED
      BY <2>4, <3>1
  <2>6. s \in [1 .. n -> S]
    BY <2>1, <2>5
  <2>7. ASSUME NEW j \in 1 .. n, NEW k \in 1 .. n, j < k PROVE s[j] < s[k]
    <3>1. j # n /\ j \in 1 .. n - 1 /\ t[j] \in R /\ s[j] = t[j]
      <4>1. j # n
        BY <1>4, <2>7
      <4> QED
        BY <2>5, <4>1
    <3>2. CASE k = n
      <4>1. s[k] = g
        BY <3>2
      <4>2. t[j] \in Nat /\ t[j] <= g /\ t[j] # g /\ g \in Nat
        BY <2>1, <3>1
      <4> HIDE DEF s
      <4> QED
        BY <3>1, <4>1, <4>2
    <3>3. CASE k # n
      <4>1. k \in 1 .. n - 1 /\ s[k] = t[k]
        BY <2>5, <3>3
      <4>2. t[j] < t[k]
        BY <2>4, <2>7, <3>1, <4>1 DEF Increasing
      <4> QED
        BY <3>1, <4>1, <4>2
    <3> QED
      BY <3>2, <3>3
  <2>8. Increasing(s)
    <3>1. DOMAIN s = 1 .. n
      OBVIOUS
    <3> HIDE DEF s
    <3> QED
      BY <2>7, <3>1 DEF Increasing
  <2>9. s \in Lists(S)
    <3> HIDE DEF s
    <3> QED
      BY <1>3, <2>6, <2>8
  <2> QED
    BY <1>3, <2>9
<1> QED
  BY <1>5, <1>6

\* InOrder lists the slots of a set, each once.
LEMMA InOrderLists ==
  ASSUME NEW S \in SUBSET Order
  PROVE  /\ Cardinality(S) \in Nat
         /\ InOrder(S) \in [1 .. Cardinality(S) -> S]
         /\ \A j, k \in 1 .. Cardinality(S) : InOrder(S)[j] = InOrder(S)[k] => j = k
         /\ \A i \in S : \E k \in 1 .. Cardinality(S) : InOrder(S)[k] = i
<1> DEFINE n == Cardinality(S)
           s == InOrder(S)
<1>1. IsFiniteSet(S) /\ n \in Nat /\ S \in SUBSET Nat
  BY SlotsFinite, OrderAssumption
<1>2. s \in [1 .. n -> S] /\ \A j, k \in DOMAIN s : j < k => s[j] < s[k]
  <2>1. \E t \in [1 .. n -> S] : Increasing(t)
    BY <1>1, OrderExists
  <2>2. \E t \in [1 .. n -> S] : \A j, k \in DOMAIN t : j < k => t[j] < t[k]
    BY <2>1 DEF Increasing
  <2> QED
    BY <2>2 DEF InOrder
<1> HIDE DEF s
<1>3. ASSUME NEW j \in 1 .. n, NEW k \in 1 .. n, s[j] = s[k] PROVE j = k
  <2>1. s[j] \in Nat
    BY <1>1, <1>2
  <2>2. ~(j < k) /\ ~(k < j)
    BY <1>2, <1>3, <2>1
  <2>3. j \in Int /\ k \in Int
    BY <1>1
  <2> QED
    BY <2>2, <2>3
<1>4. s \in Injection(1 .. n, S)
  BY <1>2, <1>3 DEF Injection, IsInjective
<1>5. Cardinality(1 .. n) = n
  BY <1>1, FS_Interval
<1>6. s \in Surjection(1 .. n, S)
  BY <1>1, <1>4, <1>5, FS_Injection
<1>7. \A i \in S : \E k \in 1 .. n : s[k] = i
  BY <1>6 DEF Surjection
<1> QED
  BY <1>1, <1>2, <1>3, <1>7 DEF s

-----------------------------------------------------------------------------
(* What a plan is made for.                                                 *)

PlanSpec == PlanInit /\ [][PlanNext]_planVars

BudgetInv == budget \in BudgetType /\ budget.prefillMax > 0 /\ budget.yieldEvery <= CountMost

SeatType ==
  [phase : {"Empty", "Prefilling", "Decoding"}, past : Nat, prompt : Nat, stops : SUBSET Nat,
   drafts : Nat]

\* A seat: what is not prefilled is within the prompt, and so are its
\* boundaries, ahead of what is prefilled but for one that needs no chunk.
SeatInv(s) ==
  /\ s \in SeatType
  /\ s.phase = "Prefilling" => s.past < s.prompt
  /\ s.phase # "Prefilling" => s.stops = {}
  /\ \A m \in s.stops : m \in s.past .. s.prompt - 1 /\ (m = s.past => m = s.prompt - 1)

SeatsInv == DOMAIN seat = Order /\ \A i \in Order : SeatInv(seat[i])

\* What is left of a prompt.
LEMMA RestIs ==
  ASSUME SeatsInv, NEW i \in Order
  PROVE  /\ Rest(i) \in Nat
         /\ Rest(i) > 0 <=> seat[i].phase = "Prefilling"
         /\ Rest(i) > 0 => Rest(i) = seat[i].prompt - seat[i].past
  BY DEF SeatsInv, SeatInv, SeatType, Rest

\* The longest rest is one of them, or nobody prefills (max_prefill_remaining).
LEMMA LongestIs ==
  ASSUME SeatsInv
  PROVE  /\ LongestRest \in Nat
         /\ \A i \in Order : Rest(i) <= LongestRest
         /\ LongestRest > 0 <=> Prefillers # {}
<1> DEFINE T == {0} \cup {Rest(i) : i \in Order}
           r == [i \in Order |-> Rest(i)]
           R == {r[i] : i \in Order}
<1>1. T \in SUBSET Nat /\ T # {}
  BY RestIs
<1>2. IsFiniteSet(T)
  <2>1. r \in Surjection(Order, R)
    BY DEF Surjection
  <2>2. IsFiniteSet(R)
    <3> HIDE DEF r, R
    <3> QED
      BY <2>1, OrderAssumption, FS_Surjection
  <2>3. T = R \cup {0}
    OBVIOUS
  <2> HIDE DEF T, R
  <2> QED
    BY <2>2, <2>3, FS_AddElement
<1>3. PICK m \in T : \A k \in T : k <= m
  <2> HIDE DEF T
  <2> QED
    BY <1>1, <1>2, GreatestOfFinite
<1>4. \E g \in T : \A i \in Order : Rest(i) <= g
  BY <1>3
<1>5. LongestRest \in T /\ \A i \in Order : Rest(i) <= LongestRest
  BY <1>4 DEF LongestRest
<1>6. LongestRest \in Nat
  BY <1>1, <1>5
<1>7. ASSUME LongestRest > 0 PROVE Prefillers # {}
  <2>1. PICK i \in Order : LongestRest = Rest(i)
    BY <1>5, <1>7
  <2> QED
    BY <1>7, <2>1 DEF Prefillers
<1>8. ASSUME Prefillers # {} PROVE LongestRest > 0
  <2>1. PICK i \in Order : Rest(i) > 0
    BY <1>8 DEF Prefillers
  <2>2. Rest(i) \in Nat /\ Rest(i) <= LongestRest
    BY <1>5, RestIs
  <2> QED
    BY <1>6, <2>1, <2>2
<1> QED
  BY <1>5, <1>6, <1>7, <1>8

\* The rows of a plan.
RowType == [seq : Order, pos : Nat, logits : BOOLEAN]

\* Plans of at most n_batch rows, all of slots that decode.
DecodePlans ==
  {t \in Seq(RowType) : Len(t) <= NBatchOf /\ \A k \in 1 .. Len(t) : t[k].seq \in Decoders}

\* A part of a list is a list.
LEMMA PartOfList ==
  ASSUME NEW S, NEW s \in Seq(S), NEW m \in 0 .. Len(s)
  PROVE  SubSeq(s, 1, m) \in Seq(S) /\ Len(SubSeq(s, 1, m)) = m
<1>1. Len(s) \in Nat /\ m \in Int
  BY LenProperties
<1>2. \A k \in 1 .. m : s[k] \in S
  BY <1>1, ElementOfSeq
<1>3. \A k \in 1 .. m : k \in 1 .. Len(s)
  BY <1>1
<1> QED
  BY <1>1, <1>2, <1>3, SubSeqProperties

\* A slot's rows join a plan.
LEMMA RowsJoin ==
  ASSUME SeatsInv, NEW t \in DecodePlans, NEW i \in Decoders
  PROVE  t \o [k \in 1 .. LesserOf(1 + seat[i].drafts, NBatchOf - Len(t)) |->
                 PlanToken(i, seat[i].past + k - 1, TRUE)] \in DecodePlans
<1> DEFINE m == LesserOf(1 + seat[i].drafts, NBatchOf - Len(t))
           rows == [k \in 1 .. m |-> PlanToken(i, seat[i].past + k - 1, TRUE)]
<1>1. /\ t \in Seq(RowType) /\ Len(t) \in Nat /\ Len(t) <= NBatchOf /\ NBatchOf \in Nat
      /\ i \in Order /\ seat[i].drafts \in Nat /\ seat[i].past \in Nat
      /\ \A k \in 1 .. Len(t) : t[k].seq \in Decoders
  BY PlanningAssumption, LenProperties DEF DecodePlans, Decoders, SeatsInv, SeatInv, SeatType
<1>2. m \in Nat /\ m <= NBatchOf - Len(t)
  BY <1>1 DEF LesserOf
<1> HIDE DEF m
<1>3. ASSUME NEW k \in 1 .. m PROVE rows[k] \in RowType /\ rows[k].seq \in Decoders
  BY <1>1, <1>2 DEF PlanToken, RowType
<1>4. rows \in [1 .. m -> RowType]
  BY <1>3
<1>5. rows \in Seq(RowType) /\ Len(rows) = m
  <2> HIDE DEF rows
  <2> QED
    BY <1>2, <1>4, FunctionIsSeq
<1> HIDE DEF rows
<1> DEFINE all == t \o rows
<1>6. /\ all \in Seq(RowType) /\ Len(all) = Len(t) + m
      /\ \A k \in 1 .. Len(t) : all[k] = t[k]
      /\ \A k \in Len(t) + 1 .. Len(t) + m : all[k] = rows[k - Len(t)]
  <2>1. /\ all \in Seq(RowType) /\ Len(all) = Len(t) + Len(rows)
        /\ \A k \in 1 .. Len(t) + Len(rows) :
             all[k] = IF k <= Len(t) THEN t[k] ELSE rows[k - Len(t)]
    BY <1>1, <1>5, ConcatProperties
  <2> HIDE DEF all
  <2> QED
    BY <1>1, <1>2, <1>5, <2>1
<1> HIDE DEF all
<1>7. ASSUME NEW k \in 1 .. Len(all) PROVE all[k].seq \in Decoders
  <2>1. CASE k <= Len(t)
    <3>1. k \in 1 .. Len(t)
      BY <1>1, <1>2, <1>6, <2>1
    <3> QED
      BY <1>1, <1>6, <3>1
  <2>2. CASE ~(k <= Len(t))
    <3>1. k \in Len(t) + 1 .. Len(t) + m /\ k - Len(t) \in 1 .. m
      BY <1>1, <1>2, <1>6, <2>2
    <3> QED
      BY <1>3, <1>6, <3>1
  <2> QED
    BY <2>1, <2>2
<1>8. all \in DecodePlans
  BY <1>1, <1>2, <1>6, <1>7 DEF DecodePlans
<1> QED
  BY <1>8 DEF all, rows, m

\* The decode pass keeps to n_batch and to the slots that decode.
LEMMA DecodePassIs == ASSUME SeatsInv, BudgetInv PROVE DecodePass \in DecodePlans
<1> DEFINE runners == InOrder(Decoders)
           m == LesserOf(Len(runners), budget.decodeMax)
           first == SubSeq(runners, 1, m)
           D == DOMAIN first
           Add(t, i) ==
             t \o [k \in 1 .. LesserOf(1 + seat[i].drafts, NBatchOf - Len(t)) |->
                     PlanToken(i, seat[i].past + k - 1, TRUE)]
           iter[s \in SUBSET D] ==
             IF s = {} THEN <<>> ELSE Add(iter[s \ {Max(s)}], first[Max(s)])
           X == DecodePlans
           n == Len(first)
           G == [k \in 1 .. n |-> [t \in X |-> Add(t, first[k])]]
<1>1. DecodePass = iter[D]
  BY DEF DecodePass, FoldLeft, MapThenFoldSet
<1>2. n \in Nat /\ D = 1 .. n /\ \A k \in 1 .. n : first[k] \in Decoders
  <2>1. Decoders \in SUBSET Order
    BY DEF Decoders
  <2>2. /\ Cardinality(Decoders) \in Nat
        /\ runners \in [1 .. Cardinality(Decoders) -> Decoders]
    BY <2>1, InOrderLists
  <2>3. runners \in Seq(Decoders) /\ Len(runners) = Cardinality(Decoders)
    <3> HIDE DEF runners
    <3> QED
      BY <2>2, FunctionIsSeq
  <2>4. m \in 0 .. Len(runners)
    BY <2>2, <2>3 DEF BudgetInv, BudgetType, LesserOf
  <2>5. first \in Seq(Decoders)
    <3> HIDE DEF runners, m
    <3> QED
      BY <2>3, <2>4, PartOfList
  <2> HIDE DEF first
  <2> QED
    BY <2>5, LenProperties, ElementOfSeq
<1> HIDE DEF first
<1>3. ASSUME NEW t \in X, NEW i \in Decoders PROVE Add(t, i) \in X
  BY <1>3, RowsJoin
<1> HIDE DEF Add, X, D, n
<1>4. G \in [1 .. n -> [X -> X]]
  BY <1>2, <1>3
<1>5. <<>> \in X
  BY EmptySeq, PlanningAssumption DEF X, DecodePlans
<1>6. PICK f \in [SUBSET (1 .. n) -> X] : IsFold(f, <<>>, n, G)
  <2>1. n \in Nat
    BY <1>2
  <2> HIDE DEF G, iter
  <2> QED
    BY <1>4, <1>5, <2>1, FoldExists
<1>7. \A s \in SUBSET (1 .. n) : s # {} => Max(s) \in 1 .. n /\ s \ {Max(s)} \in SUBSET (1 .. n)
  BY <1>2, MaxUpTo
<1>8. f = [s \in SUBSET D |-> IF s = {} THEN <<>> ELSE Add(f[s \ {Max(s)}], first[Max(s)])]
  <2>1. ASSUME NEW s \in SUBSET (1 .. n), s # {}
        PROVE  f[s] = Add(f[s \ {Max(s)}], first[Max(s)])
    <3>1. Max(s) \in 1 .. n /\ f[s \ {Max(s)}] \in X
      BY <1>7, <2>1
    <3>2. f[s] = G[Max(s)][f[s \ {Max(s)}]]
      <4> HIDE DEF G
      <4> QED
        BY <1>6, <2>1 DEF IsFold
    <3> QED
      BY <3>1, <3>2
  <2>2. f[{}] = <<>>
    BY <1>6 DEF IsFold
  <2> QED
    BY <1>2, <2>1, <2>2
<1>9. iter = [s \in SUBSET D |-> IF s = {} THEN <<>> ELSE Add(iter[s \ {Max(s)}], first[Max(s)])]
  <2>1. \E c : c = [s \in SUBSET D |-> IF s = {} THEN <<>> ELSE Add(c[s \ {Max(s)}], first[Max(s)])]
    BY <1>8
  <2> QED
    BY <2>1 DEF iter
<1> HIDE DEF iter
<1>10. \A s \in SUBSET (1 .. n) : iter[s] \in X
  <2>1. n \in Nat /\ iter[{}] \in X
    <3>1. iter[{}] = <<>>
      BY <1>9
    <3> QED
      BY <1>2, <1>5, <3>1
  <2>2. \A s \in SUBSET (1 .. n) : s # {} /\ iter[s \ {Max(s)}] \in X => iter[s] \in X
    <3> TAKE s \in SUBSET (1 .. n)
    <3> HAVE s # {} /\ iter[s \ {Max(s)}] \in X
    <3>1. s \in SUBSET D /\ first[Max(s)] \in Decoders
      BY <1>2, <1>7
    <3>2. iter[s] = Add(iter[s \ {Max(s)}], first[Max(s)])
      BY <1>9, <3>1
    <3> QED
      BY <1>3, <3>1, <3>2
  <2> QED
    BY <2>1, <2>2, FoldKeeps
<1> QED
  BY <1>1, <1>2, <1>10 DEF X

-----------------------------------------------------------------------------
(* The invariant of a plan.                                                 *)

\* The tokens given: which of which slot.
FilledBy(f) == {p \in Order \X Nat : p[2] \in 1 .. f[p[1]]}
Filled == FilledBy(take)

Counted == IsFiniteSet(Filled) /\ Cardinality(Filled) + left = quotaCap

\* What the prefill pass splits: the room that the decode pass leaves, between
\* slots that stop at their boundaries; all the room when nothing is decoded.
UnderWay ==
  mode # "join" =>
    /\ plan \in DecodePlans
    /\ quotaCap + Len(plan) <= NBatchOf
    /\ \A i \in Order : want[i] <= RestToStop(i) /\ (Rest(i) > 0 => want[i] > 0)
    /\ mode = "prefill" \/ Decoders = {} => quotaCap = NBatchOf

PlanInv ==
  /\ mode \in {"join", "auto", "prefill"}
  /\ BudgetInv /\ SeatsInv /\ QuotaInv /\ Counted /\ UnderWay

\* A budget as it is resolved (resolve_budget).
LEMMA BudgetResolved ==
  ASSUME NEW b \in Asked
  PROVE  /\ ResolveBudget(b) \in BudgetType
         /\ ResolveBudget(b).prefillMax > 0
         /\ ResolveBudget(b).yieldEvery <= CountMost
<1>1. Cardinality(Order) \in Nat
  BY SlotsFinite
<1>2. /\ NBatchOf \in Nat /\ NUbatch \in Nat /\ YieldTokens \in Nat /\ CountMost \in Nat
      /\ YieldTurns \in Nat /\ YieldTurns <= CountMost
      /\ b \in BudgetType /\ b.yieldEvery <= CountMost
  BY PlanningAssumption
<1>3. CASE b = DefaultBudget
  <2> DEFINE ub == GreaterOf(NUbatch, 1)
             shared == Cardinality(Order) > 1
             r == [prefillMax |-> IF shared THEN ub ELSE GreaterOf(NBatchOf, ub),
                   decodeMax  |-> GreaterOf(Cardinality(Order), 1),
                   mixedMax   |-> 0,
                   yieldEvery |-> IF shared THEN YieldTurns ELSE 0,
                   yieldMax   |-> IF shared THEN LesserOf(YieldTokens, ub) ELSE 0]
  <2>1. ResolveBudget(b) = r
    BY <1>3 DEF ResolveBudget, ForContext
  <2>2. /\ r.prefillMax \in Nat /\ r.prefillMax > 0 /\ r.decodeMax \in Nat
        /\ r.mixedMax \in Nat /\ r.yieldEvery \in Nat /\ r.yieldEvery <= CountMost
        /\ r.yieldMax \in Nat
    BY <1>1, <1>2 DEF GreaterOf, LesserOf
  <2>3. r \in BudgetType
    BY <2>2 DEF BudgetType
  <2> QED
    BY <2>1, <2>2, <2>3
<1>4. CASE b # DefaultBudget
  <2> DEFINE r == [prefillMax |-> GreaterOf(LesserOf(b.prefillMax, NBatchOf), 1),
                   decodeMax  |-> GreaterOf(b.decodeMax, 1),
                   mixedMax   |-> LesserOf(b.mixedMax, NBatchOf),
                   yieldEvery |-> b.yieldEvery,
                   yieldMax   |-> LesserOf(b.yieldMax, NBatchOf)]
  <2>1. /\ b.prefillMax \in Nat /\ b.decodeMax \in Nat /\ b.mixedMax \in Nat
        /\ b.yieldEvery \in Nat /\ b.yieldMax \in Nat
    BY <1>2 DEF BudgetType
  <2>2. ResolveBudget(b) = r
    BY <1>2, <1>4 DEF ResolveBudget, BudgetType
  <2>3. /\ r.prefillMax \in Nat /\ r.prefillMax > 0 /\ r.decodeMax \in Nat
        /\ r.mixedMax \in Nat /\ r.yieldEvery \in Nat /\ r.yieldEvery <= CountMost
        /\ r.yieldMax \in Nat
    BY <1>2, <2>1 DEF GreaterOf, LesserOf
  <2>4. r \in BudgetType
    BY <2>3 DEF BudgetType
  <2> QED
    BY <2>2, <2>3, <2>4
<1> QED
  BY <1>3, <1>4

\* The next boundary is no further than the rest of the prompt, and ahead.
LEMMA ToStopIs ==
  ASSUME SeatsInv, NEW i \in Order
  PROVE  /\ RestToStop(i) \in Nat
         /\ RestToStop(i) <= Rest(i)
         /\ Rest(i) > 0 => RestToStop(i) > 0
         /\ \A m \in seat[i].stops : seat[i].past < m => seat[i].past + RestToStop(i) <= m
<1> DEFINE s == seat[i]
           next == CHOOSE m \in s.stops : \A k \in s.stops : m <= k
<1>1. SeatInv(s)
  BY DEF SeatsInv
<1>2. Rest(i) \in Nat /\ (Rest(i) > 0 => Rest(i) = s.prompt - s.past)
  BY RestIs
<1>3. s.stops \in SUBSET Nat /\ s.past \in Nat /\ s.prompt \in Nat
  BY <1>1 DEF SeatInv, SeatType
<1> HIDE DEF s
<1>4. CASE s.stops = {}
  BY <1>2, <1>4 DEF RestToStop, s
<1>5. CASE s.stops # {}
  <2>1. \E m \in s.stops : \A k \in s.stops : m <= k
    BY <1>3, <1>5, LeastNat
  <2>2. next \in s.stops /\ \A k \in s.stops : next <= k
    BY <2>1
  <2>3. RestToStop(i) = IF next > s.past THEN LesserOf(Rest(i), next - s.past) ELSE Rest(i)
    BY <1>5 DEF RestToStop, s
  <2> HIDE DEF next
  <2>4. \A m \in s.stops : m \in s.past .. s.prompt - 1 /\ (m = s.past => m = s.prompt - 1)
    BY <1>1 DEF SeatInv
  <2>5. s.phase = "Prefilling"
    BY <1>1, <1>5 DEF SeatInv
  <2>6. Rest(i) > 0
    BY <2>5, RestIs DEF s
  <2>7. next \in Nat
    BY <1>3, <2>2
  <2>8. CASE next > s.past
    <3>1. RestToStop(i) = LesserOf(Rest(i), next - s.past)
      BY <2>3, <2>8
    <3>2. RestToStop(i) \in Nat /\ RestToStop(i) <= Rest(i) /\ RestToStop(i) > 0
          /\ s.past + RestToStop(i) <= next
      BY <1>2, <1>3, <2>6, <2>7, <2>8, <3>1 DEF LesserOf
    <3>3. ASSUME NEW m \in s.stops PROVE s.past + RestToStop(i) <= m
      <4>1. m \in Nat /\ next <= m
        BY <1>3, <2>2
      <4> QED
        BY <1>3, <2>7, <3>2, <4>1
    <3> QED
      BY <3>2, <3>3 DEF s
  <2>9. CASE ~(next > s.past)
    <3>1. RestToStop(i) = Rest(i)
      BY <2>3, <2>9
    <3>2. next = s.past /\ s.past = s.prompt - 1
      BY <1>3, <2>2, <2>4, <2>7, <2>9
    <3>3. ASSUME NEW m \in s.stops, s.past < m PROVE FALSE
      BY <1>3, <2>4, <3>2, <3>3
    <3> QED
      BY <1>2, <3>1, <3>3 DEF s
  <2> QED
    BY <2>8, <2>9
<1> QED
  BY <1>4, <1>5

\* A yield is one token at least (yield_chunk).
LEMMA YieldIs ==
  ASSUME BudgetInv, NEW rest \in Nat
  PROVE  YieldShare(rest) \in Nat /\ YieldShare(rest) > 0
  BY DEF BudgetInv, BudgetType, YieldShare

\* A turn gives the tokens it takes off what is left.
LEMMA GrantCounts ==
  ASSUME QuotaInv, Counted, NEW i \in Order, Grant(i)
  PROVE  Counted'
<1> DEFINE g == Given(i)
           New == {i} \X (take[i] + 1 .. take[i] + g)
<1>1. /\ g \in Nat /\ left - g \in Nat /\ take[i] \in Nat /\ left \in Nat /\ quotaCap \in Nat
      /\ take \in [Order -> Nat]
  BY GivenBounds DEF QuotaInv, QuotaType
<1>2. take' = [take EXCEPT ![i] = take[i] + g] /\ left' = left - g /\ quotaCap' = quotaCap
  BY DEF Grant
<1> HIDE DEF g
<1>3. IsFiniteSet(New) /\ Cardinality(New) = g
  <2>1. IsFiniteSet({i}) /\ Cardinality({i}) = 1
    BY FS_Singleton
  <2> DEFINE I == take[i] + 1 .. take[i] + g
  <2>2. IsFiniteSet(I) /\ Cardinality(I) = g
    <3>1. take[i] + 1 \in Int /\ take[i] + g \in Int
      BY <1>1
    <3> DEFINE lo == take[i] + 1
               hi == take[i] + g
    <3>2. IsFiniteSet(lo .. hi) /\ Cardinality(lo .. hi) = IF lo > hi THEN 0 ELSE hi - lo + 1
      <4> HIDE DEF lo, hi
      <4> QED
        BY <3>1, FS_Interval DEF lo, hi
    <3> QED
      BY <1>1, <3>2
  <2>3. IsFiniteSet({i} \X I) /\ Cardinality({i} \X I) = Cardinality({i}) * Cardinality(I)
    <3> HIDE DEF I
    <3> QED
      BY <2>1, <2>2, FS_Product
  <2> HIDE DEF I
  <2>4. Cardinality({i} \X I) = g
    BY <1>1, <2>1, <2>2, <2>3
  <2> QED
    BY <2>3, <2>4 DEF I
<1>4. Filled' = Filled \cup New
  <2>1. ASSUME NEW j \in Order, NEW k \in Nat
        PROVE  <<j, k>> \in Filled' <=> <<j, k>> \in Filled \cup New
    <3>1. <<j, k>> \in Filled' <=> k \in 1 .. take'[j]
      BY DEF Filled, FilledBy
    <3>2. <<j, k>> \in Filled <=> k \in 1 .. take[j]
      BY DEF Filled, FilledBy
    <3>3. CASE j = i
      <4>1. take'[j] = take[i] + g
        BY <1>1, <1>2, <3>3
      <4>2. <<j, k>> \in New <=> k \in take[i] + 1 .. take[i] + g
        BY <3>3
      <4> QED
        BY <1>1, <3>1, <3>2, <3>3, <4>1, <4>2
    <3>4. CASE j # i
      <4>1. take'[j] = take[j]
        BY <1>1, <1>2, <3>4
      <4>2. <<j, k>> \notin New
        BY <3>4
      <4> QED
        BY <3>1, <3>2, <4>1, <4>2
    <3> QED
      BY <3>3, <3>4
  <2>2. Filled' \subseteq Order \X Nat /\ Filled \cup New \subseteq Order \X Nat
    <3>1. New \subseteq Order \X Nat
      BY <1>1
    <3> HIDE DEF New
    <3> QED
      BY <3>1 DEF Filled, FilledBy
  <2> HIDE DEF New
  <2> QED
    BY <2>1, <2>2
<1>5. Filled \cap New = {}
  <2> SUFFICES ASSUME NEW p \in Filled, p \in New PROVE FALSE
    OBVIOUS
  <2>1. p[2] \in 1 .. take[p[1]]
    BY DEF Filled, FilledBy
  <2>2. p[1] = i /\ p[2] \in take[i] + 1 .. take[i] + g
    OBVIOUS
  <2> QED
    BY <1>1, <2>1, <2>2
<1> HIDE DEF New
<1>6. IsFiniteSet(Filled') /\ Cardinality(Filled') = Cardinality(Filled) + g
  <2>1. IsFiniteSet(Filled) /\ Cardinality(Filled) \in Nat
    BY FS_CardinalityType DEF Counted
  <2>2. /\ IsFiniteSet(Filled \cup New)
        /\ Cardinality(Filled \cup New) = Cardinality(Filled) + Cardinality(New)
                                           - Cardinality(Filled \cap New)
    BY <1>3, <2>1, FS_Union
  <2>3. Cardinality(Filled \cap New) = 0
    BY <1>5, FS_EmptySet
  <2> QED
    BY <1>1, <1>3, <1>4, <2>1, <2>2, <2>3
<1>7. Cardinality(Filled) \in Nat
  BY FS_CardinalityType DEF Counted
<1> QED
  BY <1>1, <1>2, <1>6, <1>7 DEF Counted

\* Nothing given: nothing is filled.
LEMMA NothingFilled ==
  ASSUME NEW f, \A i \in Order : f[i] = 0
  PROVE  IsFiniteSet(FilledBy(f)) /\ Cardinality(FilledBy(f)) = 0
<1>1. FilledBy(f) = {}
  <2> SUFFICES ASSUME NEW p \in FilledBy(f) PROVE FALSE
    OBVIOUS
  <2>1. p[1] \in Order /\ p[2] \in 1 .. f[p[1]]
    BY DEF FilledBy
  <2> QED
    BY <2>1
<1> QED
  BY <1>1, FS_EmptySet

\* At first the seats are vacant and nothing is split (PlanInit).
LEMMA PlanInitially == PlanInit => PlanInv
<1> SUFFICES ASSUME PlanInit PROVE PlanInv
  OBVIOUS
<1>1. BudgetInv
  BY BudgetResolved DEF PlanInit, BudgetInv
<1>2. SeatsInv
  BY DEF PlanInit, SeatsInv, SeatInv, SeatType, Vacant
<1>3. QuotaInit(0, NoTokens) /\ mode = "join"
  BY DEF PlanInit
<1>4. NoTokens \in [Order -> Nat]
  BY DEF NoTokens
<1>5. QuotaInv
  BY <1>3, <1>4, QuotaInitially
<1>6. Counted
  <2>1. take = [i \in Order |-> 0] /\ left = 0 /\ quotaCap = 0
    BY <1>3 DEF QuotaInit
  <2> QED
    BY <2>1, NothingFilled DEF Counted, Filled
<1> QED
  BY <1>1, <1>2, <1>3, <1>5, <1>6 DEF PlanInv, UnderWay

\* Seats that stay as they are mean the same.
LEMMA SameSeats ==
  ASSUME UNCHANGED <<seat, budget>>
  PROVE  /\ Decoders' = Decoders /\ Prefillers' = Prefillers /\ LongestRest' = LongestRest
         /\ DecodePlans' = DecodePlans /\ FinishLimit' = FinishLimit
         /\ \A i \in Order : Rest(i)' = Rest(i) /\ RestToStop(i)' = RestToStop(i)
         /\ SeatsInv' = SeatsInv /\ BudgetInv' = BudgetInv
<1>1. Decoders' = Decoders
  BY DEF Decoders
<1>2. \A i \in Order : Rest(i)' = Rest(i)
  BY DEF Rest
<1>3. Prefillers' = Prefillers
  BY <1>2 DEF Prefillers
<1>4. LongestRest' = LongestRest
  BY DEF LongestRest, Rest
<1>5. \A i \in Order : RestToStop(i)' = RestToStop(i)
  BY DEF RestToStop, Rest
<1>6. DecodePlans' = DecodePlans /\ FinishLimit' = FinishLimit
  BY <1>1 DEF DecodePlans, FinishLimit
<1>7. SeatsInv' = SeatsInv /\ BudgetInv' = BudgetInv
  BY DEF SeatsInv, BudgetInv
<1> QED
  BY <1>1, <1>2, <1>3, <1>4, <1>5, <1>6, <1>7

\* A plan begins within n_batch, and with all of it when nothing is decoded.
LEMMA BeginInv == ASSUME PlanInv, BeginPlan PROVE PlanInv'
<1> DEFINE tokens == IF mode' = "prefill" THEN <<>> ELSE DecodePass
           most == IF mode' = "prefill" THEN YieldShare(LongestRest) ELSE budget.prefillMax
<1>1. /\ mode' = MixMode /\ plan' = tokens
      /\ quotaCap' = PrefillCap(tokens) /\ left' = quotaCap'
      /\ want' = [i \in Order |-> LesserOf(RestToStop(i), most)]
      /\ take' = NoTokens /\ share' = 0 /\ turn' = {}
      /\ UNCHANGED <<budget, seat>>
  BY DEF BeginPlan
<1>2. mode' \in {"auto", "prefill"}
  BY <1>1 DEF MixMode
<1>3. BudgetInv /\ SeatsInv /\ BudgetInv' /\ SeatsInv'
  BY <1>1, SameSeats DEF PlanInv
<1>4. tokens \in DecodePlans /\ Len(tokens) \in Nat /\ Len(tokens) <= NBatchOf
  <2>1. <<>> \in DecodePlans
    BY EmptySeq, PlanningAssumption DEF DecodePlans
  <2>2. DecodePass \in DecodePlans
    BY <1>3, DecodePassIs
  <2>3. tokens \in DecodePlans
    <3>1. CASE mode' = "prefill"
      BY <2>1, <3>1
    <3>2. CASE mode' # "prefill"
      BY <2>2, <3>2
    <3> QED
      BY <3>1, <3>2
  <2> HIDE DEF tokens
  <2> QED
    BY <2>3, LenProperties DEF DecodePlans
<1>5. most \in Nat /\ most > 0
  <2>1. LongestRest \in Nat
    BY <1>3, LongestIs
  <2> QED
    BY <1>3, <2>1, YieldIs DEF BudgetInv, BudgetType
<1> HIDE DEF most
<1>6. quotaCap' \in Nat /\ quotaCap' + Len(tokens) <= NBatchOf
      /\ (tokens = <<>> => quotaCap' = NBatchOf)
  <2>1. NBatchOf \in Nat /\ budget.mixedMax \in Nat /\ NBatchOf - Len(tokens) \in Nat
    <3>1. NBatchOf \in Nat /\ budget.mixedMax \in Nat
      BY <1>3, PlanningAssumption DEF BudgetInv, BudgetType
    <3> HIDE DEF tokens
    <3> QED
      BY <1>4, <3>1
  <2>2. tokens = <<>> => Len(tokens) = 0
    OBVIOUS
  <2> HIDE DEF tokens
  <2> QED
    BY <1>1, <1>4, <2>1, <2>2 DEF PrefillCap, LesserOf
<1>7. mode' = "prefill" \/ Decoders = {} => tokens = <<>>
  <2>1. CASE mode' = "prefill"
    BY <2>1
  <2>2. CASE Decoders = {}
    <3> HIDE DEF tokens
    <3>1. Len(tokens) = 0
      <4>1. \A k \in 1 .. Len(tokens) : FALSE
        BY <1>4, <2>2 DEF DecodePlans
      <4> QED
        BY <1>4, <4>1
    <3>2. tokens \in Seq(RowType)
      BY <1>4 DEF DecodePlans
    <3> QED
      BY <3>1, <3>2, EmptySeq
  <2> QED
    BY <2>1, <2>2
<1> HIDE DEF tokens
<1>8. \A i \in Order : /\ want'[i] \in Nat /\ want'[i] <= RestToStop(i)
                       /\ Rest(i) > 0 => want'[i] > 0
  <2> TAKE i \in Order
  <2>1. RestToStop(i) \in Nat /\ (Rest(i) > 0 => RestToStop(i) > 0)
    BY <1>3, ToStopIs
  <2>2. want'[i] = LesserOf(RestToStop(i), most)
    BY <1>1
  <2> QED
    BY <1>5, <2>1, <2>2 DEF LesserOf
<1>9. take' = [i \in Order |-> 0]
  BY <1>1 DEF NoTokens
<1>10. QuotaInv'
  <2>1. want' \in [Order -> Nat]
    BY <1>1, <1>8
  <2>2. QuotaType'
    BY <1>1, <1>6, <1>9, <2>1 DEF QuotaType
  <2>3. Provided'
    BY <1>1, <1>9 DEF Provided
  <2>4. \A i \in Order : take'[i] <= want'[i]
    BY <1>8, <1>9
  <2> QED
    BY <2>2, <2>3, <2>4 DEF QuotaInv
<1>11. Counted'
  BY <1>1, <1>6, <1>9, NothingFilled DEF Counted, Filled
<1>12. UnderWay'
  <2>1. \A i \in Order : RestToStop(i)' = RestToStop(i) /\ Rest(i)' = Rest(i)
    BY <1>1, SameSeats
  <2>2. DecodePlans' = DecodePlans /\ Decoders' = Decoders
    BY <1>1, SameSeats
  <2> QED
    BY <1>1, <1>4, <1>6, <1>7, <1>8, <2>1, <2>2 DEF UnderWay
<1> QED
  BY <1>2, <1>3, <1>10, <1>11, <1>12 DEF PlanInv

\* A step of the split.
LEMMA SplitInv == ASSUME PlanInv, SplitPrefill PROVE PlanInv'
<1>1. QuotaNext /\ UNCHANGED <<budget, seat, sinceYield, mode, plan, waited, paused>> /\ QuotaInv
  BY DEF SplitPrefill, PlanInv
<1>2. quotaCap' = quotaCap /\ want' = want
  BY <1>1 DEF QuotaNext, Round, Grant, OutOfTokens
<1>3. QuotaInv'
  BY <1>1, TypeStep, RoundProvides, GrantProvides, EndProvides DEF QuotaNext, QuotaInv
<1>4. Counted'
  <2>1. CASE take' = take /\ left' = left
    BY <1>2, <2>1 DEF PlanInv, Counted, Filled
  <2>2. ASSUME NEW i \in Order, Grant(i) PROVE Counted'
    BY <1>1, <2>2, GrantCounts DEF PlanInv
  <2> QED
    BY <1>1, <2>1, <2>2 DEF QuotaNext, Round, OutOfTokens
<1>5. UnderWay'
  <2>1. \A i \in Order : RestToStop(i)' = RestToStop(i) /\ Rest(i)' = Rest(i)
    BY <1>1, SameSeats
  <2>2. DecodePlans' = DecodePlans /\ Decoders' = Decoders
    BY <1>1, SameSeats
  <2> QED
    BY <1>1, <1>2, <2>1, <2>2 DEF UnderWay, PlanInv
<1> QED
  BY <1>1, <1>3, <1>4, <1>5, SameSeats DEF PlanInv

\* What a slot is given is what it has left of its prompt.
LEMMA TakenIs ==
  ASSUME PlanInv, mode # "join", NEW i \in Order
  PROVE  /\ take[i] \in Nat /\ take[i] <= want[i] /\ take[i] <= RestToStop(i)
         /\ take[i] <= Rest(i)
         /\ take[i] > 0 => seat[i].phase = "Prefilling"
<1>1. take[i] \in Nat /\ want[i] \in Nat /\ take[i] <= want[i] /\ want[i] <= RestToStop(i)
  BY DEF PlanInv, QuotaInv, QuotaType, UnderWay
<1>2. RestToStop(i) \in Nat /\ RestToStop(i) <= Rest(i) /\ Rest(i) \in Nat
      /\ (Rest(i) > 0 <=> seat[i].phase = "Prefilling")
  BY ToStopIs, RestIs DEF PlanInv
<1> QED
  BY <1>1, <1>2

\* A slot that has rows to decode is decoding.
LEMMA RowsOfDecoders ==
  ASSUME PlanInv, mode # "join", NEW i \in Order, RowsOf(i) > 0
  PROVE  seat[i].phase = "Decoding"
<1> DEFINE K == {k \in 1 .. Len(plan) : plan[k].seq = i}
<1>1. K # {}
  <2> SUFFICES ASSUME K = {} PROVE FALSE
    OBVIOUS
  <2>1. RowsOf(i) = 0
    BY FS_EmptySet DEF RowsOf
  <2> QED
    BY <2>1
<1>2. PICK k \in 1 .. Len(plan) : plan[k].seq = i
  BY <1>1
<1>3. i \in Decoders
  BY <1>2 DEF PlanInv, UnderWay, DecodePlans
<1> QED
  BY <1>3 DEF Decoders

\* A chunk leaves a seat (apply_plan).
LEMMA ChunkInv ==
  ASSUME PlanInv, mode # "join", NEW i \in Order, take[i] > 0, NEW s \in AfterChunk(i)
  PROVE  SeatInv(s)
<1> DEFINE c == seat[i]
           past == c.past + take[i]
           over == {m \in c.stops : m > past}
           t == [c EXCEPT !.past = past, !.stops = {m \in @ : m > past}]
<1>1. SeatInv(c)
  BY DEF PlanInv, SeatsInv
<1>2. c.phase = "Prefilling" /\ take[i] <= c.prompt - c.past /\ take[i] \in Nat
  BY TakenIs, RestIs DEF PlanInv
<1>3. c \in SeatType
  BY <1>1 DEF SeatInv
<1>4. s \in IF past < t.prompt THEN {t}
            ELSE {Vacant} \cup {[t EXCEPT !.phase = "Decoding", !.drafts = d] : d \in 0 .. DraftMost}
  BY DEF AfterChunk
<1>5. /\ c.past \in Nat /\ c.prompt \in Nat /\ c.stops \subseteq Nat
      /\ \A m \in c.stops : m \in c.past .. c.prompt - 1
  BY <1>1 DEF SeatInv, SeatType
<1> HIDE DEF c
<1>6. past \in Nat /\ past <= c.prompt
  BY <1>2, <1>5
<1>7. t = [c EXCEPT !.past = past, !.stops = over]
  BY <1>3 DEF SeatType
<1>8. over \subseteq Nat /\ \A m \in over : m > past /\ m \in 0 .. c.prompt - 1
  BY <1>5
<1> HIDE DEF past, over, t
<1>9. /\ t \in SeatType /\ t.phase = "Prefilling" /\ t.past = past /\ t.prompt = c.prompt
      /\ t.stops = over
  BY <1>2, <1>3, <1>6, <1>7, <1>8 DEF SeatType
<1>10. CASE past < t.prompt
  <2>1. s = t
    BY <1>4, <1>10
  <2>2. \A m \in t.stops : m \in t.past .. t.prompt - 1 /\ m # t.past
    <3> TAKE m \in t.stops
    <3>1. m \in over /\ t.past = past /\ t.prompt = c.prompt
      BY <1>9
    <3>2. m \in Nat /\ m > past /\ m \in 0 .. c.prompt - 1
      BY <1>8, <3>1
    <3> QED
      BY <1>5, <1>6, <3>1, <3>2
  <2> QED
    BY <1>9, <1>10, <2>1, <2>2 DEF SeatInv
<1>11. CASE ~(past < t.prompt)
  <2>1. over = {}
    BY <1>5, <1>6, <1>8, <1>9, <1>11
  <2>2. SeatInv(Vacant)
    BY DEF SeatInv, SeatType, Vacant
  <2>3. ASSUME NEW d \in 0 .. DraftMost PROVE SeatInv([t EXCEPT !.phase = "Decoding", !.drafts = d])
    <3> DEFINE u == [t EXCEPT !.phase = "Decoding", !.drafts = d]
    <3>1. d \in Nat
      BY PlanningAssumption
    <3>2. u \in SeatType /\ u.phase = "Decoding" /\ u.stops = {}
      BY <1>9, <2>1, <3>1 DEF SeatType
    <3> HIDE DEF u
    <3>3. SeatInv(u)
      BY <3>2 DEF SeatInv
    <3> QED
      BY <3>3 DEF u
  <2> QED
    BY <1>4, <1>11, <2>2, <2>3
<1> QED
  BY <1>10, <1>11

\* A decoded row leaves a seat (sample_and_emit).
LEMMA RowsInv ==
  ASSUME PlanInv, mode # "join", NEW i \in Order, RowsOf(i) > 0, NEW s \in AfterRows(i, RowsOf(i))
  PROVE  SeatInv(s)
<1> DEFINE c == seat[i]
           n == RowsOf(i)
<1>1. SeatInv(c) /\ c.phase = "Decoding"
  BY RowsOfDecoders DEF PlanInv, SeatsInv
<1>2. c \in SeatType /\ c.stops = {} /\ c.past \in Nat
  BY <1>1 DEF SeatInv, SeatType
<1>3. n \in Nat
  <2>1. IsFiniteSet({k \in 1 .. Len(plan) : plan[k].seq = i})
    <3>1. plan \in Seq(RowType)
      BY DEF PlanInv, UnderWay, DecodePlans
    <3>2. Len(plan) \in Nat
      BY <3>1, LenProperties
    <3>3. IsFiniteSet(1 .. Len(plan))
      BY <3>2, FS_Interval
    <3> QED
      BY <3>3, FS_Subset
  <2> QED
    BY <2>1, FS_CardinalityType DEF RowsOf
<1>4. s = Vacant \/ \E p \in c.past + 1 .. c.past + n, d \in 0 .. DraftMost :
                       s = Reached(c, p, d)
  BY DEF AfterRows
<1>5. SeatInv(Vacant)
  BY DEF SeatInv, SeatType, Vacant
<1> HIDE DEF c, n
<1>6. ASSUME NEW p \in c.past + 1 .. c.past + n, NEW d \in 0 .. DraftMost
      PROVE  SeatInv(Reached(c, p, d))
  <2> DEFINE u == Reached(c, p, d)
  <2>1. d \in Nat /\ p \in Nat
    BY <1>2, <1>3, PlanningAssumption
  <2>2. u \in SeatType /\ u.phase = "Decoding" /\ u.stops = {}
    BY <1>1, <1>2, <2>1 DEF SeatType, Reached
  <2> HIDE DEF u
  <2>3. SeatInv(u)
    BY <2>2 DEF SeatInv
  <2> QED
    BY <2>3 DEF u
<1> QED
  BY <1>4, <1>5, <1>6

\* The outcome of a plan is a seat again.
LEMMA OutcomeInv ==
  ASSUME PlanInv, mode # "join", NEW i \in Order, NEW s \in Outcome(i)
  PROVE  SeatInv(s)
<1>1. CASE take[i] > 0
  BY <1>1, ChunkInv DEF Outcome
<1>2. CASE ~(take[i] > 0) /\ RowsOf(i) > 0
  BY <1>2, RowsInv DEF Outcome
<1>3. CASE ~(take[i] > 0) /\ ~(RowsOf(i) > 0)
  BY <1>3 DEF Outcome, PlanInv, SeatsInv
<1> QED
  BY <1>1, <1>2, <1>3

\* A plan is applied.
LEMMA ApplyInv == ASSUME PlanInv, ApplyPlan PROVE PlanInv'
<1>1. /\ mode # "join" /\ QuotaDone
      /\ DOMAIN seat' = Order /\ (\A i \in Order : seat'[i] \in Outcome(i))
      /\ mode' = "join" /\ quotaCap' = 0 /\ want' = NoTokens /\ take' = NoTokens
      /\ left' = 0 /\ share' = 0 /\ turn' = turn /\ budget' = budget
  BY DEF ApplyPlan
<1>2. SeatsInv'
  BY <1>1, OutcomeInv DEF SeatsInv
<1>3. BudgetInv'
  BY <1>1 DEF PlanInv, BudgetInv
<1>4. take' = [i \in Order |-> 0] /\ want' = [i \in Order |-> 0] /\ turn' = {}
  BY <1>1 DEF NoTokens, QuotaDone
<1>5. QuotaInv'
  BY <1>1, <1>4 DEF QuotaInv, QuotaType, Provided
<1>6. Counted'
  BY <1>1, <1>4, NothingFilled DEF Counted, Filled
<1> QED
  BY <1>1, <1>2, <1>3, <1>5, <1>6 DEF PlanInv, UnderWay

\* A request takes a seat, or leaves it.
LEMMA SeatedInv ==
  ASSUME PlanInv, NEW i \in Order, (\E a \in Arrivals : JoinSeat(i, a)) \/ LeaveSeat(i)
  PROVE  PlanInv'
<1>1. mode = "join" /\ UNCHANGED <<quotaVars, budget, mode>>
  BY DEF JoinSeat, LeaveSeat
<1>2. SeatsInv'
  <2>1. ASSUME NEW a \in Arrivals, JoinSeat(i, a) PROVE SeatsInv'
    <3>1. a.past \in Nat /\ a.prompt \in Nat /\ a.stops \subseteq Nat /\ a.past < a.prompt
          /\ \A m \in a.stops : m \in a.past .. a.prompt - 1 /\ (m = a.past => m = a.prompt - 1)
      BY PlanningAssumption
    <3> DEFINE s == [Vacant EXCEPT !.phase = "Prefilling", !.past = a.past,
                                   !.prompt = a.prompt, !.stops = a.stops]
    <3>2. s \in SeatType
      BY <3>1 DEF Vacant, SeatType
    <3>3. s.phase = "Prefilling" /\ s.past = a.past /\ s.prompt = a.prompt /\ s.stops = a.stops
          /\ s.drafts = 0
      BY DEF Vacant
    <3>4. seat' = [seat EXCEPT ![i] = s]
      BY <2>1 DEF JoinSeat
    <3> HIDE DEF s
    <3>5. SeatInv(s)
      BY <3>1, <3>2, <3>3 DEF SeatInv
    <3> QED
      BY <3>4, <3>5 DEF PlanInv, SeatsInv
  <2>2. ASSUME LeaveSeat(i) PROVE SeatsInv'
    <3>1. SeatInv(Vacant)
      BY DEF SeatInv, SeatType, Vacant
    <3> QED
      BY <2>2, <3>1 DEF LeaveSeat, PlanInv, SeatsInv
  <2> QED
    BY <2>1, <2>2
<1>3. BudgetInv' /\ QuotaInv' /\ Counted' /\ mode' = "join"
  BY <1>1 DEF PlanInv, BudgetInv, quotaVars, QuotaInv, QuotaType, Provided, Unserved, Eager,
              Counted, Filled
<1> QED
  BY <1>2, <1>3 DEF PlanInv, UnderWay

\* Every plan keeps to n_batch and to the boundaries, at every step of the
\* split, whatever comes and goes: an inductive invariant.
THEOREM PlanInductive == PlanSpec => []PlanInv
<1>1. PlanInv /\ [PlanNext]_planVars => PlanInv'
  <2> SUFFICES ASSUME PlanInv, [PlanNext]_planVars PROVE PlanInv'
    OBVIOUS
  <2>1. CASE UNCHANGED planVars
    <3>1. UNCHANGED <<quotaVars, budget, seat, mode, plan>>
      BY <2>1 DEF planVars
    <3>2. UNCHANGED <<quotaCap, want, take, left, share, turn>>
      BY <3>1 DEF quotaVars
    <3>3. QuotaInv' /\ Counted'
      BY <3>2 DEF PlanInv, QuotaInv, QuotaType, Provided, Unserved, Eager, Counted, Filled
    <3>4. UnderWay'
      <4>1. \A i \in Order : RestToStop(i)' = RestToStop(i) /\ Rest(i)' = Rest(i)
        BY <3>1, SameSeats
      <4>2. DecodePlans' = DecodePlans /\ Decoders' = Decoders
        BY <3>1, SameSeats
      <4> QED
        BY <3>1, <3>2, <4>1, <4>2 DEF UnderWay, PlanInv
    <3> QED
      BY <3>1, <3>3, <3>4, SameSeats DEF PlanInv
  <2> QED
    BY <2>1, BeginInv, SplitInv, ApplyInv, SeatedInv DEF PlanNext
<1> QED
  BY <1>1, PlanInitially, PTL DEF PlanSpec

-----------------------------------------------------------------------------
(* The size of a plan, and where its chunks end.                            *)

\* A chunk is the rows that its slot was given (plan_ex).
LEMMA ChunkIs ==
  ASSUME PlanInv, NEW i \in Order
  PROVE  Chunk(i) \in Seq(RowType) /\ Len(Chunk(i)) = take[i] /\ take[i] \in Nat
<1>1. take[i] \in Nat /\ seat[i].past \in Nat /\ seat[i].prompt \in Nat
  BY DEF PlanInv, QuotaInv, QuotaType, SeatsInv, SeatInv, SeatType
<1>2. \A k \in 1 .. take[i] :
        PlanToken(i, seat[i].past + k - 1, seat[i].past + k = seat[i].prompt) \in RowType
  BY <1>1 DEF PlanToken, RowType
<1>3. Chunk(i) \in [1 .. take[i] -> RowType]
  BY <1>2 DEF Chunk
<1> QED
  BY <1>1, <1>3, FunctionIsSeq

\* What is given to one slot.
LEMMA GivenTo ==
  ASSUME NEW i \in Order, take[i] \in Nat
  PROVE  IsFiniteSet({i} \X (1 .. take[i])) /\ Cardinality({i} \X (1 .. take[i])) = take[i]
<1> DEFINE I == 1 .. take[i]
<1>1. IsFiniteSet({i}) /\ Cardinality({i}) = 1
  BY FS_Singleton
<1>2. IsFiniteSet(I) /\ Cardinality(I) = take[i]
  BY FS_Interval
<1> HIDE DEF I
<1>3. IsFiniteSet({i} \X I) /\ Cardinality({i} \X I) = Cardinality({i}) * Cardinality(I)
  BY <1>1, <1>2, FS_Product, SMTT(30)
<1>4. Cardinality({i} \X I) = take[i]
  BY <1>1, <1>2, <1>3
<1> QED
  BY <1>3, <1>4 DEF I

\* The prefill part of a plan.
PrefillPart == FoldLeft(LAMBDA p, i : p \o Chunk(i), <<>>, InOrder(Prefillers))

\* It holds what was given, each token once.
LEMMA PrefillPartIs ==
  ASSUME PlanInv, mode # "join"
  PROVE  PrefillPart \in Seq(RowType) /\ Len(PrefillPart) = Cardinality(Filled)
<1> DEFINE runs == InOrder(Prefillers)
           n == Cardinality(Prefillers)
           D == DOMAIN runs
           iter[s \in SUBSET D] ==
             IF s = {} THEN <<>> ELSE iter[s \ {Max(s)}] \o Chunk(runs[Max(s)])
           R == Seq(RowType)
           G == [k \in 1 .. n |-> [t \in R |-> t \o Chunk(runs[k])]]
           In(s) == {p \in Filled : \E j \in s : p[1] = runs[j]}
           Meant(s) == iter[s] \in R /\ Len(iter[s]) = Cardinality(In(s))
           g == [s \in SUBSET (1 .. n) |-> IF Meant(s) THEN 1 ELSE 0]
<1>1. PrefillPart = iter[D]
  BY DEF PrefillPart, FoldLeft, MapThenFoldSet
<1>2. /\ n \in Nat /\ D = 1 .. n
      /\ \A k \in 1 .. n : runs[k] \in Prefillers /\ runs[k] \in Order
      /\ \A j, k \in 1 .. n : runs[j] = runs[k] => j = k
      /\ \A i \in Prefillers : \E k \in 1 .. n : runs[k] = i
  <2>1. Prefillers \in SUBSET Order
    BY DEF Prefillers
  <2>2. /\ n \in Nat /\ runs \in [1 .. n -> Prefillers]
        /\ \A j, k \in 1 .. n : runs[j] = runs[k] => j = k
        /\ \A i \in Prefillers : \E k \in 1 .. n : runs[k] = i
    BY <2>1, InOrderLists
  <2> HIDE DEF runs, n
  <2> QED
    BY <2>1, <2>2
<1> HIDE DEF runs, n, D
<1>3. ASSUME NEW t \in R, NEW k \in 1 .. n PROVE t \o Chunk(runs[k]) \in R
  BY <1>2, ChunkIs, ConcatProperties
<1>4. G \in [1 .. n -> [R -> R]]
  BY <1>3
<1>5. <<>> \in R
  BY EmptySeq
<1>6. PICK f \in [SUBSET (1 .. n) -> R] : IsFold(f, <<>>, n, G)
  <2> HIDE DEF G, R
  <2> QED
    BY <1>2, <1>4, <1>5, FoldExists
<1>7. \A s \in SUBSET (1 .. n) : s # {} =>
        Max(s) \in s /\ Max(s) \in 1 .. n /\ s \ {Max(s)} \in SUBSET (1 .. n)
  BY <1>2, MaxUpTo
<1>8. f = [s \in SUBSET D |-> IF s = {} THEN <<>> ELSE f[s \ {Max(s)}] \o Chunk(runs[Max(s)])]
  <2> HIDE DEF R
  <2>1. ASSUME NEW s \in SUBSET (1 .. n), s # {}
        PROVE  f[s] = f[s \ {Max(s)}] \o Chunk(runs[Max(s)])
    <3>1. Max(s) \in 1 .. n /\ f[s \ {Max(s)}] \in R
      BY <1>7, <2>1
    <3>2. f[s] = G[Max(s)][f[s \ {Max(s)}]]
      <4> HIDE DEF G
      <4> QED
        BY <1>6, <2>1 DEF IsFold
    <3> QED
      BY <3>1, <3>2
  <2>2. f[{}] = <<>>
    BY <1>6 DEF IsFold
  <2> QED
    BY <1>2, <2>1, <2>2
<1>9. iter = [s \in SUBSET D |->
               IF s = {} THEN <<>> ELSE iter[s \ {Max(s)}] \o Chunk(runs[Max(s)])]
  <2>1. \E c : c = [s \in SUBSET D |->
                     IF s = {} THEN <<>> ELSE c[s \ {Max(s)}] \o Chunk(runs[Max(s)])]
    BY <1>8
  <2> QED
    BY <2>1 DEF iter
<1> HIDE DEF iter, G
<1>10. IsFiniteSet(Filled) /\ \A s \in SUBSET (1 .. n) : IsFiniteSet(In(s))
  BY FS_Subset DEF PlanInv, Counted
<1>11. \A s \in SUBSET (1 .. n) : Meant(s)
  <2>1. Meant({})
    <3>1. iter[{}] = <<>>
      BY <1>9
    <3>2. In({}) = {} /\ Len(<<>>) = 0
      OBVIOUS
    <3>3. Cardinality(In({})) = 0
      BY <3>2, FS_EmptySet
    <3> HIDE DEF R, In
    <3> QED
      BY <1>5, <3>1, <3>2, <3>3
  <2>2. ASSUME NEW s \in SUBSET (1 .. n), s # {}, Meant(s \ {Max(s)}) PROVE Meant(s)
    <3> DEFINE x == Max(s)
               r == s \ {x}
               i == runs[x]
               New == {i} \X (1 .. take[i])
    <3>1. x \in s /\ x \in 1 .. n /\ r \in SUBSET (1 .. n)
      BY <1>7, <2>2
    <3>2. i \in Order /\ i \in Prefillers
      BY <1>2, <3>1
    <3>3. /\ iter[r] \in R /\ Len(iter[r]) = Cardinality(In(r))
      BY <2>2
    <3>4. iter[s] = iter[r] \o Chunk(i)
      BY <1>2, <1>9, <2>2
    <3> HIDE DEF x, r, i
    <3>5. Chunk(i) \in R /\ Len(Chunk(i)) = take[i] /\ take[i] \in Nat
      BY <3>2, ChunkIs
    <3>6. iter[s] \in R /\ Len(iter[s]) = Len(iter[r]) + take[i]
      <4> DEFINE a == iter[r]
                 b == Chunk(i)
      <4> HIDE DEF a, b
      <4>1. a \in Seq(RowType) /\ b \in Seq(RowType)
        BY <3>3, <3>5 DEF a, b
      <4>2. a \o b \in Seq(RowType) /\ Len(a \o b) = Len(a) + Len(b)
        BY <4>1, ConcatProperties
      <4> QED
        BY <3>4, <3>5, <4>2 DEF a, b
    <3>7. In(s) = In(r) \cup New
      <4>1. ASSUME NEW p \in Filled PROVE p \in In(s) <=> p \in In(r) \/ p \in New
        <5>1. p \in Order \X Nat /\ p[2] \in 1 .. take[p[1]]
          BY DEF Filled, FilledBy
        <5>2. p \in New <=> p[1] = i
          BY <5>1
        <5>3. p \in In(s) <=> p \in In(r) \/ p[1] = i
          BY <3>1 DEF r, i
        <5> QED
          BY <5>2, <5>3
      <4>2. New \subseteq Filled
        BY <3>2, <3>5 DEF Filled, FilledBy
      <4>3. In(s) \subseteq Filled /\ In(r) \subseteq Filled
        OBVIOUS
      <4> HIDE DEF In, New
      <4> QED
        BY <4>1, <4>2, <4>3
    <3>8. In(r) \cap New = {}
      <4> SUFFICES ASSUME NEW p \in In(r), p \in New PROVE FALSE
        OBVIOUS
      <4>1. PICK j \in r : p[1] = runs[j]
        OBVIOUS
      <4>2. p[1] = runs[x]
        BY DEF i
      <4>3. j \in 1 .. n /\ j # x
        BY <3>1, <4>1 DEF r
      <4> QED
        BY <1>2, <3>1, <4>1, <4>2, <4>3, ZenonT(60)
    <3>9. IsFiniteSet(In(r)) /\ IsFiniteSet(New) /\ Cardinality(New) = take[i]
      <4>1. IsFiniteSet(In(r))
        <5> HIDE DEF In
        <5> QED
          BY <1>10, <3>1
      <4> QED
        BY <3>2, <3>5, <4>1, GivenTo
    <3> HIDE DEF In, New
    <3>10. Cardinality(In(s)) = Cardinality(In(r)) + take[i]
      <4>1. Cardinality(In(r)) \in Nat
        BY <3>9, FS_CardinalityType
      <4>2. Cardinality(In(r) \cup New)
              = Cardinality(In(r)) + Cardinality(New) - Cardinality(In(r) \cap New)
        BY <3>9, FS_Union
      <4>3. Cardinality(In(r) \cap New) = 0
        BY <3>8, FS_EmptySet
      <4> QED
        BY <3>5, <3>7, <3>9, <4>1, <4>2, <4>3
    <3>11. Len(iter[s]) = Cardinality(In(s))
      BY <3>3, <3>6, <3>10
    <3> HIDE DEF R
    <3> QED
      BY <3>6, <3>11
  <2> HIDE DEF Meant
  <2> DEFINE One == {1}
  <2>3. /\ g[{}] \in One
        /\ \A s \in SUBSET (1 .. n) : s # {} /\ g[s \ {Max(s)}] \in One => g[s] \in One
    BY <1>7, <2>1, <2>2
  <2> HIDE DEF One
  <2>4. \A s \in SUBSET (1 .. n) : g[s] \in One
    <3> HIDE DEF g
    <3> QED
      BY <1>2, <2>3, FoldKeeps
  <2> TAKE s \in SUBSET (1 .. n)
  <2>5. g[s] = IF Meant(s) THEN 1 ELSE 0
    OBVIOUS
  <2>6. g[s] = 1
    <3> HIDE DEF g
    <3> QED
      BY <2>4 DEF One
  <2> QED
    BY <2>5, <2>6
<1>12. In(1 .. n) = Filled
  <2> SUFFICES ASSUME NEW p \in Filled PROVE \E j \in 1 .. n : p[1] = runs[j]
    OBVIOUS
  <2>1. p[1] \in Order /\ p[2] \in 1 .. take[p[1]]
    BY DEF Filled, FilledBy
  <2>2. take[p[1]] \in Nat /\ take[p[1]] > 0
    BY <2>1, ChunkIs
  <2>3. p[1] \in Prefillers
    BY <2>1, <2>2, TakenIs, RestIs DEF Prefillers, PlanInv
  <2> QED
    BY <1>2, <2>3
<1>13. iter[1 .. n] \in R /\ Len(iter[1 .. n]) = Cardinality(In(1 .. n))
  <2>1. Meant(1 .. n)
    <3> HIDE DEF Meant
    <3> QED
      BY <1>11
  <2> QED
    BY <2>1
<1> QED
  BY <1>1, <1>2, <1>12, <1>13

\* The plan is sound whenever the invariant holds.
LEMMA InvIsSound == PlanInv => PlanSound
<1> SUFFICES ASSUME PlanInv PROVE PlanSound
  OBVIOUS
<1>1. PlanFits
  <2> SUFFICES ASSUME mode # "join"
               PROVE  /\ Len(WholePlan) <= NBatchOf
                      /\ Len(WholePlan) = Len(plan) + quotaCap - left
    BY DEF PlanFits
  <2>1. PrefillPart \in Seq(RowType) /\ Len(PrefillPart) = Cardinality(Filled)
    BY PrefillPartIs
  <2>2. plan \in Seq(RowType) /\ Len(plan) \in Nat
    BY LenProperties DEF PlanInv, UnderWay, DecodePlans
  <2>3. WholePlan = plan \o PrefillPart
    BY DEF WholePlan, PrefillPart
  <2>4. Len(WholePlan) = Len(plan) + Cardinality(Filled)
    BY <2>1, <2>2, <2>3, ConcatProperties
  <2>5. /\ Cardinality(Filled) \in Nat /\ left \in Nat /\ quotaCap \in Nat
        /\ Cardinality(Filled) + left = quotaCap
    BY FS_CardinalityType DEF PlanInv, Counted, QuotaInv, QuotaType
  <2>6. quotaCap + Len(plan) <= NBatchOf /\ NBatchOf \in Nat
    BY PlanningAssumption DEF PlanInv, UnderWay
  <2> QED
    BY <2>2, <2>4, <2>5, <2>6
<1>2. StopsAreMet
  <2> SUFFICES ASSUME mode # "join", NEW i \in Order, NEW m \in seat[i].stops, seat[i].past < m
               PROVE  seat[i].past + take[i] <= m
    BY DEF StopsAreMet
  <2>1. take[i] \in Nat /\ take[i] <= RestToStop(i)
    BY TakenIs
  <2>2. RestToStop(i) \in Nat /\ seat[i].past + RestToStop(i) <= m
    BY ToStopIs DEF PlanInv
  <2>3. seat[i].past \in Nat /\ m \in Nat
    BY DEF PlanInv, SeatsInv, SeatInv, SeatType
  <2> QED
    BY <2>1, <2>2, <2>3
<1> QED
  BY <1>1, <1>2 DEF PlanSound

\* A plan has the size it may have, and ends where it has to, whatever the
\* budget, the prompts and their boundaries (plan_ex, prefill_remaining_to_stop).
THEOREM PlanSoundAlways == PlanSpec => []PlanSound
  BY PlanInductive, InvIsSound, PTL

-----------------------------------------------------------------------------
(* Neither side starves the other.                                          *)

\* Contexts and budgets that leave room for it: a token for each slot, and
\* yields, unless there is but one slot (0 is "never yield", policy.rs).
RoomForAll == NBatchOf >= Cardinality(Order)
YieldsAsked == \A b \in Asked : b = DefaultBudget \/ b.yieldEvery > 0 \/ Cardinality(Order) <= 1

BothSides == Prefillers # {} /\ Decoders # {}

CountsType == sinceYield \in Nat /\ waited \in [Order -> Nat] /\ paused \in Nat

\* The count of run_loop bounds how long anybody waited.
WaitInv ==
  /\ sinceYield <= budget.yieldEvery
  /\ \A i \in Order : waited[i] <= budget.yieldEvery
  /\ mode = "join" => \A i \in Order : waited[i] <= sinceYield
  /\ mode = "auto" /\ BothSides => \A i \in Order : waited[i] + 1 <= sinceYield

\* After a pause the count begins anew, so the next one finishes a short rest.
PauseInv ==
  /\ mode = "join" /\ paused > 0 => sinceYield = 0
  /\ mode = "prefill" => /\ sinceYield = 0 /\ Prefillers # {}
                         /\ paused = 0 \/ \A i \in Order : Rest(i) <= FinishLimit
  /\ \/ paused <= 1
     \/ /\ paused <= FinishLimit + 1
        /\ \A i \in Order : Rest(i) + paused <= FinishLimit + 1

PaceInv ==
  /\ RoomForAll
  /\ budget.yieldEvery > 0 \/ Cardinality(Order) <= 1
  /\ CountsType /\ WaitInv /\ PauseInv

\* One slot is not on both sides.
LEMMA OneSide ==
  ASSUME SeatsInv, BothSides PROVE Cardinality(Order) > 1
<1>1. PICK i \in Order, j \in Order : Rest(i) > 0 /\ seat[j].phase = "Decoding"
  BY DEF BothSides, Prefillers, Decoders
<1>2. i # j
  BY <1>1, RestIs
<1>3. IsFiniteSet({i}) /\ Cardinality({i}) = 1
  BY FS_Singleton
<1>4. IsFiniteSet({i} \cup {j}) /\ Cardinality({i} \cup {j}) = 2
  <2>1. /\ IsFiniteSet({i} \cup {j})
        /\ Cardinality({i} \cup {j}) = IF j \in {i} THEN Cardinality({i}) ELSE Cardinality({i}) + 1
    BY <1>3, FS_AddElement
  <2> QED
    BY <1>2, <1>3, <2>1
<1>5. Cardinality({i} \cup {j}) <= Cardinality(Order)
  <2>1. {i} \cup {j} \subseteq Order
    BY <1>1
  <2> QED
    BY <2>1, FS_Subset, OrderAssumption
<1> QED
  BY <1>4, <1>5, SlotsFinite

\* With all the room, everybody who prefills is given a token.
LEMMA AllServed ==
  ASSUME PlanInv, PaceInv, mode # "join", QuotaDone, mode = "prefill" \/ Decoders = {}
  PROVE  \A i \in Order : Rest(i) > 0 => take[i] > 0
<1>1. quotaCap = NBatchOf /\ NBatchOf \in Nat
  BY PlanningAssumption DEF PlanInv, UnderWay
<1>2. Cardinality({i \in Order : want[i] > 0}) <= Cardinality(Order)
  <2> DEFINE E == {i \in Order : want[i] > 0}
  <2>1. E \subseteq Order
    OBVIOUS
  <2> HIDE DEF E
  <2>2. Cardinality(E) <= Cardinality(Order)
    BY <2>1, FS_Subset, OrderAssumption
  <2> QED
    BY <2>2 DEF E
<1>3. Cardinality({i \in Order : want[i] > 0}) \in Nat /\ Cardinality(Order) \in Nat
  <2> DEFINE E == {i \in Order : want[i] > 0}
  <2>1. E \subseteq Order
    OBVIOUS
  <2> HIDE DEF E
  <2>2. Cardinality(E) \in Nat /\ Cardinality(Order) \in Nat
    BY <2>1, SlotsFinite
  <2> QED
    BY <2>2 DEF E
<1>4. quotaCap >= Cardinality({i \in Order : want[i] > 0})
  <2> DEFINE c == Cardinality({i \in Order : want[i] > 0})
  <2> HIDE DEF c
  <2>1. c <= Cardinality(Order) /\ c \in Nat /\ Cardinality(Order) \in Nat
    BY <1>2, <1>3 DEF c
  <2>2. NBatchOf >= Cardinality(Order)
    BY DEF PaceInv, RoomForAll
  <2>3. quotaCap >= c
    BY <1>1, <2>1, <2>2
  <2> QED
    BY <2>3 DEF c
<1>5. \A i \in Order : want[i] > 0 => take[i] > 0
  BY <1>4, ServedWhenDone DEF EveryoneServed, PlanInv
<1> QED
  BY <1>5 DEF PlanInv, UnderWay

\* At first nothing has waited.
LEMMA PaceInitially == RoomForAll /\ YieldsAsked /\ PlanInit => PaceInv
<1> SUFFICES ASSUME RoomForAll, YieldsAsked, PlanInit PROVE PaceInv
  OBVIOUS
<1>1. PICK b \in Asked : budget = ResolveBudget(b)
  BY DEF PlanInit
<1>2. budget.yieldEvery > 0 \/ Cardinality(Order) <= 1
  <2>1. Cardinality(Order) \in Nat
    BY SlotsFinite
  <2>2. CASE b = DefaultBudget
    <3>1. budget.yieldEvery = IF Cardinality(Order) > 1 THEN YieldTurns ELSE 0
      BY <1>1, <2>2 DEF ResolveBudget, ForContext
    <3>2. YieldTurns > 0
      BY PlanningAssumption
    <3> QED
      BY <2>1, <3>1, <3>2
  <2>3. CASE b # DefaultBudget
    <3>1. b \in BudgetType
      BY PlanningAssumption
    <3>2. budget.yieldEvery = b.yieldEvery
      BY <1>1, <2>3, <3>1 DEF ResolveBudget, BudgetType
    <3> QED
      BY <2>3, <3>2 DEF YieldsAsked
  <2> QED
    BY <2>2, <2>3
<1>3. budget.yieldEvery \in Nat
  BY PlanInitially DEF PlanInv, BudgetInv, BudgetType
<1>4. sinceYield = 0 /\ paused = 0 /\ mode = "join" /\ waited = [i \in Order |-> 0]
  BY DEF PlanInit, NoTokens
<1>5. CountsType
  BY <1>4 DEF CountsType
<1>6. WaitInv
  BY <1>3, <1>4 DEF WaitInv
<1>7. PauseInv
  BY <1>4 DEF PauseInv
<1> QED
  BY <1>2, <1>5, <1>6, <1>7 DEF PaceInv

\* An iteration begins: the count goes on, or a yield restarts it.
LEMMA BeginPace == ASSUME PlanInv, PaceInv, BeginPlan PROVE PaceInv'
<1>1. /\ mode = "join" /\ mode' = MixMode /\ sinceYield' = SinceYield(MixMode)
      /\ UNCHANGED <<budget, seat, waited, paused>>
  BY DEF BeginPlan
<1>2. /\ Decoders' = Decoders /\ Prefillers' = Prefillers /\ FinishLimit' = FinishLimit
      /\ \A i \in Order : Rest(i)' = Rest(i)
  BY <1>1, SameSeats
<1>3. BothSides' = BothSides
  BY <1>2 DEF BothSides
<1>4. /\ LongestRest \in Nat /\ (\A i \in Order : Rest(i) <= LongestRest /\ Rest(i) \in Nat)
      /\ LongestRest > 0 <=> Prefillers # {}
  BY LongestIs, RestIs DEF PlanInv
<1>5. /\ sinceYield \in Nat /\ budget.yieldEvery \in Nat /\ CountMost \in Nat
      /\ budget.yieldEvery <= CountMost /\ FinishLimit \in Nat
      /\ sinceYield <= budget.yieldEvery
  BY PlanningAssumption DEF PaceInv, CountsType, WaitInv, PlanInv, BudgetInv, BudgetType, FinishLimit
<1>6. /\ waited \in [Order -> Nat] /\ paused \in Nat
      /\ \A i \in Order : waited[i] <= sinceYield /\ waited[i] <= budget.yieldEvery
      /\ paused > 0 => sinceYield = 0
  BY <1>1 DEF PaceInv, CountsType, WaitInv, PauseInv
<1>7. BothSides => budget.yieldEvery > 0
  <2>1. BothSides => Cardinality(Order) > 1
    BY OneSide DEF PlanInv
  <2> QED
    BY <2>1, SlotsFinite DEF PaceInv
<1>8. CASE MixMode = "auto"
  <2>1. CASE BothSides
    <3>1. LongestRest > 0 /\ Decoders # {}
      BY <1>4, <2>1 DEF BothSides
    <3>2. ~(budget.yieldEvery > 0 /\ sinceYield >= budget.yieldEvery)
      BY <1>8, <3>1 DEF MixMode
    <3>3. sinceYield + 1 <= budget.yieldEvery
      BY <1>5, <1>7, <2>1, <3>2
    <3>4. sinceYield' = LesserOf(sinceYield + 1, CountMost)
      BY <1>1, <1>8, <3>1 DEF SinceYield
    <3>5. sinceYield' = sinceYield + 1
      BY <1>5, <3>3, <3>4 DEF LesserOf
    <3>6. CountsType'
      BY <1>1, <1>5, <1>6, <3>5 DEF CountsType
    <3>7. WaitInv'
      <4>1. \A i \in Order : waited'[i] + 1 <= sinceYield' /\ waited'[i] <= budget'.yieldEvery
        BY <1>1, <1>5, <1>6, <3>5
      <4> QED
        BY <1>1, <1>8, <3>3, <3>5, <4>1 DEF WaitInv
    <3>8. PauseInv'
      <4>1. \/ paused <= 1
            \/ /\ paused <= FinishLimit + 1
               /\ \A i \in Order : Rest(i) + paused <= FinishLimit + 1
        BY DEF PaceInv, PauseInv
      <4> QED
        BY <1>1, <1>2, <1>8, <4>1 DEF PauseInv
    <3> QED
      BY <1>1, <3>6, <3>7, <3>8 DEF PaceInv
  <2>2. CASE ~BothSides
    <3>1. ~(LongestRest > 0 /\ Decoders # {})
      BY <1>4, <2>2 DEF BothSides
    <3>2. sinceYield' = 0
      BY <1>1, <3>1 DEF SinceYield
    <3>3. CountsType'
      BY <1>1, <1>6, <3>2 DEF CountsType
    <3>4. WaitInv'
      BY <1>1, <1>3, <1>5, <1>6, <1>8, <2>2, <3>2 DEF WaitInv
    <3>5. PauseInv'
      <4>1. \/ paused <= 1
            \/ /\ paused <= FinishLimit + 1
               /\ \A i \in Order : Rest(i) + paused <= FinishLimit + 1
        BY DEF PaceInv, PauseInv
      <4> QED
        BY <1>1, <1>2, <1>8, <4>1 DEF PauseInv
    <3> QED
      BY <1>1, <3>3, <3>4, <3>5 DEF PaceInv
  <2> QED
    BY <2>1, <2>2
<1>9. CASE MixMode = "prefill"
  <2>1. /\ LongestRest > 0 /\ Decoders # {}
        /\ \/ LongestRest <= FinishLimit
           \/ budget.yieldEvery > 0 /\ sinceYield >= budget.yieldEvery
    BY <1>9 DEF MixMode
  <2>2. sinceYield' = 0
    BY <1>1, <1>9 DEF SinceYield
  <2>3. CountsType'
    BY <1>1, <1>6, <2>2 DEF CountsType
  <2>4. WaitInv'
    BY <1>1, <1>5, <1>6, <1>9, <2>2 DEF WaitInv
  <2>5. paused = 0 \/ \A i \in Order : Rest(i) <= FinishLimit
    <3>1. CASE LongestRest <= FinishLimit
      BY <1>4, <1>5, <3>1
    <3>2. CASE budget.yieldEvery > 0 /\ sinceYield >= budget.yieldEvery
      BY <1>5, <1>6, <3>2
    <3> QED
      BY <2>1, <3>1, <3>2
  <2>6. PauseInv'
    <3>1. \/ paused <= 1
          \/ /\ paused <= FinishLimit + 1
             /\ \A i \in Order : Rest(i) + paused <= FinishLimit + 1
      BY DEF PaceInv, PauseInv
    <3>2. Prefillers # {}
      BY <1>4, <2>1
    <3> QED
      BY <1>1, <1>2, <1>9, <2>2, <2>5, <3>1, <3>2 DEF PauseInv
  <2> QED
    BY <1>1, <2>3, <2>4, <2>6 DEF PaceInv
<1> QED
  BY <1>8, <1>9 DEF MixMode

\* A step of the split changes neither counts nor seats.
LEMMA SplitPace == ASSUME PlanInv, PaceInv, SplitPrefill PROVE PaceInv'
<1>1. UNCHANGED <<budget, seat, sinceYield, mode, waited, paused>>
  BY DEF SplitPrefill
<1>2. /\ Decoders' = Decoders /\ Prefillers' = Prefillers /\ FinishLimit' = FinishLimit
      /\ \A i \in Order : Rest(i)' = Rest(i)
  BY <1>1, SameSeats
<1>3. CountsType' /\ WaitInv'
  BY <1>1, <1>2 DEF PaceInv, CountsType, WaitInv, BothSides
<1>4. PauseInv'
  BY <1>1, <1>2 DEF PaceInv, PauseInv
<1> QED
  BY <1>1, <1>3, <1>4 DEF PaceInv

\* A slot that prefills after a plan has as much less to go as it was given.
LEMMA RestShrinks ==
  ASSUME PlanInv, mode # "join", NEW i \in Order, NEW s \in Outcome(i), s.phase = "Prefilling"
  PROVE  /\ Rest(i) > 0
         /\ s.prompt - s.past = Rest(i) - take[i]
<1> DEFINE c == seat[i]
<1>1. SeatInv(c) /\ c \in SeatType
  BY DEF PlanInv, SeatsInv, SeatInv
<1>2. take[i] \in Nat
  BY TakenIs
<1>3. /\ Rest(i) > 0 <=> c.phase = "Prefilling"
      /\ Rest(i) > 0 => Rest(i) = c.prompt - c.past
      /\ c.prompt \in Nat /\ c.past \in Nat
  BY <1>1, RestIs DEF PlanInv, SeatType
<1>4. CASE take[i] > 0
  <2> DEFINE past == c.past + take[i]
             over == {m \in c.stops : m > past}
             t == [c EXCEPT !.past = past, !.stops = over]
  <2>1. s \in AfterChunk(i) /\ c.phase = "Prefilling"
    BY <1>4, TakenIs DEF Outcome
  <2>2. s \in {t} \cup {Vacant} \cup
              {[t EXCEPT !.phase = "Decoding", !.drafts = d] : d \in 0 .. DraftMost}
    BY <1>1, <2>1 DEF AfterChunk, SeatType
  <2> HIDE DEF c, past, over
  <2>3. t.past = past /\ t.prompt = c.prompt /\ "phase" \in DOMAIN t
    BY <1>1 DEF SeatType
  <2>4. \A d : [t EXCEPT !.phase = "Decoding", !.drafts = d].phase = "Decoding"
    BY <2>3
  <2> HIDE DEF t
  <2>5. s = t
    <3>1. Vacant.phase # "Prefilling"
      BY DEF Vacant
    <3> QED
      BY <2>2, <2>4, <3>1
  <2>6. s.prompt - s.past = c.prompt - (c.past + take[i])
    BY <2>3, <2>5 DEF past
  <2> QED
    BY <1>2, <1>3, <2>1, <2>6
<1>5. CASE ~(take[i] > 0) /\ RowsOf(i) > 0
  <2>1. s \in AfterRows(i, RowsOf(i)) /\ c.phase = "Decoding"
    BY <1>5, RowsOfDecoders DEF Outcome
  <2>2. s = Vacant \/ \E p, d : s = Reached(c, p, d)
    BY <2>1 DEF AfterRows
  <2> HIDE DEF c
  <2>3. \A p, d : Reached(c, p, d).phase = "Decoding"
    BY <1>1, <2>1 DEF Reached, SeatType
  <2>4. Vacant.phase = "Empty"
    BY DEF Vacant
  <2> QED
    BY <2>2, <2>3, <2>4
<1>6. CASE ~(take[i] > 0) /\ ~(RowsOf(i) > 0)
  <2>1. s = c
    BY <1>6 DEF Outcome
  <2> QED
    BY <1>2, <1>3, <1>6, <2>1
<1> QED
  BY <1>4, <1>5, <1>6

\* A plan is applied: who was given nothing has waited one iteration more.
LEMMA ApplyPace == ASSUME PlanInv, PaceInv, ApplyPlan PROVE PaceInv'
<1>1. /\ mode # "join" /\ QuotaDone /\ mode' = "join" /\ budget' = budget
      /\ sinceYield' = sinceYield
      /\ (\A i \in Order : seat'[i] \in Outcome(i))
      /\ waited' = [i \in Order |-> IF Rest(i) > 0 /\ take[i] = 0
                                    THEN LesserOf(waited[i] + 1, CountMost + 1) ELSE 0]
      /\ paused' = IF mode = "prefill" THEN paused + 1 ELSE 0
  BY DEF ApplyPlan
<1>2. /\ sinceYield \in Nat /\ budget.yieldEvery \in Nat /\ CountMost \in Nat
      /\ FinishLimit \in Nat /\ FinishLimit >= 2 /\ sinceYield <= budget.yieldEvery
      /\ waited \in [Order -> Nat] /\ paused \in Nat
  BY PlanningAssumption DEF PaceInv, CountsType, WaitInv, PlanInv, BudgetInv, BudgetType, FinishLimit
<1>3. /\ FinishLimit' = FinishLimit
      /\ mode \in {"auto", "prefill"}
  BY <1>1 DEF FinishLimit, PlanInv
<1>4. \A i \in Order : Rest(i) \in Nat /\ take[i] \in Nat
  BY <1>1, RestIs, TakenIs DEF PlanInv
<1>5. \A i \in Order : waited'[i] \in Nat /\ waited'[i] <= sinceYield
  <2> TAKE i \in Order
  <2>1. CASE ~(Rest(i) > 0 /\ take[i] = 0)
    BY <1>1, <1>2, <2>1
  <2>2. CASE Rest(i) > 0 /\ take[i] = 0
    <3>1. mode = "auto" /\ Decoders # {}
      BY <1>1, <1>3, <2>2, AllServed
    <3>2. BothSides
      BY <2>2, <3>1 DEF BothSides, Prefillers
    <3>3. waited[i] \in Nat /\ waited[i] + 1 <= sinceYield
      BY <1>2, <3>1, <3>2 DEF PaceInv, WaitInv
    <3>4. waited'[i] = LesserOf(waited[i] + 1, CountMost + 1)
      BY <1>1, <2>2
    <3> QED
      BY <1>2, <3>3, <3>4 DEF LesserOf
  <2> QED
    BY <2>1, <2>2
<1>6. CountsType'
  <2>1. waited' \in [Order -> Nat]
    BY <1>1, <1>5
  <2>2. paused' \in Nat
    BY <1>1, <1>2
  <2> QED
    BY <1>1, <1>2, <2>1, <2>2 DEF CountsType
<1>7. WaitInv'
  <2>1. \A i \in Order : waited'[i] <= sinceYield' /\ waited'[i] <= budget'.yieldEvery
    BY <1>1, <1>2, <1>5
  <2> QED
    BY <1>1, <1>2, <2>1 DEF WaitInv
<1>8. \A i \in Order : Rest(i)' = 0 \/ (Rest(i) > 0 /\ Rest(i)' = Rest(i) - take[i])
  <2> TAKE i \in Order
  <2>1. CASE seat'[i].phase = "Prefilling"
    <3>1. Rest(i)' = seat'[i].prompt - seat'[i].past
      BY <2>1 DEF Rest
    <3>2. seat'[i] \in Outcome(i)
      BY <1>1
    <3> DEFINE s == seat'[i]
    <3> HIDE DEF s
    <3>3. Rest(i) > 0 /\ s.prompt - s.past = Rest(i) - take[i]
      BY <1>1, <2>1, <3>2, RestShrinks DEF s
    <3> QED
      BY <3>1, <3>3 DEF s
  <2>2. CASE seat'[i].phase # "Prefilling"
    BY <2>2 DEF Rest
  <2> QED
    BY <2>1, <2>2
<1>9. PauseInv'
  <2>1. CASE mode = "auto"
    <3>1. paused' = 0
      BY <1>1, <2>1
    <3> QED
      BY <1>1, <3>1 DEF PauseInv
  <2>2. CASE mode = "prefill"
    <3>1. /\ sinceYield = 0 /\ Prefillers # {}
          /\ paused = 0 \/ \A i \in Order : Rest(i) <= FinishLimit
          /\ \/ paused <= 1
             \/ /\ paused <= FinishLimit + 1
                /\ \A i \in Order : Rest(i) + paused <= FinishLimit + 1
      BY <2>2 DEF PaceInv, PauseInv
    <3>2. \A i \in Order : Rest(i) > 0 => take[i] > 0
      BY <1>1, <2>2, AllServed
    <3>3. paused' = paused + 1
      BY <1>1, <2>2
    <3>4. \A i \in Order : Rest(i)' = 0 \/ (Rest(i)' < Rest(i) /\ Rest(i)' \in Int)
      BY <1>4, <1>8, <3>2
    <3>5. CASE paused = 0
      <4>1. paused' <= 1
        BY <3>3, <3>5
      <4> QED
        BY <1>1, <3>1, <4>1 DEF PauseInv
    <3>6. CASE paused > 0
      <4>1. \A i \in Order : Rest(i) <= FinishLimit
        BY <1>2, <3>1, <3>6
      <4>2. PICK j \in Order : Rest(j) > 0
        BY <3>1 DEF Prefillers
      <4>3. CASE paused = 1
        <5>1. paused' <= FinishLimit + 1
          BY <1>2, <3>3, <4>3
        <5>2. \A i \in Order : Rest(i)' + paused' <= FinishLimit + 1
          BY <1>2, <1>4, <3>3, <3>4, <4>1, <4>3
        <5> QED
          BY <1>1, <1>3, <3>1, <5>1, <5>2 DEF PauseInv
      <4>4. CASE paused > 1
        <5>1. \A i \in Order : Rest(i) + paused <= FinishLimit + 1
          BY <1>2, <3>1, <4>4
        <5>2. paused' <= FinishLimit + 1
          BY <1>2, <1>4, <3>3, <4>2, <5>1
        <5>3. \A i \in Order : Rest(i)' + paused' <= FinishLimit + 1
          BY <1>2, <1>4, <3>3, <3>4, <5>1, <5>2
        <5> QED
          BY <1>1, <1>3, <3>1, <5>2, <5>3 DEF PauseInv
      <4> QED
        BY <1>2, <3>6, <4>3, <4>4
    <3> QED
      BY <1>2, <3>5, <3>6
  <2> QED
    BY <1>3, <2>1, <2>2
<1> QED
  BY <1>1, <1>6, <1>7, <1>9 DEF PaceInv

\* A request takes a seat, or leaves it.
LEMMA SeatedPace ==
  ASSUME PlanInv, PaceInv, NEW i \in Order, (\E a \in Arrivals : JoinSeat(i, a)) \/ LeaveSeat(i)
  PROVE  PaceInv'
<1>1. /\ mode = "join" /\ UNCHANGED <<budget, sinceYield, mode>>
      /\ FinishLimit' = FinishLimit
  BY DEF JoinSeat, LeaveSeat, FinishLimit
<1>2. CASE \E a \in Arrivals : JoinSeat(i, a)
  <2>1. paused' = 0 /\ waited' = waited
    BY <1>2 DEF JoinSeat
  <2> QED
    BY <1>1, <2>1 DEF PaceInv, CountsType, WaitInv, PauseInv
<1>3. CASE LeaveSeat(i)
  <2>1. paused' = paused /\ waited' = [waited EXCEPT ![i] = 0] /\ seat' = [seat EXCEPT ![i] = Vacant]
    BY <1>3 DEF LeaveSeat
  <2>2. /\ sinceYield \in Nat /\ budget.yieldEvery \in Nat /\ sinceYield <= budget.yieldEvery
        /\ waited \in [Order -> Nat] /\ paused \in Nat
        /\ FinishLimit \in Nat
        /\ \A j \in Order : waited[j] <= sinceYield /\ waited[j] <= budget.yieldEvery
    BY <1>1 DEF PaceInv, CountsType, WaitInv, PlanInv, BudgetInv, BudgetType, FinishLimit
  <2>3. waited' \in [Order -> Nat]
    BY <2>1, <2>2
  <2>4. \A j \in Order : waited'[j] <= sinceYield' /\ waited'[j] <= budget'.yieldEvery
    BY <1>1, <2>1, <2>2
  <2>5. CountsType' /\ WaitInv'
    BY <1>1, <2>1, <2>2, <2>3, <2>4 DEF CountsType, WaitInv
  <2>6. \A j \in Order : Rest(j)' = Rest(j) \/ Rest(j)' = 0
    <3> TAKE j \in Order
    <3>1. CASE j = i
      <4>1. seat'[j] = Vacant
        BY <2>1, <3>1 DEF PlanInv, SeatsInv
      <4> QED
        BY <4>1 DEF Rest, Vacant
    <3>2. CASE j # i
      BY <2>1, <3>2 DEF Rest
    <3> QED
      BY <3>1, <3>2
  <2>7. PauseInv'
    <3>1. /\ paused > 0 => sinceYield = 0
          /\ \/ paused <= 1
             \/ /\ paused <= FinishLimit + 1
                /\ \A j \in Order : Rest(j) + paused <= FinishLimit + 1
      BY <1>1 DEF PaceInv, PauseInv
    <3>2. \/ paused <= 1
          \/ /\ paused <= FinishLimit + 1
             /\ \A j \in Order : Rest(j)' + paused <= FinishLimit + 1
      BY <2>2, <2>6, <3>1
    <3> QED
      BY <1>1, <2>1, <3>1, <3>2 DEF PauseInv
  <2> QED
    BY <1>1, <2>5, <2>7 DEF PaceInv
<1> QED
  BY <1>2, <1>3

\* A pause and a wait are never longer than they may be.
LEMMA PaceIsKept == PlanInv /\ PaceInv => BothGoOn
<1> SUFFICES ASSUME PlanInv, PaceInv PROVE BothGoOn
  OBVIOUS
<1>1. PromptKeepsMoving
  BY DEF PaceInv, WaitInv, PromptKeepsMoving
<1>2. PauseEnds
  <2>1. FinishLimit \in Nat /\ paused \in Nat
    BY DEF PaceInv, CountsType, PlanInv, BudgetInv, BudgetType, FinishLimit
  <2>2. paused <= 1 \/ paused <= FinishLimit + 1
    BY DEF PaceInv, PauseInv
  <2> QED
    BY <2>1, <2>2 DEF PauseEnds
<1> QED
  BY <1>1, <1>2 DEF BothGoOn

\* Prompts go on next to answers, and answers next to prompts, for any budget
\* that yields and any context with a token for each slot (decide_mix_mode and
\* the counter of run_loop).
THEOREM BothGoOnAlways ==
  RoomForAll /\ YieldsAsked /\ PlanSpec => []BothGoOn
<1> DEFINE Both == PlanInv /\ PaceInv
<1>1. RoomForAll /\ YieldsAsked /\ PlanInit => Both
  BY PlanInitially, PaceInitially
<1>2. PlanInv /\ PlanInv' /\ PaceInv /\ [PlanNext]_planVars => PaceInv'
  <2> SUFFICES ASSUME PlanInv, PaceInv, [PlanNext]_planVars PROVE PaceInv'
    OBVIOUS
  <2>1. CASE UNCHANGED planVars
    <3>1. UNCHANGED <<budget, seat, sinceYield, mode, waited, paused>>
      BY <2>1 DEF planVars
    <3>2. /\ Decoders' = Decoders /\ Prefillers' = Prefillers /\ FinishLimit' = FinishLimit
          /\ \A i \in Order : Rest(i)' = Rest(i)
      BY <3>1, SameSeats
    <3>3. CountsType' /\ WaitInv'
      BY <3>1, <3>2 DEF PaceInv, CountsType, WaitInv, BothSides
    <3>4. PauseInv'
      BY <3>1, <3>2 DEF PaceInv, PauseInv
    <3> QED
      BY <3>1, <3>3, <3>4 DEF PaceInv
  <2> QED
    BY <2>1, BeginPace, SplitPace, ApplyPace, SeatedPace DEF PlanNext
<1>3. Both => BothGoOn
  BY PaceIsKept
<1>4. PlanSpec => []PlanInv
  BY PlanInductive
<1> QED
  BY <1>1, <1>2, <1>3, <1>4, PTL DEF PlanSpec

-----------------------------------------------------------------------------
(* Caps and admission.                                                      *)

Questions == [pool : Nat, single : Nat, spec : Nat, n : Nat, others : Nat,
              prompt : Nat, max : Nat]

CapsSpec == CapsInit /\ [][CapsNext]_q

Numbers == q \in Questions

\* A step asks a question about numbers.
LEMMA QuestionsAsked ==
  /\ CapsInit => Numbers
  /\ Numbers /\ [CapsNext]_q => Numbers'
<1>1. CapsInit => q \in Questions
  BY DEF CapsInit, Questions
<1>2. ASSUME q \in Questions, NEW f \in DOMAIN q, Raise(f) PROVE q' \in Questions
  BY <1>2 DEF Raise, Questions
<1> QED
  BY <1>1, <1>2 DEF CapsNext, Numbers

\* A joiner leaves the others and all verify steps their cells and keeps to
\* --single-max-ctx; two slots that grow to their caps leave the reserve.
LEMMA CapsFitNumbers == Numbers => CapsFit
<1> SUFFICES ASSUME q \in Questions PROVE CapsFit
  BY DEF Numbers
<1>1. /\ q.others \in Nat /\ q.n \in Nat /\ q.pool \in Nat /\ q.single \in Nat
      /\ q.spec \in Nat /\ q.prompt \in Nat
  BY DEF Questions
<1>2. JoinRoom
  <2> SUFFICES ASSUME JoinCap(q) > 0
               PROVE  /\ JoinCap(q) + q.others + SpecReserve(q.spec, q.n) <= q.pool
                      /\ q.single > 0 => JoinCap(q) <= q.single
    BY DEF JoinRoom
  <2>1. JoinCap(q) + q.others + SpecReserve(q.spec, q.n) <= q.pool
    BY <1>1, JoinRoomAlways DEF JoinCap
  <2> DEFINE c == SlotCap(q.single, 0, q.pool, q.n, q.spec)
  <2>2. c \in Nat /\ c <= ResolveSingleMax(q.single, q.pool)
    BY <1>1, SlotCapBounds
  <2>3. q.single > 0 => ResolveSingleMax(q.single, q.pool) <= q.single
    BY <1>1 DEF ResolveSingleMax, Smaller
  <2>4. ResolveSingleMax(q.single, q.pool) \in Nat
    BY <1>1, SlotCapBounds
  <2>5. JoinCap(q) \in Nat /\ (JoinCap(q) = 0 \/ JoinCap(q) <= c)
    <3> HIDE DEF c
    <3>1. /\ EffectiveCap(c, 0, q.pool, q.others, q.spec, q.n) \in Nat
          /\ \/ EffectiveCap(c, 0, q.pool, q.others, q.spec, q.n) = 0
             \/ EffectiveCap(c, 0, q.pool, q.others, q.spec, q.n) <= c
      BY <1>1, <2>2, EffectiveCapBounds
    <3> QED
      BY <3>1 DEF JoinCap, CapForJoin, c
  <2> HIDE DEF c
  <2>6. q.single > 0 => JoinCap(q) <= q.single
    BY <1>1, <2>2, <2>3, <2>4, <2>5
  <2> QED
    BY <2>1, <2>6
<1>3. TwoSlotsFit
  BY <1>1, TwoSlotsAlwaysFit DEF TwoSlotsFit
<1> QED
  BY <1>2, <1>3 DEF CapsFit

\* Whoever is told to wait would be admitted whole alone.
LEMMA DefersNumbers == Numbers => DeferIsTemporary
<1> SUFFICES ASSUME q \in Questions, Decision(q) = "Defer"
             PROVE  LET alone == [q EXCEPT !.others = 0, !.n = 1]
                    IN  /\ NeededCells(q.prompt, q.max) <= JoinCap(alone)
                        /\ Decision(alone) = "Admit"
  BY DEF DeferIsTemporary, Numbers
<1>1. /\ q.others \in Nat /\ q.n \in Nat /\ q.pool \in Nat /\ q.single \in Nat
      /\ q.spec \in Nat /\ q.prompt \in Nat /\ q.max \in Nat
  BY DEF Questions
<1>2. JoinCap(q) \in Nat
  BY <1>1, CapForJoinType DEF JoinCap
<1>3. /\ NeededCells(q.prompt, q.max) <= CapForJoin(0, 1, q.pool, q.single, q.spec)
      /\ AdmissionDecision(CapForJoin(0, 1, q.pool, q.single, q.spec),
                           q.prompt, q.max, q.pool, q.single, q.spec) = "Admit"
  <2> DEFINE cap == JoinCap(q)
  <2>1. cap \in Nat /\ AdmissionDecision(cap, q.prompt, q.max, q.pool, q.single, q.spec) = "Defer"
    BY <1>2 DEF Decision
  <2> HIDE DEF cap
  <2> QED
    <3>1. NeededCells(q.prompt, q.max) \in Nat
      BY <1>1, MaxU32Assumption DEF NeededCells, SatAdd, Smaller, Larger
    <3>2. CapForJoin(0, 1, q.pool, q.single, q.spec) \in Nat
      BY <1>1, CapForJoinType
    <3> QED
      BY <2>1, <3>1, <3>2 DEF AdmissionDecision
<1> DEFINE alone == [q EXCEPT !.others = 0, !.n = 1]
<1>4. /\ alone.others = 0 /\ alone.n = 1 /\ alone.pool = q.pool /\ alone.single = q.single
      /\ alone.spec = q.spec /\ alone.prompt = q.prompt /\ alone.max = q.max
  BY DEF Questions
<1>5. JoinCap(alone) = CapForJoin(0, 1, q.pool, q.single, q.spec)
  BY <1>4 DEF JoinCap
<1> QED
  BY <1>3, <1>4, <1>5 DEF Decision

\* The caps leave room whatever the numbers are and however the sums saturate
\* (cap_for_join, effective_cap).
THEOREM CapsFitAlways == CapsSpec => []CapsFit
  BY QuestionsAsked, CapsFitNumbers, PTL DEF CapsSpec

\* A deferred request is admitted once it is alone (admission_decision).
THEOREM DeferIsTemporaryAlways == CapsSpec => []DeferIsTemporary
  BY QuestionsAsked, DefersNumbers, PTL DEF CapsSpec

\* A longer draft or one more slot reserves no less, up to saturation.
LEMMA ReserveGrows ==
  ASSUME NEW s \in Nat, NEW t \in Nat, NEW n \in Nat, NEW m \in Nat, s <= t, n <= m
  PROVE  SpecReserve(s, n) <= SpecReserve(t, m)
<1> DEFINE a == SpecHeadroom(s)  b == SpecHeadroom(t)
           c == Larger(n, 1)  d == Larger(m, 1)
<1>1. a \in Nat /\ b \in Nat /\ a <= b
  BY MaxU32Assumption DEF SpecHeadroom, SatAdd, Smaller
<1>2. c \in Nat /\ d \in Nat /\ c <= d
  BY DEF Larger
<1> HIDE DEF a, b, c, d
<1>3. a * c \in Nat /\ a * d \in Nat /\ b * d \in Nat
  BY <1>1, <1>2
<1>4. a * c <= a * d
  <2>1. PICK k \in Nat : d = c + k
    <3>1. d - c \in Nat /\ d = c + (d - c)
      BY <1>2
    <3> QED
      BY <3>1
  <2>2. a * k \in Nat /\ a * d = a * c + a * k
    BY <1>1, <1>2, <2>1
  <2> QED
    BY <1>3, <2>2
<1>5. a * d <= b * d
  <2>1. PICK k \in Nat : b = a + k
    <3>1. b - a \in Nat /\ b = a + (b - a)
      BY <1>1
    <3> QED
      BY <3>1
  <2>2. k * d \in Nat /\ b * d = a * d + k * d
    BY <1>1, <1>2, <2>1
  <2> QED
    BY <1>3, <2>2
<1>6. a * c <= b * d
  BY <1>3, <1>4, <1>5
<1>7. Smaller(a * c, MaxU32) <= Smaller(b * d, MaxU32)
  BY <1>3, <1>6, MaxU32Assumption DEF Smaller
<1> QED
  BY <1>7 DEF SpecReserve, SatMul, a, b, c, d

\* A part of less, or a smaller part, is no more.
LEMMA PartShrinks ==
  ASSUME NEW a \in Nat, NEW b \in Nat, NEW n \in Nat \ {0}, NEW m \in Nat \ {0}, a <= b, m <= n
  PROVE  a \div n <= b \div m
<1> DEFINE x == a \div n  y == b \div m
<1>1. x \in Nat /\ n * x <= a
  BY DivBounds
<1>2. y \in Nat /\ b < m * (y + 1)
  BY SMTT(30)
<1> HIDE DEF x, y
<1>3. SUFFICES ASSUME y + 1 <= x PROVE FALSE
  BY <1>1, <1>2 DEF x, y
<1>4. m * (y + 1) <= m * x
  <2>1. PICK k \in Nat : x = (y + 1) + k
    <3>1. x - (y + 1) \in Nat /\ x = (y + 1) + (x - (y + 1))
      BY <1>1, <1>2, <1>3
    <3> QED
      BY <3>1
  <2>2. m * k \in Nat /\ m * (y + 1) \in Nat /\ m * x = m * (y + 1) + m * k
    BY <1>1, <1>2, <2>1
  <2> QED
    BY <2>2
<1>5. m * x <= n * x
  <2>1. PICK k \in Nat : n = m + k
    <3>1. n - m \in Nat /\ n = m + (n - m)
      OBVIOUS
    <3> QED
      BY <3>1
  <2>2. k * x \in Nat /\ m * x \in Nat /\ n * x = m * x + k * x
    BY <1>1, <2>1
  <2> QED
    BY <2>2
<1>6. m * (y + 1) \in Nat /\ m * x \in Nat /\ n * x \in Nat
  BY <1>1, <1>2
<1> QED
  BY <1>1, <1>2, <1>4, <1>5, <1>6

\* Company enlarges no cap.
LEMMA CapShrinks ==
  ASSUME NEW cells \in Nat, NEW single \in Nat, NEW o \in Nat, NEW p \in Nat,
         NEW s \in Nat, NEW t \in Nat, NEW n \in Nat, NEW m \in Nat, o <= p, s <= t, n <= m
  PROVE  CapForJoin(p, m, cells, single, t) <= CapForJoin(o, n, cells, single, s)
<1> DEFINE rs == SpecReserve(s, n)  rt == SpecReserve(t, m)
           single2 == ResolveSingleMax(single, cells)
<1>1. rs \in Nat /\ rt \in Nat /\ rs <= rt
  BY SpecReserveBounds, ReserveGrows
<1>2. single2 \in Nat
  BY SlotCapBounds
<1>3. Larger(n, 1) \in Nat \ {0} /\ Larger(m, 1) \in Nat \ {0} /\ Larger(n, 1) <= Larger(m, 1)
  BY DEF Larger
<1> HIDE DEF rs, rt, single2
<1>4. SatSub(cells, rs) \in Nat /\ SatSub(cells, rt) \in Nat /\ SatSub(cells, rt) <= SatSub(cells, rs)
  BY <1>1 DEF SatSub
<1> DEFINE fs == SatSub(cells, rs) \div Larger(n, 1)  ft == SatSub(cells, rt) \div Larger(m, 1)
<1>5. fs \in Nat /\ ft \in Nat /\ ft <= fs
  BY <1>3, <1>4, DivBounds, PartShrinks
<1>6. fs = FairShare(cells, n, s) /\ ft = FairShare(cells, m, t)
  BY DEF FairShare, Usable, rs, rt
<1> HIDE DEF fs, ft
<1> DEFINE us == SatSub(SatSub(cells, o), rs)  ut == SatSub(SatSub(cells, p), rt)
<1>7. us \in Nat /\ ut \in Nat /\ ut <= us
  BY <1>1 DEF SatSub
<1> DEFINE cs == Smaller(single2, Larger(0, fs))  ct == Smaller(single2, Larger(0, ft))
<1>8. cs \in Nat /\ ct \in Nat /\ ct <= cs
  BY <1>2, <1>5 DEF Smaller, Larger
<1>9. cs = SlotCap(single, 0, cells, n, s) /\ ct = SlotCap(single, 0, cells, m, t)
  BY <1>6 DEF SlotCap, single2
<1> HIDE DEF us, ut, cs, ct
<1>10. Larger(0, Smaller(ct, ut)) <= Larger(0, Smaller(cs, us))
  BY <1>7, <1>8 DEF Larger, Smaller
<1> QED
  BY <1>9, <1>10 DEF CapForJoin, EffectiveCap, us, ut, rs, rt

\* More company never enlarges the cap of a joiner: a request is admitted with
\* the best cap it will have while neighbours come (cap_for_join).
THEOREM CompanyCostsAlways == CapsSpec => CompanyCosts
<1>1. ASSUME q \in Questions, [CapsNext]_q,
             q'.others > q.others \/ q'.n > q.n \/ q'.spec > q.spec
      PROVE  JoinCap(q') <= JoinCap(q)
  <2>1. /\ q.others \in Nat /\ q.n \in Nat /\ q.pool \in Nat /\ q.single \in Nat /\ q.spec \in Nat
    BY <1>1 DEF Questions
  <2>2. PICK f \in DOMAIN q : q' = [q EXCEPT ![f] = q[f] + 1]
    BY <1>1, <2>1 DEF CapsNext, Raise
  <2>3. f \in {"others", "n", "spec"}
    BY <1>1, <2>1, <2>2 DEF Questions
  <2>4. /\ q'.others \in Nat /\ q'.n \in Nat /\ q'.spec \in Nat
        /\ q'.pool = q.pool /\ q'.single = q.single
        /\ q.others <= q'.others /\ q.n <= q'.n /\ q.spec <= q'.spec
    BY <2>1, <2>2, <2>3, <1>1 DEF Questions
  <2> QED
    BY <2>1, <2>4, CapShrinks DEF JoinCap
<1>2. Numbers /\ [CapsNext]_q =>
        [(q'.others > q.others \/ q'.n > q.n \/ q'.spec > q.spec)
           => JoinCap(q') <= JoinCap(q)]_q
  BY <1>1 DEF Numbers
<1> QED
  BY <1>2, QuestionsAsked, PTL DEF CapsSpec, CompanyCosts

-----------------------------------------------------------------------------
(* Join policy.                                                             *)

\* A part of a list has the length asked for, and is a part of it.
LEMMA HeadOf ==
  ASSUME NEW T, NEW s \in Seq(T), NEW m \in 0 .. Len(s)
  PROVE  /\ SubSeq(s, 1, m) \in Seq(T) /\ Len(SubSeq(s, 1, m)) = m
         /\ IsPrefix(SubSeq(s, 1, m), s)
<1> DEFINE h == SubSeq(s, 1, m)
<1>1. Len(s) \in Nat /\ m \in Nat /\ m <= Len(s)
  BY LenProperties
<1>2. \A k \in 1 .. m : s[k] \in T
  BY <1>1, ElementOfSeq
<1>3. h \in Seq(T) /\ Len(h) = m /\ \A k \in 1 .. m : h[k] = s[k]
  <2>1. \A k \in 1 .. m : k \in 1 .. Len(s)
    BY <1>1
  <2> QED
    BY <1>1, <1>2, <2>1, SubSeqProperties
<1>4. SubSeq(h, 1, m) = h
  <2> HIDE DEF h
  <2>1. SubSeq(h, 1, Len(h)) = h
    BY <1>3, SubSeqFull
  <2> QED
    BY <1>3, <2>1
<1> QED
  BY <1>1, <1>3, <1>4 DEF IsPrefix

\* Sequences share at least each common beginning of theirs.
LEMMA SharedAtLeast ==
  ASSUME NEW T, NEW a \in Seq(T), NEW b \in Seq(T), NEW m \in 0 .. Len(a),
         IsPrefix(SubSeq(a, 1, m), b)
  PROVE  /\ Len(LongestCommonPrefix({a, b})) \in Nat
         /\ m <= Len(LongestCommonPrefix({a, b}))
<1> DEFINE C == CommonPrefixes({a, b})
           h == SubSeq(a, 1, m)
           L == {Len(c) : c \in C}
<1>1. C \subseteq Prefixes(a) \cup Prefixes(b) /\ \A c \in C : IsPrefix(c, a)
  BY DEF CommonPrefixes
<1>2. \A c \in C : Len(c) \in Nat /\ Len(c) <= Len(a)
  <2>1. ASSUME NEW c \in Prefixes(a) PROVE Len(c) \in Nat
    <3>1. PICK l \in 0 .. Len(a) : c = SubSeq(a, 1, l)
      BY <2>1 DEF Prefixes
    <3> QED
      BY <3>1, HeadOf, LenProperties
  <2>2. ASSUME NEW c \in Prefixes(b) PROVE Len(c) \in Nat
    <3>1. PICK l \in 0 .. Len(b) : c = SubSeq(b, 1, l)
      BY <2>2 DEF Prefixes
    <3> QED
      BY <3>1, HeadOf, LenProperties
  <2> QED
    BY <1>1, <2>1, <2>2 DEF IsPrefix
<1>3. h \in C /\ Len(h) = m
  <2>1. h \in Prefixes(a)
    BY DEF Prefixes
  <2>2. IsPrefix(h, a) /\ Len(h) = m
    BY HeadOf
  <2> HIDE DEF h
  <2> QED
    BY <2>1, <2>2 DEF CommonPrefixes, h
<1> HIDE DEF C, h
<1>4. L \in SUBSET Int /\ L # {} /\ Len(a) \in Int /\ \A x \in L : x <= Len(a)
  <2>1. \A x \in L : x \in Int /\ x <= Len(a)
    BY <1>2
  <2>2. Len(h) \in L /\ Len(a) \in Int
    BY <1>3, LenProperties
  <2> HIDE DEF L
  <2> QED
    BY <2>1, <2>2
<1>5. Max(L) \in L /\ \A x \in L : x <= Max(L)
  <2> HIDE DEF L
  <2> QED
    BY <1>4, MaxPicks
<1>6. PICK c \in C : Len(c) = Max(L)
  BY <1>5
<1>7. \E longest \in C : \A other \in C : Len(other) <= Len(longest)
  BY <1>5, <1>6
<1>8. /\ LongestCommonPrefix({a, b}) \in C
      /\ \A other \in C : Len(other) <= Len(LongestCommonPrefix({a, b}))
  BY <1>7 DEF LongestCommonPrefix, C
<1> QED
  BY <1>2, <1>3, <1>8

\* The slots that are of a session, as pick_empty_slot asks.
SameSession(taken, prompt) ==
  {i \in DOMAIN idle \ taken :
     IsPrefixAffinity(Shared(idle[i], prompt), AffinityBar(idle[i]))}

\* Of one slot that is of the session, that one is picked (pick_empty_slot).
LEMMA PicksItsOwn ==
  ASSUME NEW taken, NEW prompt, NEW o, SameSession(taken, prompt) = {o},
         Shared(idle[o], prompt) \in Nat, o \in Nat
  PROVE  PickSlot(taken, prompt) = o
<1> DEFINE free == {i \in DOMAIN idle : i \notin taken}
           same == {i \in free : IsPrefixAffinity(Shared(idle[i], prompt), AffinityBar(idle[i]))}
           More(k, i) == Shared(idle[k], prompt) > Shared(idle[i], prompt)
           best == CHOOSE i \in same : \A k \in same : ~More(k, i) /\ (~More(i, k) => i <= k)
<1>1. same = {o}
  BY DEF SameSession
<1>2. PickSlot(taken, prompt) = best
  <2>1. same # {}
    BY <1>1
  <2> QED
    BY <2>1 DEF PickSlot
<1>3. \A k \in same : ~More(k, o) /\ (~More(o, k) => o <= k)
  BY <1>1
<1>4. best \in same
  <2>1. \E i \in same : \A k \in same : ~More(k, i) /\ (~More(i, k) => i <= k)
    BY <1>1, <1>3
  <2> HIDE DEF same, More
  <2> QED
    BY <2>1
<1> QED
  BY <1>1, <1>2, <1>4

\* What is picked depends on the slots that are free only.
LEMMA PickFreeOnly ==
  ASSUME NEW taken, NEW prompt
  PROVE  PickSlot(taken, prompt) = PickSlot(taken \cap DOMAIN idle, prompt)
<1> DEFINE Same(free) ==
             {i \in free : IsPrefixAffinity(Shared(idle[i], prompt), AffinityBar(idle[i]))}
           More(k, i) == Shared(idle[k], prompt) > Shared(idle[i], prompt)
           Fewer(k, i) == ResidentCells(idle[k]) < ResidentCells(idle[i])
           Of(free) ==
             IF Same(free) # {}
             THEN CHOOSE i \in Same(free) :
                    \A k \in Same(free) : ~More(k, i) /\ (~More(i, k) => i <= k)
             ELSE CHOOSE i \in free : \A k \in free : ~Fewer(k, i) /\ (~Fewer(i, k) => i <= k)
           F(t) == {i \in DOMAIN idle : i \notin t}
<1>1. PickSlot(taken, prompt) = Of(F(taken))
  BY DEF PickSlot
<1>2. PickSlot(taken \cap DOMAIN idle, prompt) = Of(F(taken \cap DOMAIN idle))
  BY DEF PickSlot
<1>3. F(taken) = F(taken \cap DOMAIN idle)
  OBVIOUS
<1> HIDE DEF Of, F
<1> QED
  BY <1>1, <1>2, <1>3

\* Idle slots as the policy sees them, and prompts, of tokens of T; a
\* checkpoint is a part of the prefix.
JoinType(T) ==
  /\ Len(idle) \in Nat /\ DOMAIN idle = 1 .. Len(idle)
  /\ \A i \in DOMAIN idle : idle[i].prefix \in Seq(T) /\ idle[i].ckpt \in 0 .. Len(idle[i].prefix)
  /\ line \in Seq(Seq(T))

Joined == Min({Len(idle), Len(line)})

\* One request of the line after the other picks its slot.
JoinChain(c) ==
  /\ c[0] = <<>> /\ PrefixAwareJoin = c[Joined]
  /\ \A k \in 0 .. Joined : DOMAIN c[k] = 1 .. k
  /\ \A k \in 1 .. Joined :
       \A j \in 1 .. k : c[k][j] = IF j = k THEN PickSlot(ToSet(c[k - 1]), line[k]) ELSE c[k - 1][j]

\* The join is such a chain (prefix_aware_join).
LEMMA JoinIsChain ==
  ASSUME NEW T, JoinType(T)
  PROVE  /\ Joined \in Nat /\ Joined <= Len(line)
         /\ \E c : JoinChain(c)
<1> DEFINE n == Joined
           first == SubSeq(line, 1, n)
           D == DOMAIN first
           Row(k) == {PickSlot(t, line[k]) : t \in SUBSET DOMAIN idle}
           Y == UNION {Row(k) : k \in 1 .. n}
           X == Seq(Y)
           iter[s \in SUBSET D] ==
             IF s = {} THEN <<>>
             ELSE Append(iter[s \ {Max(s)}], PickSlot(ToSet(iter[s \ {Max(s)}]), first[Max(s)]))
           G == [k \in 1 .. n |-> [p \in X |-> Append(p, PickSlot(ToSet(p), line[k]))]]
           g == [s \in SUBSET (1 .. n) |-> IF s = {} THEN <<>> ELSE G[Max(s)][iter[s \ {Max(s)}]]]
           c == [k \in 0 .. n |-> iter[1 .. k]]
<1>1. n \in Nat /\ n <= Len(line) /\ Len(line) \in Nat
  <2> DEFINE S == {Len(idle), Len(line)}
  <2>1. S \in SUBSET Nat /\ S # {} /\ Len(line) \in S /\ Len(line) \in Nat
    BY LenProperties DEF JoinType
  <2>2. Min(S) \in S /\ \A x \in S : Min(S) <= x
    <3> HIDE DEF S
    <3> QED
      BY <2>1, MinPicks
  <2> QED
    BY <2>1, <2>2 DEF Joined
<1>2. PrefixAwareJoin = iter[D]
  BY DEF PrefixAwareJoin, FoldLeft, MapThenFoldSet, Joined
<1> HIDE DEF n
<1>3. D = 1 .. n /\ \A k \in 1 .. n : first[k] = line[k]
  <2>1. line \in Seq(Seq(T)) /\ n \in 0 .. Len(line)
    BY <1>1 DEF JoinType
  <2>2. first \in Seq(Seq(T)) /\ Len(first) = n /\ \A k \in 1 .. n : first[k] = line[k]
    <3>1. \A k \in 1 .. n : k \in 1 .. Len(line) /\ line[k] \in Seq(T)
      BY <1>1, <2>1, ElementOfSeq
    <3> QED
      BY <1>1, <2>1, <3>1, SubSeqProperties
  <2> HIDE DEF first
  <2> QED
    BY <2>2, LenProperties
<1> HIDE DEF first, D
<1>3a. ASSUME NEW t, NEW k \in 1 .. n PROVE PickSlot(t, line[k]) \in Y
  <2> DEFINE free == t \cap DOMAIN idle
  <2>1. PickSlot(t, line[k]) = PickSlot(free, line[k])
    BY PickFreeOnly
  <2>2. PickSlot(free, line[k]) \in Row(k)
    <3>1. free \in SUBSET DOMAIN idle
      OBVIOUS
    <3> HIDE DEF free
    <3> QED
      BY <3>1
  <2> HIDE DEF free, Row
  <2>3. PickSlot(t, line[k]) \in Row(k)
    BY <2>1, <2>2
  <2> QED
    BY <2>3
<1> HIDE DEF Row, Y
<1>4. ASSUME NEW p \in X, NEW k \in 1 .. n PROVE Append(p, PickSlot(ToSet(p), line[k])) \in X
  <2>1. PickSlot(ToSet(p), line[k]) \in Y
    BY <1>3a
  <2> QED
    BY <2>1, AppendProperties
<1>5. G \in [1 .. n -> [X -> X]]
  BY <1>4
<1>6. <<>> \in X
  BY EmptySeq
<1>7. PICK f \in [SUBSET (1 .. n) -> X] : IsFold(f, <<>>, n, G)
  <2> HIDE DEF G, X
  <2> QED
    BY <1>1, <1>5, <1>6, FoldExists
<1>8. \A s \in SUBSET (1 .. n) : s # {} =>
        Max(s) \in 1 .. n /\ s \ {Max(s)} \in SUBSET (1 .. n)
  BY <1>1, MaxUpTo
<1>9. f = [s \in SUBSET D |->
            IF s = {} THEN <<>>
            ELSE Append(f[s \ {Max(s)}], PickSlot(ToSet(f[s \ {Max(s)}]), first[Max(s)]))]
  <2> HIDE DEF X
  <2>1. ASSUME NEW s \in SUBSET (1 .. n), s # {}
        PROVE  f[s] = Append(f[s \ {Max(s)}], PickSlot(ToSet(f[s \ {Max(s)}]), first[Max(s)]))
    <3>1. Max(s) \in 1 .. n /\ f[s \ {Max(s)}] \in X /\ first[Max(s)] = line[Max(s)]
      BY <1>3, <1>8, <2>1
    <3>2. f[s] = G[Max(s)][f[s \ {Max(s)}]]
      <4> HIDE DEF G
      <4> QED
        BY <1>7, <2>1 DEF IsFold
    <3> QED
      BY <3>1, <3>2
  <2>2. f[{}] = <<>>
    BY <1>7 DEF IsFold
  <2> QED
    BY <1>3, <2>1, <2>2
<1>10. iter = [s \in SUBSET D |->
                IF s = {} THEN <<>>
                ELSE Append(iter[s \ {Max(s)}], PickSlot(ToSet(iter[s \ {Max(s)}]), first[Max(s)]))]
  <2>1. \E h : h = [s \in SUBSET D |->
                     IF s = {} THEN <<>>
                     ELSE Append(h[s \ {Max(s)}], PickSlot(ToSet(h[s \ {Max(s)}]), first[Max(s)]))]
    BY <1>9
  <2> QED
    BY <2>1 DEF iter
<1> HIDE DEF iter
<1>11. \A s \in SUBSET (1 .. n) : iter[s] \in X
  <2>1. iter[{}] \in X
    <3>1. iter[{}] = <<>>
      BY <1>10
    <3> QED
      BY <1>6, <3>1
  <2>2. \A s \in SUBSET (1 .. n) : s # {} /\ iter[s \ {Max(s)}] \in X => iter[s] \in X
    <3> TAKE s \in SUBSET (1 .. n)
    <3> HAVE s # {} /\ iter[s \ {Max(s)}] \in X
    <3>1. s \in SUBSET D /\ first[Max(s)] = line[Max(s)] /\ Max(s) \in 1 .. n
      BY <1>3, <1>8
    <3>2. iter[s] = Append(iter[s \ {Max(s)}], PickSlot(ToSet(iter[s \ {Max(s)}]), line[Max(s)]))
      BY <1>10, <3>1
    <3> HIDE DEF X
    <3> QED
      BY <1>4, <3>1, <3>2
  <2> HIDE DEF X
  <2> QED
    BY <1>1, <2>1, <2>2, FoldKeeps
<1>12. IsFold(iter, <<>>, n, G)
  <2> HIDE DEF X
  <2>1. iter[{}] = <<>>
    BY <1>10
  <2>2. ASSUME NEW s \in SUBSET (1 .. n), s # {}
        PROVE  iter[s] = G[Max(s)][iter[s \ {Max(s)}]]
    <3>1. s \in SUBSET D /\ first[Max(s)] = line[Max(s)] /\ Max(s) \in 1 .. n
          /\ iter[s \ {Max(s)}] \in X
      BY <1>3, <1>8, <1>11, <2>2
    <3>2. iter[s] = Append(iter[s \ {Max(s)}], PickSlot(ToSet(iter[s \ {Max(s)}]), line[Max(s)]))
      BY <1>10, <2>2, <3>1
    <3> QED
      BY <3>1, <3>2
  <2> HIDE DEF G
  <2> QED
    BY <2>1, <2>2 DEF IsFold
<1>13. /\ iter[1 .. 0] = <<>>
       /\ \A k \in 1 .. n : iter[1 .. k] = G[k][iter[1 .. k - 1]]
  <2> DEFINE b == <<>>
  <2>1. n \in Nat /\ IsFold(iter, b, n, G)
    BY <1>1, <1>12
  <2> HIDE DEF G, iter, c, g, X, b
  <2>2. iter[1 .. 0] = b
    <3>1. 1 .. 0 = {}
      OBVIOUS
    <3>2. iter[{}] = b
      BY <2>1 DEF IsFold
    <3> QED
      BY <3>1, <3>2
  <2>3. ASSUME NEW k \in 1 .. n PROVE iter[1 .. k] = G[k][iter[1 .. k - 1]]
    BY <2>1, FoldSteps
  <2> QED
    BY <2>2, <2>3 DEF b
<1>14. /\ c[0] = <<>>
       /\ \A k \in 0 .. n : c[k] \in X
       /\ \A k \in 1 .. n : c[k] = Append(c[k - 1], PickSlot(ToSet(c[k - 1]), line[k]))
  <2> HIDE DEF X
  <2>1. \A k \in 0 .. n : c[k] = iter[1 .. k] /\ c[k] \in X
    <3> TAKE k \in 0 .. n
    <3>1. 1 .. k \in SUBSET (1 .. n)
      BY <1>1
    <3> QED
      BY <1>11, <3>1
  <2>2. \A k \in 1 .. n : k \in 0 .. n /\ k - 1 \in 0 .. n
    BY <1>1
  <2>3. c[0] = <<>>
    BY <1>1, <1>13
  <2>4. ASSUME NEW k \in 1 .. n PROVE c[k] = Append(c[k - 1], PickSlot(ToSet(c[k - 1]), line[k]))
    <3>1. c[k] = iter[1 .. k] /\ c[k - 1] = iter[1 .. k - 1] /\ c[k - 1] \in X
      <4> HIDE DEF c
      <4> QED
        BY <2>1, <2>2
    <3>2. c[k] = G[k][c[k - 1]]
      <4> HIDE DEF c, G
      <4> QED
        BY <1>13, <3>1
    <3> HIDE DEF c
    <3> QED
      BY <3>1, <3>2
  <2> HIDE DEF c
  <2> QED
    BY <2>1, <2>3, <2>4
<1>15. PrefixAwareJoin = c[n]
  BY <1>1, <1>2, <1>3
<1> HIDE DEF c
<1>16. \A k \in 1 .. n : /\ Len(c[k]) = Len(c[k - 1]) + 1
                         /\ \A j \in 1 .. Len(c[k - 1]) : c[k][j] = c[k - 1][j]
                         /\ c[k][Len(c[k - 1]) + 1] = PickSlot(ToSet(c[k - 1]), line[k])
  <2> TAKE k \in 1 .. n
  <2> DEFINE a == c[k - 1]
             e == PickSlot(ToSet(c[k - 1]), line[k])
  <2>1. k - 1 \in 0 .. n
    BY <1>1
  <2>2. a \in Seq(Y) /\ c[k] = Append(a, e) /\ c[k] \in Seq(Y)
    BY <1>1, <1>14, <2>1
  <2>3. e \in Y
    BY <1>3a
  <2> HIDE DEF a, e
  <2>4. /\ Len(Append(a, e)) = Len(a) + 1
        /\ \A j \in 1 .. Len(a) : Append(a, e)[j] = a[j]
        /\ Append(a, e)[Len(a) + 1] = e
    BY <2>2, <2>3, AppendProperties
  <2> QED
    BY <2>2, <2>4 DEF a, e
<1>17. \A k \in 0 .. n : Len(c[k]) = k
  <2> DEFINE h == [k \in 0 .. n |-> Len(c[k]) - k]
  <2>1. Len(c[0]) = 0 /\ h[0] = 0
    <3>1. Len(c[0]) = 0
      BY <1>14
    <3> QED
      BY <1>1, <3>1
  <2>2. \A k \in 1 .. n : h[k - 1] \in {0} => h[k] \in {0}
    <3> TAKE k \in 1 .. n
    <3>1. k - 1 \in 0 .. n /\ k \in 0 .. n
      BY <1>1
    <3>2. h[k - 1] = Len(c[k - 1]) - (k - 1) /\ h[k] = Len(c[k]) - k
      BY <3>1
    <3>3. Len(c[k - 1]) \in Nat /\ Len(c[k]) = Len(c[k - 1]) + 1
      BY <1>14, <1>16, <3>1, LenProperties
    <3> HIDE DEF h
    <3> QED
      BY <3>1, <3>2, <3>3
  <2>3. \A k \in 0 .. n : h[k] \in {0}
    <3> DEFINE Z == {0}
    <3>1. h[0] \in Z /\ \A k \in 1 .. n : h[k - 1] \in Z => h[k] \in Z
      BY <2>1, <2>2
    <3> HIDE DEF h, Z
    <3>2. \A k \in 0 .. n : h[k] \in Z
      BY <1>1, <3>1, ChainKeeps
    <3> QED
      BY <3>2 DEF Z
  <2> TAKE k \in 0 .. n
  <2>4. h[k] = Len(c[k]) - k
    OBVIOUS
  <2>5. h[k] = 0
    BY <2>3
  <2>6. Len(c[k]) \in Nat /\ k \in Nat
    BY <1>14, LenProperties
  <2> HIDE DEF h
  <2> QED
    BY <2>4, <2>5, <2>6
<1>18. \A k \in 0 .. n : DOMAIN c[k] = 1 .. k
  <2> TAKE k \in 0 .. n
  <2>1. c[k] \in Seq(Y)
    BY <1>14
  <2> QED
    BY <1>17, <2>1, LenProperties
<1>19. ASSUME NEW k \in 1 .. n, NEW j \in 1 .. k
       PROVE  c[k][j] = IF j = k THEN PickSlot(ToSet(c[k - 1]), line[k]) ELSE c[k - 1][j]
  <2>1. k - 1 \in 0 .. n /\ k \in 0 .. n
    BY <1>1
  <2>2. Len(c[k - 1]) = k - 1
    BY <1>17, <2>1
  <2>3. CASE j = k
    <3>1. (k - 1) + 1 = k
      BY <1>1
    <3> QED
      BY <1>16, <2>2, <2>3, <3>1
  <2>4. CASE j # k
    <3>1. j \in 1 .. k - 1
      BY <1>1, <2>4
    <3> QED
      BY <1>16, <2>2, <2>4, <3>1
  <2> QED
    BY <2>3, <2>4
<1>20. JoinChain(c)
  BY <1>14, <1>15, <1>18, <1>19 DEF JoinChain, n
<1> QED
  BY <1>1, <1>20 DEF n

\* Each request of the line goes on in a slot of its own, and has nothing in
\* common with the others.
TakeTurns(own) ==
  /\ \A j \in 1 .. Joined : own[j] \in DOMAIN idle
  /\ \A j, k \in 1 .. Joined : own[j] = own[k] => j = k
  /\ \A j \in 1 .. Joined : Continues(line[j], idle[own[j]])
  /\ \A j \in 1 .. Joined : \A i \in DOMAIN idle : own[j] # i => Shared(idle[i], line[j]) = 0

\* The slot of a session passes the bar of its checkpoint (affinity_bar).
LEMMA OwnIsNear ==
  ASSUME NEW T, JoinType(T), Joined \in Nat, Joined <= Len(line),
         NEW own, TakeTurns(own), NEW k \in 1 .. Joined
  PROVE  /\ Shared(idle[own[k]], line[k]) \in Nat
         /\ IsPrefixAffinity(Shared(idle[own[k]], line[k]), AffinityBar(idle[own[k]]))
<1> DEFINE v == idle[own[k]]
           p == v.prefix
           m == v.ckpt - 1
           r == line[k]
<1>1. /\ own[k] \in DOMAIN idle
      /\ p \in Seq(T) /\ v.ckpt \in 0 .. Len(p)
      /\ Continues(r, v)
  BY DEF TakeTurns, JoinType
<1>2. r \in Seq(T)
  <2>1. Len(line) \in Nat /\ line \in Seq(Seq(T))
    BY LenProperties DEF JoinType
  <2>2. k \in 1 .. Len(line)
    BY <2>1
  <2> QED
    BY <2>1, <2>2, ElementOfSeq
<1>3. Len(p) \in Nat
  BY <1>1, LenProperties
<1>4. v.ckpt > 1 /\ IsPrefix(SubSeq(p, 1, m), r)
  BY <1>1 DEF Continues
<1>5. m \in 0 .. Len(p) /\ m \in Nat /\ m > 0 /\ v.ckpt \in Nat /\ m + 1 = v.ckpt
  BY <1>1, <1>3, <1>4
<1>6. Shared(v, r) = Len(LongestCommonPrefix({p, r}))
  BY DEF Shared
<1>7. Shared(v, r) \in Nat /\ m <= Shared(v, r)
  <2> HIDE DEF m, r, p, v
  <2> QED
    BY <1>1, <1>2, <1>4, <1>5, <1>6, SharedAtLeast
<1>8. AffinityBar(v) = v.ckpt
  BY <1>4, <1>5 DEF AffinityBar
<1>9. IsPrefixAffinity(Shared(v, r), AffinityBar(v))
  <2> HIDE DEF m, r, v
  <2> QED
    BY <1>5, <1>7, <1>8 DEF IsPrefixAffinity
<1> QED
  BY <1>7, <1>9

\* No other slot is of the session; those before it took theirs.
LEMMA OwnIsSame ==
  ASSUME NEW T, JoinType(T), Joined \in Nat, Joined <= Len(line),
         NEW own, TakeTurns(own), NEW k \in 1 .. Joined
  PROVE  SameSession({own[j] : j \in 1 .. k - 1}, line[k]) = {own[k]}
<1> DEFINE taken == {own[j] : j \in 1 .. k - 1}
           Near(i) == IsPrefixAffinity(Shared(idle[i], line[k]), AffinityBar(idle[i]))
<1>1. Near(own[k])
  BY OwnIsNear
<1>2. own[k] \in DOMAIN idle
  BY DEF TakeTurns
<1>3. own[k] \notin taken
  <2>1. SUFFICES ASSUME NEW j \in 1 .. k - 1, own[j] = own[k] PROVE FALSE
    OBVIOUS
  <2>2. j \in 1 .. Joined /\ j # k
    OBVIOUS
  <2> QED
    BY <2>1, <2>2 DEF TakeTurns
<1>4. \A i \in DOMAIN idle : i # own[k] => ~Near(i)
  <2> TAKE i \in DOMAIN idle
  <2> HAVE i # own[k]
  <2>1. Shared(idle[i], line[k]) = 0
    BY DEF TakeTurns
  <2> QED
    BY <2>1 DEF IsPrefixAffinity
<1>5. SameSession(taken, line[k]) = {i \in DOMAIN idle \ taken : Near(i)}
  BY DEF SameSession
<1> HIDE DEF taken, Near
<1>6. SameSession(taken, line[k]) = {own[k]}
  BY <1>1, <1>2, <1>3, <1>4, <1>5
<1> QED
  BY <1>6 DEF taken

\* One after the other gets its own (prefix_aware_join).
LEMMA OwnIsPicked ==
  ASSUME NEW T, JoinType(T), Joined \in Nat, Joined <= Len(line),
         NEW own, TakeTurns(own), NEW c, JoinChain(c)
  PROVE  \A j \in 1 .. Joined : PrefixAwareJoin[j] = own[j]
<1> DEFINE n == Joined
           P(k) == \A j \in 1 .. k : c[k][j] = own[j]
           h == [k \in 0 .. n |-> IF P(k) THEN 1 ELSE 0]
           One == {1}
<1>1. \A k \in 0 .. n : h[k] \in One <=> P(k)
  <2> TAKE k \in 0 .. n
  <2>1. h[k] = IF P(k) THEN 1 ELSE 0
    OBVIOUS
  <2> HIDE DEF P, h
  <2> QED
    BY <2>1
<1>2. P(0)
  OBVIOUS
<1>3. ASSUME NEW k \in 1 .. n, P(k - 1) PROVE P(k)
  <2> DEFINE past == c[k - 1]
             taken == {own[j] : j \in 1 .. k - 1}
  <2>1. k - 1 \in 0 .. n /\ k - 1 \in Nat
    OBVIOUS
  <2>2. DOMAIN past = 1 .. k - 1 /\ \A j \in 1 .. k - 1 : past[j] = own[j]
    BY <1>3, <2>1 DEF JoinChain
  <2> HIDE DEF past
  <2>3. ToSet(past) = taken
    BY <2>2 DEF ToSet
  <2> HIDE DEF taken
  <2>4. PickSlot(taken, line[k]) = own[k]
    <3>1. SameSession(taken, line[k]) = {own[k]}
      BY OwnIsSame DEF taken
    <3>2. Shared(idle[own[k]], line[k]) \in Nat
      BY OwnIsNear
    <3>3. own[k] \in Nat
      <4>1. own[k] \in DOMAIN idle /\ DOMAIN idle = 1 .. Len(idle) /\ Len(idle) \in Nat
        BY DEF TakeTurns, JoinType
      <4> QED
        BY <4>1
    <3> DEFINE o == own[k]
               r == line[k]
    <3> HIDE DEF o, r
    <3>4. SameSession(taken, r) = {o} /\ Shared(idle[o], r) \in Nat /\ o \in Nat
      BY <3>1, <3>2, <3>3 DEF o, r
    <3>5. PickSlot(taken, r) = o
      BY <3>4, PicksItsOwn
    <3> QED
      BY <3>5 DEF o, r
  <2>5. ASSUME NEW j \in 1 .. k PROVE c[k][j] = own[j]
    <3>1. c[k][j] = IF j = k THEN PickSlot(ToSet(past), line[k]) ELSE past[j]
      BY DEF JoinChain, past
    <3>2. j # k => j \in 1 .. k - 1
      OBVIOUS
    <3> QED
      BY <2>2, <2>3, <2>4, <3>1, <3>2
  <2> QED
    BY <2>5
<1>4. \A k \in 0 .. n : h[k] \in One
  <2>1. h[0] \in One
    <3>1. 0 \in 0 .. n
      OBVIOUS
    <3> HIDE DEF P, h, One
    <3> QED
      BY <1>1, <1>2, <3>1
  <2>2. \A k \in 1 .. n : h[k - 1] \in One => h[k] \in One
    <3> TAKE k \in 1 .. n
    <3> HAVE h[k - 1] \in One
    <3>1. k \in 0 .. n /\ k - 1 \in 0 .. n
      OBVIOUS
    <3> HIDE DEF P, h, One
    <3>2. P(k - 1)
      BY <1>1, <3>1
    <3>3. P(k)
      BY <1>3, <3>2
    <3> QED
      BY <1>1, <3>1, <3>3
  <2> HIDE DEF P, h, One
  <2> QED
    BY <2>1, <2>2, ChainKeeps
<1>5. P(n)
  <2>1. n \in 0 .. n
    OBVIOUS
  <2> HIDE DEF P, h, One
  <2> QED
    BY <1>1, <1>4, <2>1
<1>6. PrefixAwareJoin = c[n]
  BY DEF JoinChain
<1> QED
  BY <1>5, <1>6

JoinSpec == JoinInit /\ [][UNCHANGED joinVars]_joinVars

\* Whoever takes turns keeps the slot, for slots and prompts of these types.
LEMMA TurnsKeepSlots ==
  ASSUME NEW T
  PROVE  JoinType(T) => SessionsKeepTheirSlots
<1> SUFFICES ASSUME JoinType(T) PROVE SessionsKeepTheirSlots
  OBVIOUS
<1>1. Joined \in Nat /\ Joined <= Len(line)
  BY JoinIsChain
<1>2. PICK c : JoinChain(c)
  BY JoinIsChain
<1>3. DOMAIN PrefixAwareJoin = 1 .. Joined
  BY <1>1, <1>2 DEF JoinChain
<1> DEFINE Wanted(own) ==
             \A j \in DOMAIN PrefixAwareJoin : \A i \in DOMAIN idle :
               IF own[j] = i THEN Continues(line[j], idle[i])
               ELSE Shared(idle[i], line[j]) = 0
<1>4. ASSUME NEW own \in Injection(DOMAIN PrefixAwareJoin, DOMAIN idle), Wanted(own)
      PROVE  \A j \in DOMAIN PrefixAwareJoin : PrefixAwareJoin[j] = own[j]
  <2>1. /\ \A j \in 1 .. Joined : own[j] \in DOMAIN idle
        /\ \A j, k \in 1 .. Joined : own[j] = own[k] => j = k
    BY <1>3 DEF Injection, IsInjective
  <2>2. /\ \A j \in 1 .. Joined : Continues(line[j], idle[own[j]])
        /\ \A j \in 1 .. Joined : \A i \in DOMAIN idle : own[j] # i => Shared(idle[i], line[j]) = 0
    BY <1>3, <1>4, <2>1
  <2>3. TakeTurns(own)
    BY <2>1, <2>2 DEF TakeTurns
  <2> QED
    BY <1>1, <1>2, <1>3, <2>3, OwnIsPicked
<1> QED
  BY <1>4 DEF SessionsKeepTheirSlots

\* For any views of idle slots whose checkpoint is a part of what they hold,
\* and any prompts: sessions that take turns keep their slots.
THEOREM SessionsKeepTheirSlotsAlways ==
  ASSUME NEW T, SlotMost \in Nat, Lines \subseteq Seq(Seq(T)),
         \A v \in Views : v.prefix \in Seq(T) /\ v.ckpt \in 0 .. Len(v.prefix)
  PROVE  JoinSpec => []SessionsKeepTheirSlots
<1>1. JoinInit => JoinType(T)
  <2> SUFFICES ASSUME JoinInit PROVE JoinType(T)
    OBVIOUS
  <2>1. PICK m \in 1 .. SlotMost : idle \in [1 .. m -> Views]
    BY DEF JoinInit
  <2>2. m \in Nat
    OBVIOUS
  <2>3. Len(idle) = m
    BY <2>1, <2>2, FunctionIsSeq
  <2>4. DOMAIN idle = 1 .. m /\ \A i \in DOMAIN idle : idle[i] \in Views
    BY <2>1
  <2>5. line \in Seq(Seq(T))
    BY DEF JoinInit
  <2> QED
    BY <2>2, <2>3, <2>4, <2>5 DEF JoinType
<1>2. JoinType(T) /\ [UNCHANGED joinVars]_joinVars => JoinType(T)'
  BY DEF JoinType, joinVars
<1>3. JoinType(T) => SessionsKeepTheirSlots
  BY TurnsKeepSlots
<1> QED
  BY <1>1, <1>2, <1>3, PTL DEF JoinSpec

-----------------------------------------------------------------------------
(* The pool at start-up.                                                    *)

\* The greater and the lesser of two numbers.
LEMMA OfTwo ==
  ASSUME NEW a \in Nat, NEW b \in Nat
  PROVE  /\ Max({a, b}) = IF a >= b THEN a ELSE b
         /\ Min({a, b}) = IF a <= b THEN a ELSE b
<1> DEFINE S == {a, b}
           t == a + b
<1>1. S \in SUBSET Nat /\ S \in SUBSET Int /\ S # {} /\ t \in Int /\ \A x \in S : x <= t
  OBVIOUS
<1>2. Max(S) \in S /\ \A x \in S : x <= Max(S)
  <2> HIDE DEF S, t
  <2> QED
    BY <1>1, MaxPicks
<1>3. Min(S) \in S /\ \A x \in S : Min(S) <= x
  <2> HIDE DEF S, t
  <2> QED
    BY <1>1, MinPicks
<1> DEFINE hi == Max(S)
           lo == Min(S)
<1>4. hi \in {a, b} /\ a <= hi /\ b <= hi
  BY <1>2
<1>5. lo \in {a, b} /\ lo <= a /\ lo <= b
  BY <1>3
<1>6. Max({a, b}) = hi /\ Min({a, b}) = lo
  OBVIOUS
<1> HIDE DEF hi, lo, S, t
<1> QED
  BY <1>4, <1>5, <1>6

\* Half of a number, but no less than the floor (pool_fit_ladder).
LEMMA HalvedIs ==
  ASSUME NEW n \in Nat, NEW floor \in Nat \ {0}
  PROVE  /\ Halved(n, floor) \in Nat \ {0} /\ Halved(n, floor) >= floor
         /\ n > floor => Halved(n, floor) < n
         /\ Halved(n, floor) = floor \/ 2 * Halved(n, floor) <= n
         /\ \A u \in Nat : 2 * u <= n => u <= Halved(n, floor)
<1> DEFINE h == n \div 2
<1>1. h \in Nat /\ 2 * h <= n /\ n < 2 * h + 2
  OBVIOUS
<1> HIDE DEF h
<1>2. Halved(n, floor) = IF h >= floor THEN h ELSE floor
  BY <1>1, OfTwo DEF Halved, h
<1> QED
  BY <1>1, <1>2

PairType == [ctx : Nat \ {0}, ubatch : Nat \ {0}]

\* The micro-batch is at its floor or leaves room to halve the context.
Halfway(c) == c.ubatch <= MinUbatch \/ 2 * c.ubatch <= c.ctx

\* A candidate asks for less of something and for more of nothing.
Less(d, c) ==
  /\ d.ctx <= c.ctx /\ d.ubatch <= c.ubatch
  /\ d.ctx < c.ctx \/ d.ubatch < c.ubatch

\* A step of the ladder asks for less or stays; the micro-batch stays within
\* the context, as each is halved in turn.
LEMMA BelowIs ==
  ASSUME NEW c \in PairType, NEW step \in Nat
  PROVE  /\ Below(c, step) \in PairType
         /\ Below(c, step) = c \/ Less(Below(c, step), c)
         /\ c.ubatch <= c.ctx /\ (step % 2 = 1 \/ Halfway(c)) =>
              /\ Below(c, step).ubatch <= Below(c, step).ctx
              /\ step % 2 = 1 => Halfway(Below(c, step))
<1> DEFINE x == c.ctx
           u == c.ubatch
           d == Below(c, step)
           hx == Halved(x, MinCtx)
           hu == Halved(u, MinUbatch)
<1>1. /\ x \in Nat \ {0} /\ u \in Nat \ {0} /\ MinCtx \in Nat \ {0} /\ MinUbatch \in Nat \ {0}
      /\ MinUbatch <= MinCtx
      /\ c = [ctx |-> x, ubatch |-> u]
  BY FitAssumption DEF PairType
<1>2. /\ hx \in Nat \ {0} /\ hx >= MinCtx
      /\ x > MinCtx => hx < x
      /\ \A k \in Nat : 2 * k <= x => k <= hx
  <2> HIDE DEF x
  <2> QED
    BY <1>1, HalvedIs
<1>3. /\ hu \in Nat \ {0} /\ hu >= MinUbatch
      /\ u > MinUbatch => hu < u
      /\ hu = MinUbatch \/ 2 * hu <= u
  <2> HIDE DEF u
  <2> QED
    BY <1>1, HalvedIs
<1>4. \/ d = [ctx |-> x, ubatch |-> hu] /\ u > MinUbatch /\ (step % 2 = 1 \/ x <= MinCtx)
      \/ d = [ctx |-> hx, ubatch |-> u] /\ x > MinCtx /\ (u <= MinUbatch \/ step % 2 # 1)
      \/ d = c /\ x <= MinCtx /\ u <= MinUbatch
  <2>1. [c EXCEPT !.ubatch = hu] = [ctx |-> x, ubatch |-> hu]
    BY DEF PairType
  <2>2. [c EXCEPT !.ctx = hx] = [ctx |-> hx, ubatch |-> u]
    BY DEF PairType
  <2>3. d = IF u > MinUbatch /\ (step % 2 = 1 \/ x <= MinCtx)
            THEN [c EXCEPT !.ubatch = hu]
            ELSE IF x > MinCtx THEN [c EXCEPT !.ctx = hx] ELSE c
    BY DEF Below
  <2> HIDE DEF x, u, d, hx, hu
  <2> QED
    BY <1>1, <2>1, <2>2, <2>3
<1> HIDE DEF d, hx, hu
<1>5. CASE d = [ctx |-> x, ubatch |-> hu] /\ u > MinUbatch /\ (step % 2 = 1 \/ x <= MinCtx)
  <2>1. d \in PairType /\ d.ctx = x /\ d.ubatch = hu
    BY <1>1, <1>3, <1>5 DEF PairType
  <2>2. Less(d, c)
    BY <1>1, <1>3, <1>5, <2>1 DEF Less
  <2>3. u <= x => d.ubatch <= d.ctx /\ Halfway(d)
    BY <1>1, <1>3, <1>5, <2>1 DEF Halfway
  <2> QED
    BY <2>1, <2>2, <2>3 DEF d
<1>6. CASE d = [ctx |-> hx, ubatch |-> u] /\ x > MinCtx /\ (u <= MinUbatch \/ step % 2 # 1)
  <2>1. d \in PairType /\ d.ctx = hx /\ d.ubatch = u
    BY <1>1, <1>2, <1>6 DEF PairType
  <2>2. Less(d, c)
    BY <1>1, <1>2, <1>6, <2>1 DEF Less
  <2>3. u <= MinUbatch => d.ubatch <= d.ctx /\ Halfway(d)
    BY <1>1, <1>2, <2>1 DEF Halfway
  <2>4. Halfway(c) => d.ubatch <= d.ctx
    BY <1>1, <1>2, <2>1, <2>3 DEF Halfway
  <2> QED
    BY <1>6, <2>1, <2>2, <2>3, <2>4 DEF d
<1>7. CASE d = c /\ x <= MinCtx /\ u <= MinUbatch
  BY <1>1, <1>7 DEF d, Halfway
<1> QED
  BY <1>4, <1>5, <1>6, <1>7

\* Candidates that start with a and ask for less each time.
Walk(l, a) ==
  /\ l \in Seq(PairType) /\ Len(l) >= 1 /\ l[1] = a
  /\ \A i \in 1 .. Len(l) :
       l[i].ubatch <= l[i].ctx /\ l[i].ctx <= a.ctx /\ l[i].ubatch <= a.ubatch
  /\ \A i \in 2 .. Len(l) : Less(l[i], l[i - 1])

\* One more step of the ladder.
Down(l, step) ==
  IF Below(Last(l), step) = Last(l) THEN l ELSE Append(l, Below(Last(l), step))

\* A step keeps the ladder one that leads down.
LEMMA DownKeeps ==
  ASSUME NEW a \in PairType, NEW l, Walk(l, a), NEW step \in Nat,
         step % 2 = 1 \/ Halfway(Last(l))
  PROVE  /\ Walk(Down(l, step), a)
         /\ step % 2 = 1 => Halfway(Last(Down(l, step)))
<1> DEFINE n == Len(l)
           c == Last(l)
           d == Below(c, step)
           m == Down(l, step)
<1>1. l \in Seq(PairType) /\ n \in Nat /\ n >= 1 /\ DOMAIN l = 1 .. n
  BY LenProperties DEF Walk
<1>2. n \in 1 .. n /\ c = l[n] /\ c \in PairType
  BY <1>1, ElementOfSeq DEF Last
<1>3. c.ubatch <= c.ctx /\ c.ctx <= a.ctx /\ c.ubatch <= a.ubatch
  BY <1>2 DEF Walk
<1>4. /\ d \in PairType
      /\ d = c \/ Less(d, c)
      /\ d.ubatch <= d.ctx
      /\ step % 2 = 1 => Halfway(d)
  <2> HIDE DEF c
  <2> QED
    BY <1>2, <1>3, BelowIs DEF c
<1>5. m = IF d = c THEN l ELSE Append(l, d)
  BY DEF Down
<1> HIDE DEF d, m
<1>6. CASE d = c
  BY <1>4, <1>5, <1>6 DEF m
<1>7. CASE d # c
  <2>1. /\ m \in Seq(PairType) /\ Len(m) = n + 1
        /\ \A i \in 1 .. n : m[i] = l[i]
        /\ m[n + 1] = d
    <3>1. m = Append(l, d)
      BY <1>5, <1>7
    <3> HIDE DEF m, n
    <3>2. Append(l, d) \in Seq(PairType) /\ Len(Append(l, d)) = Len(l) + 1
          /\ (\A i \in 1 .. Len(l) : Append(l, d)[i] = l[i])
          /\ Append(l, d)[Len(l) + 1] = d
      BY <1>1, <1>4, AppendProperties
    <3> QED
      BY <3>1, <3>2 DEF n
  <2>2. Less(d, c)
    BY <1>4, <1>7
  <2>3. d.ctx \in Nat /\ d.ubatch \in Nat /\ c.ctx \in Nat /\ c.ubatch \in Nat
        /\ a.ctx \in Nat /\ a.ubatch \in Nat
    BY <1>2, <1>4 DEF PairType
  <2>4. d.ctx <= a.ctx /\ d.ubatch <= a.ubatch
    BY <1>3, <2>2, <2>3 DEF Less
  <2>5. ASSUME NEW i \in 1 .. n + 1
        PROVE  m[i].ubatch <= m[i].ctx /\ m[i].ctx <= a.ctx /\ m[i].ubatch <= a.ubatch
    <3>1. CASE i = n + 1
      BY <1>4, <2>1, <2>4, <3>1
    <3>2. CASE i # n + 1
      <4>1. i \in 1 .. n
        BY <1>1, <3>2
      <4> QED
        BY <2>1, <4>1 DEF Walk
    <3> QED
      BY <3>1, <3>2
  <2>6. ASSUME NEW i \in 2 .. n + 1 PROVE Less(m[i], m[i - 1])
    <3>1. CASE i = n + 1
      <4>1. i - 1 = n /\ n \in 1 .. n
        BY <1>1, <3>1
      <4>2. m[i] = d /\ m[i - 1] = c
        BY <1>2, <2>1, <3>1, <4>1
      <4> QED
        BY <2>2, <4>2
    <3>2. CASE i # n + 1
      <4>1. i \in 1 .. n /\ i - 1 \in 1 .. n /\ i \in 2 .. n
        BY <1>1, <3>2
      <4>2. m[i] = l[i] /\ m[i - 1] = l[i - 1]
        BY <2>1, <4>1
      <4> QED
        BY <4>1, <4>2 DEF Walk
    <3> QED
      BY <3>1, <3>2
  <2>7. m[1] = a
    <3>1. 1 \in 1 .. n
      BY <1>1
    <3> QED
      BY <2>1, <3>1 DEF Walk
  <2>8. Walk(m, a)
    <3>1. Len(m) >= 1
      BY <1>1, <2>1
    <3> QED
      BY <2>1, <2>5, <2>6, <2>7, <3>1 DEF Walk
  <2>9. Last(m) = d
    BY <2>1 DEF Last
  <2> QED
    BY <1>4, <2>8, <2>9 DEF m
<1> QED
  BY <1>6, <1>7

\* The ladder leads down from the pool asked for (pool_fit_ladder).
LEMMA LadderLeadsDown ==
  ASSUME NEW x \in Nat, NEW u \in Nat, NEW a \in PairType,
         a = [ctx |-> Max({x, 1}), ubatch |-> Max({u, 1})], a.ubatch <= a.ctx
  PROVE  Walk(Ladder(x, u), a)
<1> DEFINE n == MaxSteps - 1
           steps == [k \in 1 .. n |-> k]
           D == DOMAIN steps
           X == Seq(PairType)
           b == <<a>>
           iter[s \in SUBSET D] ==
             IF s = {} THEN b
             ELSE Down(iter[s \ {Max(s)}], steps[Max(s)])
           W == {l \in X : Len(l) >= 1}
           G == [k \in 1 .. n |-> [l \in W |-> Down(l, k)]]
           P(k) == /\ Walk(iter[1 .. k], a)
                   /\ k % 2 = 1 => Halfway(Last(iter[1 .. k]))
           h == [k \in 0 .. n |-> IF P(k) THEN 1 ELSE 0]
           One == {1}
<1>1. Ladder(x, u) = iter[D]
  BY DEF Ladder, FoldLeft, MapThenFoldSet, Down
<1>2. n \in Nat
  BY FitAssumption
<1> HIDE DEF n
<1>3. D = 1 .. n /\ \A k \in 1 .. n : steps[k] = k
  OBVIOUS
<1> HIDE DEF steps, D
<1>4. b \in W /\ Len(b) = 1 /\ b[1] = a
  OBVIOUS
<1>5. ASSUME NEW l \in W, NEW k \in 1 .. n PROVE Down(l, k) \in W
  <2>1. Last(l) \in PairType
    <3>1. l \in Seq(PairType) /\ Len(l) \in 1 .. Len(l)
      BY LenProperties
    <3> QED
      BY <3>1, ElementOfSeq DEF Last
  <2>2. Below(Last(l), k) \in PairType
    <3> DEFINE c == Last(l)
    <3> HIDE DEF c
    <3>1. c \in PairType /\ k \in Nat
      BY <1>2, <2>1 DEF c
    <3>2. Below(c, k) \in PairType
      BY <3>1, BelowIs
    <3> QED
      BY <3>2 DEF c
  <2> DEFINE d == Below(Last(l), k)
  <2> HIDE DEF d
  <2>3. d \in PairType
    BY <2>2 DEF d
  <2>4. Append(l, d) \in Seq(PairType) /\ Len(Append(l, d)) = Len(l) + 1 /\ Len(l) \in Nat
    BY <2>3, AppendProperties, LenProperties
  <2>5. Append(l, d) \in W
    BY <2>4
  <2>6. Down(l, k) = IF d = Last(l) THEN l ELSE Append(l, d)
    BY DEF Down, d
  <2> QED
    BY <2>5, <2>6
<1>6. G \in [1 .. n -> [W -> W]]
  BY <1>5
<1>7. PICK f \in [SUBSET (1 .. n) -> W] : IsFold(f, b, n, G)
  <2> HIDE DEF G, W, b
  <2> QED
    BY <1>2, <1>4, <1>6, FoldExists
<1>8. \A s \in SUBSET (1 .. n) : s # {} =>
        Max(s) \in 1 .. n /\ s \ {Max(s)} \in SUBSET (1 .. n)
  BY <1>2, MaxUpTo
<1> HIDE DEF W, b
<1>9. f = [s \in SUBSET D |-> IF s = {} THEN b ELSE Down(f[s \ {Max(s)}], steps[Max(s)])]
  <2>1. ASSUME NEW s \in SUBSET (1 .. n), s # {}
        PROVE  f[s] = Down(f[s \ {Max(s)}], steps[Max(s)])
    <3>1. Max(s) \in 1 .. n /\ f[s \ {Max(s)}] \in W /\ steps[Max(s)] = Max(s)
      BY <1>3, <1>7, <1>8, <2>1
    <3>2. f[s] = G[Max(s)][f[s \ {Max(s)}]]
      <4> HIDE DEF G
      <4> QED
        BY <1>7, <2>1 DEF IsFold
    <3> QED
      BY <3>1, <3>2
  <2>2. f[{}] = b
    BY <1>7 DEF IsFold
  <2> QED
    BY <1>3, <1>7, <2>1, <2>2
<1>10. iter = [s \in SUBSET D |-> IF s = {} THEN b ELSE Down(iter[s \ {Max(s)}], steps[Max(s)])]
  <2>1. \E g : g = [s \in SUBSET D |-> IF s = {} THEN b ELSE Down(g[s \ {Max(s)}], steps[Max(s)])]
    BY <1>9
  <2> QED
    BY <2>1 DEF iter
<1> HIDE DEF iter, G, P, h, One
<1>11. iter[1 .. 0] = b
  <2>1. 1 .. 0 = {}
    OBVIOUS
  <2> QED
    BY <1>10, <2>1
<1>12. ASSUME NEW k \in 1 .. n PROVE iter[1 .. k] = Down(iter[1 .. k - 1], k)
  <2> DEFINE s == 1 .. k
  <2>1. s \in SUBSET (1 .. n) /\ s # {} /\ k \in s /\ \A y \in s : y <= k
    BY <1>2
  <2>2. s \ {k} = 1 .. k - 1
    BY <1>2
  <2> HIDE DEF s
  <2>3. Max(s) \in s /\ Max(s) \in 1 .. n /\ k <= Max(s) /\ Max(s) <= k
    BY <1>2, <2>1, MaxUpTo
  <2>4. Max(s) = k
    BY <1>2, <2>3
  <2>5. iter[s] = Down(iter[s \ {Max(s)}], steps[Max(s)])
    BY <1>3, <1>10, <2>1
  <2> QED
    BY <1>3, <2>2, <2>4, <2>5 DEF s
<1>13. P(0)
  <2>1. Walk(b, a)
    <3>1. b \in Seq(PairType)
      BY <1>4 DEF W
    <3>2. \A i \in 1 .. 1 : i = 1
      OBVIOUS
    <3>3. a.ctx \in Nat /\ a.ubatch \in Nat
      BY DEF PairType
    <3>4. \A i \in 1 .. Len(b) :
            b[i].ubatch <= b[i].ctx /\ b[i].ctx <= a.ctx /\ b[i].ubatch <= a.ubatch
      BY <1>4, <3>2, <3>3
    <3>5. 2 .. Len(b) = {}
      BY <1>4
    <3> QED
      BY <1>4, <3>1, <3>4, <3>5 DEF Walk
  <2> QED
    BY <1>11, <2>1 DEF P
<1>14. ASSUME NEW k \in 1 .. n, P(k - 1) PROVE P(k)
  <2> DEFINE l == iter[1 .. k - 1]
  <2>1. k \in Nat /\ k - 1 \in Nat /\ (k % 2 = 1 \/ (k - 1) % 2 = 1)
    BY <1>2
  <2>2. Walk(l, a) /\ (k % 2 = 1 \/ Halfway(Last(l)))
    BY <1>14, <2>1 DEF P
  <2> HIDE DEF l
  <2>3. Walk(Down(l, k), a) /\ (k % 2 = 1 => Halfway(Last(Down(l, k))))
    BY <2>1, <2>2, DownKeeps
  <2>4. iter[1 .. k] = Down(l, k)
    BY <1>12 DEF l
  <2> QED
    BY <2>3, <2>4 DEF P
<1>15. \A k \in 0 .. n : h[k] \in One <=> P(k)
  BY DEF h, One
<1>16. \A k \in 0 .. n : h[k] \in One
  <2>1. h[0] \in One
    BY <1>2, <1>13, <1>15
  <2>2. \A k \in 1 .. n : h[k - 1] \in One => h[k] \in One
    <3> TAKE k \in 1 .. n
    <3> HAVE h[k - 1] \in One
    <3>1. k \in 0 .. n /\ k - 1 \in 0 .. n
      BY <1>2
    <3>2. P(k - 1)
      BY <1>15, <3>1
    <3>3. P(k)
      BY <1>14, <3>2
    <3> QED
      BY <1>15, <3>1, <3>3
  <2> QED
    BY <1>2, <2>1, <2>2, ChainKeeps
<1>17. P(n)
  BY <1>2, <1>15, <1>16
<1> QED
  BY <1>1, <1>3, <1>17 DEF P

FitSpec == FitInit /\ [][FitNext]_fitVars

\* A batch is no larger than the context and a micro-batch no larger than the
\* batch; and without --kv-pool-fit a context is given (one of 0 is loaded as 1
\* and reported as 0).
ModestLines ==
  \A c \in FitAsked : /\ c.batch <= c.ctx
                      /\ c.fit \/ c.ctx > 0
                      /\ c.ubatch <= IF c.batch = 0 THEN c.ctx ELSE c.batch

\* What attempt i asks of llama.cpp.
Loaded(i) ==
  [ctx |-> Candidates[i].ctx,
   batch |-> IF cli.batch = 0 THEN Candidates[i].ctx ELSE Min({cli.batch, Candidates[i].ctx}),
   ubatch |-> Candidates[i].ubatch]

Size == [ctx : Nat, batch : Nat, ubatch : Nat]

FitInv ==
  /\ cli \in FitAsked
  /\ tried \in Seq(Size) /\ Len(tried) <= Len(Candidates)
  /\ \A i \in 1 .. Len(tried) : tried[i] = Loaded(i)
  /\ pool # NoPool =>
       /\ Len(tried) >= 1
       /\ pool = [ctx |-> Candidates[Len(tried)].ctx, ubatch |-> Candidates[Len(tried)].ubatch,
                  downgrades |-> Len(tried) - 1]

\* The pool asked for, resolved for the report.
AskedPool == [ctx |-> Max({cli.ctx, 1}),
            ubatch |-> Max({EffectiveUbatch(cli.ctx, cli.batch, cli.ubatch), 1})]

\* Its micro-batch is no larger than its context, nor than a batch that is given.
LEMMA WantedIs ==
  ASSUME ModestLines, cli \in FitAsked
  PROVE  /\ AskedPool \in PairType /\ AskedPool.ubatch <= AskedPool.ctx
         /\ cli.ctx \in Nat /\ cli.batch \in Nat /\ cli.ubatch \in Nat
         /\ AskedPool.ctx = Max({cli.ctx, 1}) /\ cli.batch <= AskedPool.ctx
         /\ cli.batch > 0 => AskedPool.ubatch <= cli.batch
         /\ AskedPool.ubatch = IF cli.ubatch > 0 THEN cli.ubatch
                             ELSE IF cli.batch > 0 THEN cli.batch ELSE AskedPool.ctx
         /\ Walk(Candidates, AskedPool)
         /\ ~cli.fit => /\ cli.ctx = AskedPool.ctx
                        /\ EffectiveUbatch(cli.ctx, cli.batch, cli.ubatch) = AskedPool.ubatch
<1> DEFINE x == cli.ctx
           b == cli.batch
           u == cli.ubatch
           e == EffectiveUbatch(x, b, u)
           mx == Max({x, 1})
           mu == Max({e, 1})
<1>1. x \in Nat /\ b \in Nat /\ u \in Nat
  BY FitAssumption
<1>2. b <= x /\ (u <= IF b = 0 THEN x ELSE b) /\ (cli.fit \/ x > 0)
  BY DEF ModestLines
<1> HIDE DEF x, b, u
<1>3. mx = IF x >= 1 THEN x ELSE 1
  BY <1>1, OfTwo
<1> HIDE DEF mx
<1>4. e = IF u > 0 THEN u ELSE IF b > 0 THEN b ELSE mx
  BY DEF EffectiveUbatch, mx
<1> HIDE DEF e
<1>5. e \in Nat /\ e >= 1 /\ e <= mx /\ (b > 0 => e <= b) /\ mx \in Nat \ {0} /\ b <= mx
  BY <1>1, <1>2, <1>3, <1>4
<1>6. mu = e
  BY <1>5, OfTwo
<1> HIDE DEF mu
<1>7. AskedPool = [ctx |-> mx, ubatch |-> e]
  BY <1>6 DEF AskedPool, mx, mu, e, x, b, u
<1>8. AskedPool \in PairType /\ AskedPool.ubatch = e /\ AskedPool.ctx = mx
  BY <1>5, <1>7 DEF PairType
<1>9. Walk(Ladder(x, e), AskedPool)
  <2> DEFINE w == AskedPool
  <2>1. w \in PairType /\ w.ubatch <= w.ctx
    BY <1>5, <1>8
  <2>2. w = [ctx |-> Max({x, 1}), ubatch |-> Max({e, 1})]
    BY <1>6, <1>7 DEF mx, mu
  <2> HIDE DEF w
  <2>3. Walk(Ladder(x, e), w)
    BY <1>1, <1>5, <2>1, <2>2, LadderLeadsDown
  <2> QED
    BY <2>3 DEF w
<1>10. Candidates = Ladder(x, e)
  BY DEF Candidates, x, e, b, u
<1>11. ~cli.fit => x = mx
  BY <1>1, <1>2, <1>3
<1>12. e = EffectiveUbatch(cli.ctx, cli.batch, cli.ubatch)
  BY DEF e, x, b, u
<1> QED
  BY <1>1, <1>4, <1>5, <1>8, <1>9, <1>10, <1>11, <1>12 DEF x, b, u, mx

\* The defaults are resolved to the same numbers for the load (Model::load).
LEMMA LoadsWhatIsAsked ==
  ASSUME ModestLines, cli \in FitAsked, NEW i \in 1 .. Len(Candidates)
  PROVE  Physical(LoadParams(i)) = Loaded(i) /\ Loaded(i) \in Size
<1> DEFINE c == Candidates[i]
           x == c.ctx
           u == c.ubatch
           b == cli.batch
           w == AskedPool
           p == LoadParams(i)
<1>1. /\ w \in PairType /\ w.ubatch <= w.ctx
      /\ cli.ctx \in Nat /\ b \in Nat /\ cli.ubatch \in Nat
      /\ w.ctx = Max({cli.ctx, 1}) /\ b <= w.ctx
      /\ b > 0 => w.ubatch <= b
      /\ w.ubatch = IF cli.ubatch > 0 THEN cli.ubatch ELSE IF b > 0 THEN b ELSE w.ctx
      /\ Walk(Candidates, w)
  BY WantedIs
<1>2. c \in PairType /\ u <= x /\ x <= w.ctx /\ u <= w.ubatch
  <2>1. Candidates \in Seq(PairType)
    BY <1>1 DEF Walk
  <2>2. c \in PairType
    BY <2>1, ElementOfSeq
  <2> QED
    BY <1>1, <2>2 DEF Walk
<1>3. x \in Nat \ {0} /\ u \in Nat \ {0} /\ w.ubatch \in Nat \ {0} /\ w.ctx \in Nat \ {0}
  BY <1>1, <1>2 DEF PairType
<1>4. i = 1 => c = w
  BY <1>1 DEF Walk
<1> DEFINE px == Max({p.ctx, 1})
           pb == IF p.batch = 0 THEN px ELSE p.batch
           lb == IF b = 0 THEN x ELSE Min({b, x})
<1>5. Physical(p) = [ctx |-> px, batch |-> pb, ubatch |-> IF p.ubatch = 0 THEN pb ELSE Min({p.ubatch, pb})]
  BY DEF Physical
<1>6. Loaded(i) = [ctx |-> x, batch |-> lb, ubatch |-> u]
  BY DEF Loaded
<1>7. lb \in Nat \ {0} /\ u <= lb /\ (b > 0 => lb <= b) /\ (b > 0 /\ b <= x => lb = b)
  <2> HIDE DEF x, u, b, w
  <2>1. Min({b, x}) = IF b <= x THEN b ELSE x
    BY <1>1, <1>3, OfTwo
  <2>2. b > 0 => u <= b
    BY <1>1, <1>2, <1>3
  <2> QED
    BY <1>1, <1>2, <1>3, <2>1, <2>2
<1>8. CASE i = 1
  <2>1. p = cli
    BY <1>8 DEF LoadParams
  <2>2. px = x /\ x = w.ctx /\ u = w.ubatch
    BY <1>1, <1>4, <1>8, <2>1
  <2> HIDE DEF x, u, w
  <2>3. pb = lb
    BY <1>1, <1>7, <2>1, <2>2
  <2> HIDE DEF p, px, pb, lb, b
  <2>4. p.ubatch # 0 => Min({p.ubatch, pb}) = u
    <3>1. p.ubatch \in Nat /\ pb \in Nat
      BY <1>1, <1>7, <2>1, <2>3
    <3>2. p.ubatch # 0 => p.ubatch = u
      BY <1>1, <2>1, <2>2
    <3>3. Min({p.ubatch, pb}) = IF p.ubatch <= pb THEN p.ubatch ELSE pb
      BY <3>1, OfTwo
    <3> QED
      BY <1>3, <1>7, <2>3, <3>1, <3>2, <3>3
  <2>5. p.ubatch = 0 => pb = u
    <3>1. p.ubatch = 0 => u = IF b > 0 THEN b ELSE x
      BY <1>1, <2>1, <2>2
    <3>2. b > 0 => lb = b
      BY <1>1, <1>7, <2>2
    <3>3. b = 0 => lb = x
      BY DEF lb
    <3> QED
      BY <1>1, <2>3, <3>1, <3>2, <3>3
  <2>6. Physical(p) = Loaded(i)
    BY <1>5, <1>6, <2>2, <2>3, <2>4, <2>5
  <2>7. Loaded(i) \in Size
    BY <1>3, <1>6, <1>7 DEF Size
  <2> QED
    BY <2>6, <2>7 DEF p
<1>9. CASE i # 1
  <2>1. p = [ctx |-> x, ubatch |-> u, batch |-> Min({b, x})]
    BY <1>9 DEF LoadParams
  <2>2. p.ctx = x /\ p.ubatch = u /\ p.batch = Min({b, x})
    BY <2>1
  <2> HIDE DEF p, x, u, b, w
  <2>3. Min({b, x}) = IF b <= x THEN b ELSE x
    BY <1>1, <1>3, OfTwo
  <2>4. px = x
    BY <1>3, <2>2, OfTwo
  <2> HIDE DEF px
  <2>5. pb = lb
    BY <1>1, <1>3, <2>2, <2>3, <2>4
  <2> HIDE DEF pb, lb
  <2>6. Min({p.ubatch, pb}) = u
    <3>1. u \in Nat /\ pb \in Nat /\ u <= pb
      BY <1>3, <1>7, <2>5
    <3> QED
      BY <2>2, <3>1, OfTwo
  <2>7. Physical(p) = Loaded(i)
    BY <1>3, <1>5, <1>6, <2>2, <2>4, <2>5, <2>6
  <2>8. Loaded(i) \in Size
    BY <1>3, <1>6, <1>7 DEF Size
  <2> QED
    BY <2>7, <2>8 DEF p
<1> QED
  BY <1>8, <1>9

\* Nothing was tried yet.
LEMMA FitBegins == ModestLines /\ FitInit => FitInv
<1> SUFFICES ASSUME ModestLines, FitInit PROVE FitInv
  OBVIOUS
<1>1. cli \in FitAsked /\ tried = <<>> /\ pool = NoPool
  BY DEF FitInit
<1>2. tried \in Seq(Size) /\ Len(tried) = 0
  BY <1>1
<1>3. Len(Candidates) \in Nat
  <2>1. Candidates \in Seq(PairType)
    BY <1>1, WantedIs DEF Walk
  <2> QED
    BY <2>1, LenProperties
<1> QED
  BY <1>1, <1>2, <1>3 DEF FitInv

\* Each attempt is the next candidate (load_with_pool_fit).
LEMMA FitGoesOn == ModestLines /\ FitInv /\ [FitNext]_fitVars => FitInv'
<1> SUFFICES ASSUME ModestLines, FitInv, [FitNext]_fitVars PROVE FitInv'
  OBVIOUS
<1>1. cli' = cli
  BY DEF FitNext, TryLoad, fitVars
<1>2. Candidates' = Candidates
  BY <1>1 DEF Candidates
<1>3. \A i : Loaded(i)' = Loaded(i)
  BY <1>1, <1>2 DEF Loaded
<1>4. CASE UNCHANGED fitVars
  <2>1. tried' = tried /\ pool' = pool
    BY <1>4 DEF fitVars
  <2> QED
    BY <1>1, <1>2, <1>3, <2>1 DEF FitInv
<1>5. CASE TryLoad
  <2> DEFINE i == Len(tried) + 1
             t == Physical(LoadParams(i))
             C == Candidates
  <2>1. tried \in Seq(Size) /\ Len(tried) \in Nat /\ Len(tried) <= Len(C) /\ cli \in FitAsked
    BY LenProperties DEF FitInv
  <2>2. C \in Seq(PairType) /\ Len(C) \in Nat /\ Len(C) >= 1
    <3>1. C \in Seq(PairType) /\ Len(C) >= 1
      BY <2>1, WantedIs DEF Walk
    <3> HIDE DEF C
    <3> QED
      BY <3>1, LenProperties
  <2>3. /\ i <= IF cli.fit THEN Len(C) ELSE 1
        /\ tried' = Append(tried, t)
        /\ pool' \in {NoPool, Reported(i)}
    BY <1>5 DEF TryLoad
  <2>11. /\ Walk(C, AskedPool)
         /\ ~cli.fit => /\ cli.ctx = AskedPool.ctx
                        /\ EffectiveUbatch(cli.ctx, cli.batch, cli.ubatch) = AskedPool.ubatch
    BY <2>1, WantedIs
  <2>12. C[1] = AskedPool
    BY <2>11 DEF Walk
  <2>13. ~cli.fit => i = 1
    BY <2>1, <2>3
  <2>14. Reported(i) = [ctx |-> C[i].ctx, ubatch |-> C[i].ubatch, downgrades |-> i - 1]
    <3>1. CASE cli.fit
      BY <3>1 DEF Reported
    <3>2. CASE ~cli.fit
      <4>1. i = 1 /\ i - 1 = 0
        BY <2>13, <3>2
      <4> HIDE DEF i
      <4>2. Reported(i) = [ctx |-> AskedPool.ctx, ubatch |-> AskedPool.ubatch, downgrades |-> 0]
        BY <2>11, <3>2 DEF Reported
      <4> QED
        BY <2>12, <4>1, <4>2
    <3> QED
      BY <3>1, <3>2
  <2> HIDE DEF C
  <2>4. i \in 1 .. Len(C) /\ i \in Nat
    BY <2>1, <2>2, <2>3
  <2>5. t = Loaded(i) /\ t \in Size
    BY <2>1, <2>4, LoadsWhatIsAsked DEF C
  <2> HIDE DEF t
  <2>6. /\ tried' \in Seq(Size) /\ Len(tried') = i
        /\ \A k \in 1 .. Len(tried) : tried'[k] = tried[k]
        /\ tried'[i] = t
    BY <2>1, <2>3, <2>5, AppendProperties
  <2>7. ASSUME NEW k \in 1 .. Len(tried') PROVE tried'[k] = Loaded(k)
    <3>1. CASE k = i
      BY <2>5, <2>6, <3>1
    <3>2. CASE k # i
      <4>1. k \in 1 .. Len(tried)
        BY <2>1, <2>6, <3>2
      <4> QED
        BY <2>6, <4>1 DEF FitInv
    <3> QED
      BY <3>1, <3>2
  <2>8. pool' # NoPool =>
          /\ Len(tried') >= 1
          /\ pool' = [ctx |-> C[Len(tried')].ctx, ubatch |-> C[Len(tried')].ubatch,
                      downgrades |-> Len(tried') - 1]
    BY <2>3, <2>4, <2>6, <2>14
  <2> HIDE DEF i
  <2>9. \A k \in 1 .. Len(tried') : tried'[k] = Loaded(k)'
    BY <1>3, <2>7
  <2>10. Len(tried') <= Len(C)
    BY <2>4, <2>6
  <2> QED
    BY <1>1, <1>2, <2>1, <2>6, <2>8, <2>9, <2>10 DEF FitInv, C
<1> QED
  BY <1>4, <1>5 DEF FitNext

\* A ladder that leads down makes retries that shrink.
LEMMA FitKept == ModestLines /\ FitInv => FitSound
<1> SUFFICES ASSUME ModestLines, FitInv PROVE FitSound
  OBVIOUS
<1> DEFINE C == Candidates
<1>1. tried \in Seq(Size) /\ Len(tried) \in Nat /\ Len(tried) <= Len(C) /\ cli \in FitAsked
  BY LenProperties DEF FitInv
<1>2. Walk(C, AskedPool) /\ cli.batch \in Nat
  BY <1>1, WantedIs
<1>3. C \in Seq(PairType) /\ Len(C) \in Nat
  <2>1. C \in Seq(PairType)
    BY <1>2 DEF Walk
  <2> HIDE DEF C
  <2> QED
    BY <2>1, LenProperties
<1> HIDE DEF C
<1>4. ASSUME NEW i \in 2 .. Len(tried)
      PROVE  /\ tried[i].ctx <= tried[i - 1].ctx /\ tried[i].batch <= tried[i - 1].batch
             /\ tried[i].ubatch <= tried[i - 1].ubatch
             /\ tried[i].ctx < tried[i - 1].ctx \/ tried[i].ubatch < tried[i - 1].ubatch
  <2> DEFINE c == C[i]
             d == C[i - 1]
             b == cli.batch
             Batch(x) == IF b = 0 THEN x ELSE Min({b, x})
  <2>1. i \in 1 .. Len(tried) /\ i - 1 \in 1 .. Len(tried)
        /\ i \in 1 .. Len(C) /\ i - 1 \in 1 .. Len(C) /\ i \in 2 .. Len(C)
    BY <1>1, <1>3
  <2>2. tried[i] = Loaded(i) /\ tried[i - 1] = Loaded(i - 1)
    BY <2>1 DEF FitInv
  <2>3. /\ tried[i].ctx = c.ctx /\ tried[i].batch = Batch(c.ctx) /\ tried[i].ubatch = c.ubatch
        /\ tried[i - 1].ctx = d.ctx /\ tried[i - 1].batch = Batch(d.ctx)
        /\ tried[i - 1].ubatch = d.ubatch
    BY <2>2 DEF Loaded, C
  <2>4. c \in PairType /\ d \in PairType /\ Less(c, d)
    <3>1. c \in PairType /\ d \in PairType
      BY <1>3, <2>1, ElementOfSeq
    <3>2. Less(c, d)
      BY <1>2, <2>1 DEF Walk
    <3> QED
      BY <3>1, <3>2
  <2> HIDE DEF c, d
  <2>5. c.ctx \in Nat /\ d.ctx \in Nat /\ c.ctx <= d.ctx
    BY <2>4 DEF PairType, Less
  <2>6. Batch(c.ctx) <= Batch(d.ctx)
    <3> DEFINE x == c.ctx
               y == d.ctx
    <3> HIDE DEF x, y
    <3>1. x \in Nat /\ y \in Nat /\ b \in Nat /\ x <= y
      BY <1>2, <2>5 DEF x, y
    <3> HIDE DEF b
    <3>2. Min({b, x}) = (IF b <= x THEN b ELSE x) /\ Min({b, y}) = IF b <= y THEN b ELSE y
      BY <3>1, OfTwo
    <3>3. Batch(x) <= Batch(y)
      BY <3>1, <3>2
    <3> QED
      BY <3>3 DEF x, y
  <2> HIDE DEF Batch
  <2> QED
    BY <2>3, <2>4, <2>6 DEF Less
<1>5. RetriesShrink
  BY <1>4 DEF RetriesShrink
<1>6. ASSUME pool # NoPool
      PROVE  /\ pool.ctx = Last(tried).ctx /\ pool.ubatch = Last(tried).ubatch
             /\ pool.downgrades = Len(tried) - 1
  <2> DEFINE i == Len(tried)
  <2>1. i >= 1 /\ pool = [ctx |-> C[i].ctx, ubatch |-> C[i].ubatch, downgrades |-> i - 1]
    BY <1>6 DEF FitInv, C
  <2>2. Last(tried) = tried[i] /\ i \in 1 .. i
    BY <1>1, <2>1 DEF Last
  <2>3. tried[i] = Loaded(i)
    BY <2>2 DEF FitInv
  <2>4. tried[i].ctx = C[i].ctx /\ tried[i].ubatch = C[i].ubatch
    BY <2>3 DEF Loaded, C
  <2> QED
    BY <2>1, <2>2, <2>4
<1>7. GaugeIsTrue
  BY <1>6 DEF GaugeIsTrue
<1> QED
  BY <1>5, <1>7 DEF FitSound

\* For command lines whose micro-batch fits their batch, and that their
\* context: each retry asks for less, and what is reported is what was loaded.
THEOREM FitSoundAlways == ModestLines /\ FitSpec => []FitSound
<1>1. ModestLines /\ FitInit => FitInv
  BY FitBegins
<1>2. ModestLines /\ FitInv /\ [FitNext]_fitVars => FitInv'
  BY FitGoesOn
<1>3. ModestLines /\ FitInv => FitSound
  BY FitKept
<1>4. ModestLines => []ModestLines
  <2>1. ModestLines => ModestLines'
    BY DEF ModestLines
  <2> QED
    BY <2>1, PTL
<1> QED
  BY <1>1, <1>2, <1>3, <1>4, PTL DEF FitSpec
=============================================================================
