---------------------------- MODULE CtxCapProofs ----------------------------
(***************************************************************************)
(* What CtxCap's operators return and bound, for every pool, cap and u32   *)
(* width: a joiner leaves the others their cells, who defers is admitted   *)
(* alone, and two slots may both grow to their caps.                       *)
(***************************************************************************)
EXTENDS CtxCap, Integers, TLAPS

\* Saturating subtraction stays in the naturals and never exceeds its operand.
LEMMA SatSubBounds ==
  ASSUME NEW a \in Nat, NEW b \in Nat
  PROVE  /\ SatSub(a, b) \in Nat /\ SatSub(a, b) <= a
         /\ SatSub(a, b) > 0 => SatSub(a, b) = a - b
BY DEF SatSub

\* A division by a positive number: no remainder is gained.
LEMMA DivBounds ==
  ASSUME NEW a \in Nat, NEW n \in Nat \ {0}
  PROVE  a \div n \in Nat /\ n * (a \div n) <= a /\ a \div n <= a
OBVIOUS

\* The reserve is a number: the product saturates.
LEMMA SpecReserveBounds ==
  ASSUME NEW spec \in Nat, NEW n \in Nat
  PROVE  SpecReserve(spec, n) \in Nat
<1>1. SpecHeadroom(spec) \in Nat
  BY MaxU32Assumption DEF SpecHeadroom, SatAdd, Smaller
<1>2. Larger(n, 1) \in Nat
  BY DEF Larger
<1>3. SpecHeadroom(spec) * Larger(n, 1) \in Nat
  BY <1>1, <1>2
<1> QED
  BY <1>3, MaxU32Assumption DEF SpecReserve, SatMul, Smaller

\* The cap of a slot is a number between what it uses and its policy.
LEMMA EffectiveCapBounds ==
  ASSUME NEW cap \in Nat, NEW used \in Nat, NEW cells \in Nat,
         NEW others \in Nat, NEW spec \in Nat, NEW n \in Nat
  PROVE  LET eff  == EffectiveCap(cap, used, cells, others, spec, n)
             room == SatSub(SatSub(cells, others), SpecReserve(spec, n))
         IN  /\ eff \in Nat /\ room \in Nat
             /\ eff >= used
             /\ eff = used \/ (eff <= cap /\ eff <= room)
<1>1. SpecReserve(spec, n) \in Nat
  BY SpecReserveBounds
<1>2. SatSub(cells, others) \in Nat
  BY SatSubBounds
<1>3. SatSub(SatSub(cells, others), SpecReserve(spec, n)) \in Nat
  BY <1>1, <1>2, SatSubBounds
<1> QED
  BY <1>3 DEF EffectiveCap, Larger, Smaller

\* slot_cap: at most the solo limit, at least what is used within it.
LEMMA SlotCapBounds ==
  ASSUME NEW single \in Nat, NEW used \in Nat, NEW cells \in Nat,
         NEW n \in Nat, NEW spec \in Nat
  PROVE  /\ SlotCap(single, used, cells, n, spec) \in Nat
         /\ SlotCap(single, used, cells, n, spec) <= ResolveSingleMax(single, cells)
         /\ ResolveSingleMax(single, cells) \in Nat
         /\ ResolveSingleMax(single, cells) <= cells
         /\ FairShare(cells, n, spec) \in Nat
         /\ SlotCap(single, used, cells, n, spec) <= Larger(used, FairShare(cells, n, spec))
<1>1. SpecReserve(spec, n) \in Nat
  BY SpecReserveBounds
<1>2. Usable(cells, n, spec) \in Nat
  BY <1>1, SatSubBounds DEF Usable
<1>3. Larger(n, 1) \in Nat \ {0}
  BY DEF Larger
<1>4. FairShare(cells, n, spec) \in Nat
  BY <1>2, <1>3, DivBounds DEF FairShare
<1>5. /\ ResolveSingleMax(single, cells) \in Nat
      /\ ResolveSingleMax(single, cells) <= cells
  BY DEF ResolveSingleMax, Smaller
<1> QED
  BY <1>4, <1>5 DEF SlotCap, Smaller, Larger

\* A joiner's cap leaves the others and every verify step their cells.
THEOREM JoinRoomAlways ==
  ASSUME NEW others \in Nat, NEW n \in Nat, NEW cells \in Nat,
         NEW single \in Nat, NEW spec \in Nat,
         CapForJoin(others, n, cells, single, spec) > 0
  PROVE  CapForJoin(others, n, cells, single, spec) + others
           + SpecReserve(spec, n) <= cells
<1>1. SpecReserve(spec, n) \in Nat
  BY SpecReserveBounds
<1>2. SlotCap(single, 0, cells, n, spec) \in Nat
  BY SlotCapBounds
<1>3. /\ SatSub(cells, others) \in Nat
      /\ SatSub(cells, others) > 0 => SatSub(cells, others) = cells - others
  BY SatSubBounds
<1> DEFINE room == SatSub(SatSub(cells, others), SpecReserve(spec, n))
<1>4. /\ room \in Nat
      /\ room > 0 => room = SatSub(cells, others) - SpecReserve(spec, n)
  BY <1>1, <1>3, SatSubBounds
<1>5. CapForJoin(others, n, cells, single, spec) <= room
  BY <1>2, <1>4 DEF CapForJoin, EffectiveCap, Larger, Smaller
<1>6. CapForJoin(others, n, cells, single, spec) \in Nat
  BY <1>2, <1>4 DEF CapForJoin, EffectiveCap, Larger, Smaller
<1> HIDE DEF room
<1> QED
  BY <1>1, <1>3, <1>4, <1>5, <1>6

\* A joiner's cap is a number.
LEMMA CapForJoinType ==
  ASSUME NEW others \in Nat, NEW n \in Nat, NEW cells \in Nat,
         NEW single \in Nat, NEW spec \in Nat
  PROVE  CapForJoin(others, n, cells, single, spec) \in Nat
BY SlotCapBounds, EffectiveCapBounds DEF CapForJoin

\* A request told to wait would be admitted whole if it were alone, so its
\* wait can end: the neighbours it waits for do.
THEOREM DeferEnds ==
  ASSUME NEW cap \in Nat, NEW prompt \in Nat, NEW max \in Nat, NEW cells \in Nat,
         NEW single \in Nat, NEW spec \in Nat,
         AdmissionDecision(cap, prompt, max, cells, single, spec) = "Defer"
  PROVE  LET solo == CapForJoin(0, 1, cells, single, spec)
         IN  /\ NeededCells(prompt, max) <= solo
             /\ AdmissionDecision(solo, prompt, max, cells, single, spec) = "Admit"
<1>1. NeededCells(prompt, max) \in Nat
  BY MaxU32Assumption DEF NeededCells, SatAdd, Smaller, Larger
<1>2. CapForJoin(0, 1, cells, single, spec) \in Nat
  BY CapForJoinType
<1> QED
  BY <1>1, <1>2 DEF AdmissionDecision

\* Two slots that leave the reserve free may both grow to their caps.
THEOREM TwoSlotsAlwaysFit ==
  ASSUME NEW single \in Nat, NEW cells \in Nat, NEW spec \in Nat,
         NEW u \in Nat, NEW w \in Nat,
         u + w + SpecReserve(spec, 2) <= cells
  PROVE  EffectiveCap(SlotCap(single, u, cells, 2, spec), u, cells, w, spec, 2)
         + EffectiveCap(SlotCap(single, w, cells, 2, spec), w, cells, u, spec, 2)
         + SpecReserve(spec, 2) <= cells
<1> DEFINE res == SpecReserve(spec, 2)
           fair == FairShare(cells, 2, spec)
           cu == SlotCap(single, u, cells, 2, spec)
           cw == SlotCap(single, w, cells, 2, spec)
           eu == EffectiveCap(cu, u, cells, w, spec, 2)
           ew == EffectiveCap(cw, w, cells, u, spec, 2)
<1>1. res \in Nat
  BY SpecReserveBounds
<1>2. fair \in Nat /\ 2 * fair <= cells - res
  BY <1>1 DEF FairShare, Usable, SatSub, Larger
<1>3. cu \in Nat /\ cw \in Nat /\ cu <= Larger(u, fair) /\ cw <= Larger(w, fair)
  BY SlotCapBounds
<1>4. /\ SatSub(SatSub(cells, w), res) = cells - w - res
      /\ SatSub(SatSub(cells, u), res) = cells - u - res
  BY <1>1 DEF SatSub
<1>5. /\ eu \in Nat /\ (eu = u \/ (eu <= cu /\ eu <= cells - w - res))
      /\ ew \in Nat /\ (ew = w \/ (ew <= cw /\ ew <= cells - u - res))
  <2> HIDE DEF cu, cw
  <2>1. /\ eu \in Nat
        /\ eu = u \/ (eu <= cu /\ eu <= SatSub(SatSub(cells, w), res))
    BY <1>3, EffectiveCapBounds
  <2>2. /\ ew \in Nat
        /\ ew = w \/ (ew <= cw /\ ew <= SatSub(SatSub(cells, u), res))
    BY <1>3, EffectiveCapBounds
  <2> QED
    BY <2>1, <2>2, <1>4
<1> HIDE DEF res, fair, cu, cw, eu, ew
<1>6. u + w + res <= cells
  BY DEF res
<1>7. eu + ew + res <= cells
  BY <1>1, <1>2, <1>3, <1>5, <1>6 DEF Larger
<1> QED
  BY <1>7 DEF res, cu, cw, eu, ew

=============================================================================
