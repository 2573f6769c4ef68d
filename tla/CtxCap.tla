------------------------------- MODULE CtxCap -------------------------------
(***************************************************************************)
(* Per-slot context caps over one shared KV pool and the admission gate    *)
(* (golbang-core/src/ctx_cap.rs).  The code computes in u32 with           *)
(* saturating operations; MaxU32 is the width, scaled down for TLC, and    *)
(* doubles as the "no limit" marker a request carries for max_tokens.      *)
(***************************************************************************)
EXTENDS Naturals

CONSTANT MaxU32

ASSUME MaxU32Assumption == MaxU32 \in Nat \ {0}

U32 == 0 .. MaxU32

UNLIMITED_MAX_TOKENS == MaxU32

Larger(a, b)  == IF a >= b THEN a ELSE b
Smaller(a, b) == IF a <= b THEN a ELSE b

SatSub(a, b) == IF a >= b THEN a - b ELSE 0
SatAdd(a, b) == Smaller(a + b, MaxU32)
SatMulWrapping(a, b) == (a * b) % (MaxU32 + 1)

SatMul(a, b) == Smaller(a * b, MaxU32)

-----------------------------------------------------------------------------

\* --single-max-ctx: 0 asks for the whole pool.
ResolveSingleMax(singleMax, pool) ==
  IF singleMax = 0 THEN pool ELSE Smaller(singleMax, pool)

\* Cells one verify step may occupy beyond n_past; 0 turns speculation off.
SpecHeadroom(specNMax) == IF specNMax = 0 THEN 0 ELSE SatAdd(specNMax, 1)

SpecReserve(specNMax, nActive) ==
  SatMul(SpecHeadroom(specNMax), Larger(nActive, 1))

\* What is left of the pool once every active slot can verify its drafts.
Usable(pool, nActive, specNMax) == SatSub(pool, SpecReserve(specNMax, nActive))

FairShareRoundedUp(pool, nActive, specNMax) ==
  (Usable(pool, nActive, specNMax) + Larger(nActive, 1) - 1) \div Larger(nActive, 1)

FairShare(pool, nActive, specNMax) ==
  Usable(pool, nActive, specNMax) \div Larger(nActive, 1)

SlotCap(singleMax, used, pool, nActive, specNMax) ==
  Smaller(ResolveSingleMax(singleMax, pool),
          Larger(used, FairShare(pool, nActive, specNMax)))

\* Never below what is used, never past what the others leave.
EffectiveCap(cap, used, pool, othersUsed, specNMax, nActive) ==
  LET room == SatSub(SatSub(pool, othersUsed), SpecReserve(specNMax, nActive))
  IN  Larger(used, Smaller(cap, room))

CapForJoin(othersUsed, nActiveAfter, pool, singleMax, specNMax) ==
  EffectiveCap(SlotCap(singleMax, 0, pool, nActiveAfter, specNMax),
               0, pool, othersUsed, specNMax, nActiveAfter)

\* Cells a request asks to have set aside: its prompt and its whole budget.
NeededCells(promptLen, maxTokensReq) ==
  SatAdd(promptLen, Larger(maxTokensReq, 1))

AdmissionDecisionNoClamp(cap, promptLen, maxTokensReq, pool, singleMax, specNMax) ==
  IF maxTokensReq = UNLIMITED_MAX_TOKENS \/ cap >= NeededCells(promptLen, maxTokensReq)
  THEN "Admit" ELSE "Defer"

\* Admit what fits the cap; defer what would fit alone; clamp what never fits.
AdmissionDecision(cap, promptLen, maxTokensReq, pool, singleMax, specNMax) ==
  LET need == NeededCells(promptLen, maxTokensReq)
      solo == CapForJoin(0, 1, pool, singleMax, specNMax)
  IN  IF maxTokensReq = UNLIMITED_MAX_TOKENS \/ cap >= need THEN "Admit"
      ELSE IF need > solo THEN "Clamp"
      ELSE "Defer"
=============================================================================
