-------------------------- MODULE SchedulerProofs --------------------------
(***************************************************************************)
(* Theorems about Scheduler for every number of slots, requests, prompt    *)
(* lengths, budgets and pool size: types; no request is lost, duplicated   *)
(* or overtaken in the line; the scheduler implements RequestSpec.         *)
(***************************************************************************)
EXTENDS Scheduler, CtxCapProofs, FiniteSetTheorems, SequenceTheorems

-----------------------------------------------------------------------------
(* The slot operators return slots.                                         *)

\* The number of cells of finitely many slots.
LEMMA CellCountType ==
  ASSUME NEW f, \A s \in Slots : f[s] \in Int
  PROVE  CellCount(f) \in Nat
<1> DEFINE Cells == { {s} \X (1 .. f[s]) : s \in Slots }
<1>1. IsFiniteSet(Cells)
  <2> DEFINE OfSlot == [s \in Slots |-> {s} \X (1 .. f[s])]
  <2>1. Cells = { OfSlot[s] : s \in Slots }
    OBVIOUS
  <2>2. OfSlot \in Surjection(Slots, Cells)
    BY <2>1 DEF Surjection
  <2> QED
    BY <2>2, SlotsAssumption, FS_Surjection
<1>2. ASSUME NEW T \in Cells PROVE IsFiniteSet(T)
  <2>1. PICK s \in Slots : T = {s} \X (1 .. f[s])
    OBVIOUS
  <2>2. IsFiniteSet({s})
    BY FS_Singleton
  <2>3. IsFiniteSet(1 .. f[s])
    BY FS_Interval
  <2> QED
    BY <2>1, <2>2, <2>3, FS_Product
<1>3. IsFiniteSet(UNION Cells)
  BY <1>1, <1>2, FS_UNION
<1> QED
  BY <1>3, FS_CardinalityType DEF CellCount

\* The number of active slots is a number.
LEMMA ActiveCountType ==
  ASSUME NEW sts
  PROVE  Cardinality(ActiveSlots(sts)) \in Nat
<1>1. ActiveSlots(sts) \subseteq Slots
  BY DEF ActiveSlots
<1> QED
  BY <1>1, SlotsAssumption, FS_Subset, FS_CardinalityType

\* A slot that runs a request, as far as typing goes.
LEMMA UsedForCapType ==
  ASSUME NEW sl \in SlotRec
  PROVE  UsedForCap(sl) \in Nat
BY RequestAssumption, MaxU32Assumption
DEF SlotRec, UsedForCap, IsActive, Larger, U32

\* What the active slots use adds up to a number.
LEMMA TotalUsedType ==
  ASSUME NEW sts \in [Slots -> SlotRec]
  PROVE  Total(sts, UsedForCap) \in Nat
<1>1. \A s \in Slots : UsedForCap(sts[s]) \in Int
  BY UsedForCapType
<1> QED
  BY <1>1, CellCountType DEF Total

\* --single-max-ctx resolves to a number.
LEMMA SoloMaxType == SoloMax \in Nat
BY SizeAssumption, MaxU32Assumption DEF SoloMax, ResolveSingleMax, Smaller, U32

\* A slot given a cap is a slot.
LEMMA WithCapType ==
  ASSUME NEW sl \in SlotRec, sl.req \in Reqs, NEW cap \in Nat
  PROVE  WithCap(sl, cap) \in SlotRec
<1>1. MaxTokensReq(sl.req) \in Nat
  BY RequestAssumption, MaxU32Assumption DEF MaxTokensReq, Larger, U32
<1>2. Larger(SatSub(cap, PromptLen[sl.req]), 1) \in Nat
  BY RequestAssumption, MaxU32Assumption DEF Larger, SatSub, U32
<1>3. Smaller(MaxTokensReq(sl.req), Larger(SatSub(cap, PromptLen[sl.req]), 1)) \in Nat
  BY <1>1, <1>2 DEF Smaller
<1> QED
  BY <1>3 DEF WithCap, SlotRec

\* recompute_slot_caps yields slots.
LEMMA RecomputeType ==
  ASSUME NEW sts \in [Slots -> SlotRec]
  PROVE  /\ RecomputeSlotCaps(sts) \in [Slots -> SlotRec]
         /\ \A s \in Slots : RecomputeSlotCaps(sts)[s] =
              IF IsActive(sts[s]) THEN WithCap(sts[s], RecomputeSlotCaps(sts)[s].ctxCap)
                                  ELSE sts[s]
<1> DEFINE n == Cardinality(ActiveSlots(sts))
           total == Total(sts, UsedForCap)
           Cap(sl) == EffectiveCap(SlotCap(SoloMax, UsedForCap(sl), Pool, n, SpecNMax),
                              UsedForCap(sl), Pool,
                              SatSub(total, UsedForCap(sl)), SpecNMax, n)
<1>1. RecomputeSlotCaps(sts) =
        [s \in Slots |-> IF IsActive(sts[s]) THEN WithCap(sts[s], Cap(sts[s]))
                                             ELSE sts[s]]
  BY DEF RecomputeSlotCaps
<1>2. n \in Nat /\ total \in Nat
  BY ActiveCountType, TotalUsedType
<1>3. Pool \in Nat /\ SpecNMax \in Nat
  BY SizeAssumption, MaxU32Assumption DEF U32
<1> HIDE DEF n, total
<1>4. ASSUME NEW s \in Slots PROVE Cap(sts[s]) \in Nat
  <2>1. UsedForCap(sts[s]) \in Nat
    BY UsedForCapType
  <2>2. SlotCap(SoloMax, UsedForCap(sts[s]), Pool, n, SpecNMax) \in Nat
    BY <1>2, <1>3, <2>1, SoloMaxType, SlotCapBounds
  <2>3. SatSub(total, UsedForCap(sts[s])) \in Nat
    BY <1>2, <2>1, SatSubBounds
  <2> QED
    BY <1>2, <1>3, <2>1, <2>2, <2>3, EffectiveCapBounds
<1> HIDE DEF Cap
<1>5. ASSUME NEW s \in Slots, IsActive(sts[s])
      PROVE  /\ WithCap(sts[s], Cap(sts[s])) \in SlotRec
             /\ WithCap(sts[s], Cap(sts[s])).ctxCap = Cap(sts[s])
  <2>1. sts[s].req \in Reqs
    BY <1>5 DEF IsActive, SlotRec
  <2>2. WithCap(sts[s], Cap(sts[s])) \in SlotRec
    BY <1>4, <2>1, WithCapType
  <2> QED
    BY <2>2 DEF WithCap, SlotRec
<1> QED
  BY <1>1, <1>5

\* A fresh slot is a slot.
LEMMA VacantType == Vacant \in SlotRec
BY SizeAssumption, MaxU32Assumption DEF Vacant, SlotRec, U32

\* finish_slot yields a slot.
LEMMA FinishSlotType ==
  ASSUME NEW sl \in SlotRec, sl.req \in Reqs
  PROVE  /\ FinishSlot(sl) \in SlotRec
         /\ FinishSlot(sl).req = NoReq
<1> DEFINE kept == Smaller(sl.nPast, PromptLen[sl.req] + sl.nGen)
<1>1. kept \in Nat
  BY RequestAssumption, MaxU32Assumption DEF Smaller, SlotRec, U32
<1>2. sl.kv \in Nat
  BY DEF SlotRec
<1>3. FinishSlot(sl) = [Vacant EXCEPT !.kv = sl.kv, !.retained = TRUE, !.prefixLen = kept]
  BY DEF FinishSlot
<1> HIDE DEF kept
<1>4. [Vacant EXCEPT !.kv = sl.kv, !.retained = TRUE, !.prefixLen = kept] \in SlotRec
  BY <1>1, <1>2, VacantType DEF SlotRec
<1>5. [Vacant EXCEPT !.kv = sl.kv, !.retained = TRUE, !.prefixLen = kept].req = NoReq
  BY DEF Vacant
<1> QED
  BY <1>3, <1>4, <1>5

\* release_retained_under_pressure yields slots.
LEMMA ReleaseRetainedType ==
  ASSUME NEW sts \in [Slots -> SlotRec]
  PROVE  /\ ReleaseRetained(sts) \in [Slots -> SlotRec]
         /\ \A s \in Slots : ReleaseRetained(sts)[s].req = sts[s].req
<1>1. ASSUME NEW s \in Slots
      PROVE  LET f == [sts[s] EXCEPT !.kv = 0, !.prefixLen = 0, !.retained = FALSE]
             IN  f \in SlotRec /\ f.req = sts[s].req
  BY ZenonT(40) DEF SlotRec
<1> QED
  BY <1>1 DEF ReleaseRetained

-----------------------------------------------------------------------------
(* The GPU step changes no slot's request.                                  *)

SameRequest(sl, S) == \A x \in S : x \in SlotRec /\ x.req = sl.req

\* At least one and at most the accepted tokens are pushed.
LEMMA PushLimitType ==
  ASSUME NEW sl \in SlotRec, NEW accepted \in Nat \ {0}
  PROVE  PushLimit(sl, accepted) \in Nat \ {0}
BY DEF PushLimit, SlotRec, Smaller, Larger, SatSub

\* push_token yields slots.
LEMMA EmittedType ==
  ASSUME NEW sl \in SlotRec, NEW accepted \in Nat \ {0}
  PROVE  SameRequest(sl, Emitted(sl, accepted))
<1> DEFINE lim == PushLimit(sl, accepted)
           ByLength(k) == sl.nGen + k >= sl.maxTok
           Pushed(k, fin, pend) ==
             [sl EXCEPT !.phase = "Decoding", !.nGen = @ + k, !.pending = pend,
                        !.finish = fin]
<1>1. lim \in Nat \ {0}
  BY PushLimitType
<1>2. ASSUME NEW k \in Nat, NEW fin \in {"none", "Stop", "Length", "Failed"}, NEW pend \in BOOLEAN
      PROVE  Pushed(k, fin, pend) \in SlotRec /\ Pushed(k, fin, pend).req = sl.req
  <2> DEFINE g == sl.nGen + k
  <2>1. g \in Nat
    BY DEF SlotRec
  <2>2. Pushed(k, fin, pend) = [sl EXCEPT !.phase = "Decoding", !.nGen = g,
                                          !.pending = pend, !.finish = fin]
    BY DEF SlotRec
  <2> HIDE DEF g
  <2> QED
    BY <2>1, <2>2 DEF SlotRec
<1>3. SUFFICES ASSUME NEW x \in Emitted(sl, accepted)
               PROVE  x \in SlotRec /\ x.req = sl.req
  BY DEF SameRequest
<1>4. \/ x = Pushed(lim, IF ByLength(lim) \/ sl.nPast + 1 > sl.ctxCap THEN "Length" ELSE "none", TRUE)
      \/ \E k \in 0 .. (lim - 1) : x = Pushed(k, "Stop", FALSE)
      \/ \E k \in {i \in 1 .. lim : ~ByLength(i)} : x = Pushed(k, "Stop", TRUE)
      \/ \E k \in 0 .. (lim - 1) : x = Pushed(k, "Failed", sl.pending \/ k > 0)
  BY <1>3 DEF Emitted
<1> HIDE DEF lim, Pushed, ByLength
<1>5. ASSUME NEW k \in {i \in 1 .. lim : ~ByLength(i)} PROVE k \in Nat
  BY <1>1
<1>6. \E k \in Nat, fin \in {"none", "Stop", "Length", "Failed"}, pend \in BOOLEAN :
        x = Pushed(k, fin, pend)
  <2> DEFINE cut == IF ByLength(lim) \/ sl.nPast + 1 > sl.ctxCap THEN "Length" ELSE "none"
  <2>1. cut \in {"none", "Stop", "Length", "Failed"}
    OBVIOUS
  <2>2. CASE x = Pushed(lim, cut, TRUE)
    <3> HIDE DEF cut
    <3> QED
      BY <1>1, <2>1, <2>2
  <2>3. CASE \E k \in 0 .. (lim - 1) : x = Pushed(k, "Stop", FALSE)
    <3>1. PICK k \in 0 .. (lim - 1) : x = Pushed(k, "Stop", FALSE)
      BY <2>3
    <3>2. k \in Nat
      BY <1>1, <3>1
    <3> QED
      BY <3>1, <3>2
  <2>4. CASE \E k \in {i \in 1 .. lim : ~ByLength(i)} : x = Pushed(k, "Stop", TRUE)
    BY <1>5, <2>4
  <2>5. CASE \E k \in 0 .. (lim - 1) : x = Pushed(k, "Failed", sl.pending \/ k > 0)
    <3>1. PICK k \in 0 .. (lim - 1) : x = Pushed(k, "Failed", sl.pending \/ k > 0)
      BY <2>5
    <3>2. k \in Nat /\ (sl.pending \/ k > 0) \in BOOLEAN
      BY <1>1, <3>1 DEF SlotRec
    <3> QED
      BY <3>1, <3>2
  <2> QED
    BY <1>4, <2>2, <2>3, <2>4, <2>5
<1> QED
  BY <1>2, <1>6

\* Drafting yields slots with at most SpecNMax drafts.
LEMMA WithDraftsType ==
  ASSUME NEW sl \in SlotRec
  PROVE  SameRequest(sl, WithDrafts(sl))
<1>1. DraftMax(sl) \in 0 .. SpecNMax
  BY SizeAssumption, MaxU32Assumption DEF DraftMax, Smaller, SatSub, SlotRec, U32
<1>2. SpecNMax \in Nat
  BY SizeAssumption, MaxU32Assumption DEF U32
<1> DEFINE Drafting(d) == [sl EXCEPT !.drafts = d]
<1>3. ASSUME NEW d \in 0 .. SpecNMax
      PROVE  Drafting(d) \in SlotRec /\ Drafting(d).req = sl.req
  BY DEF SlotRec
<1>4. WithDrafts(sl) \subseteq {sl} \cup { Drafting(d) : d \in 0 .. SpecNMax }
  BY <1>1, <1>2 DEF WithDrafts
<1> HIDE DEF Drafting
<1> QED
  BY <1>3, <1>4 DEF SameRequest

\* Verification yields slots: a replayed prefix is no longer than the draft.
LEMMA VerifiedType ==
  ASSUME NEW sl \in SlotRec, NEW m \in 0 .. sl.drafts
  PROVE  SameRequest(sl, Verified(sl, m))
<1> DEFINE keep == [sl EXCEPT !.nPast = @ + 1 + m, !.kv = @ + 1 + m,
                              !.drafts = 0, !.replay = FALSE]
<1>1. SpecNMax \in Nat /\ sl.drafts \in 0 .. SpecNMax /\ m \in Nat
  BY SizeAssumption, MaxU32Assumption DEF U32, SlotRec
<1>2. keep \in SlotRec /\ keep.req = sl.req
  <2> DEFINE p == sl.nPast + 1 + m
             c == sl.kv + 1 + m
  <2>1. p \in Nat /\ c \in Nat /\ 0 \in 0 .. SpecNMax
    BY <1>1 DEF SlotRec
  <2>2. keep = [sl EXCEPT !.nPast = p, !.kv = c, !.drafts = 0, !.replay = FALSE]
    BY DEF SlotRec
  <2> HIDE DEF p, c, keep
  <2> QED
    BY <2>1, <2>2 DEF SlotRec
<1>3. SameRequest(sl, Emitted(keep, m + 1))
  <2>1. m + 1 \in Nat \ {0}
    BY <1>1
  <2> HIDE DEF keep
  <2>2. SameRequest(keep, Emitted(keep, m + 1))
    BY <1>2, <2>1, EmittedType
  <2> QED
    BY <1>2, <2>2 DEF SameRequest
<1>4. ASSUME m < sl.drafts
      PROVE  LET again == [sl EXCEPT !.drafts = m + 1, !.replay = TRUE]
             IN  again \in SlotRec /\ again.req = sl.req
  <2> DEFINE d == m + 1
  <2>1. d \in 0 .. SpecNMax
    BY <1>1, <1>4
  <2> HIDE DEF d
  <2>2. [sl EXCEPT !.drafts = d, !.replay = TRUE] \in SlotRec
    BY <2>1 DEF SlotRec
  <2>3. [sl EXCEPT !.drafts = d, !.replay = TRUE].req = sl.req
    BY DEF SlotRec
  <2> QED
    BY <2>2, <2>3 DEF d
<1> QED
  BY <1>2, <1>3, <1>4 DEF Verified, SameRequest

\* Prefilling within the prompt yields slots.
LEMMA PrefilledType ==
  ASSUME NEW sl \in SlotRec, NEW take \in Nat
  PROVE  SameRequest(sl, Prefilled(sl, take))
<1> DEFINE sl1 == [sl EXCEPT !.nPast = @ + take, !.kv = @ + take]
<1>1. sl1 \in SlotRec /\ sl1.req = sl.req
  <2> DEFINE p == sl.nPast + take
             c == sl.kv + take
  <2>1. p \in Nat /\ c \in Nat
    BY DEF SlotRec
  <2>2. sl1 = [sl EXCEPT !.nPast = p, !.kv = c]
    BY DEF SlotRec
  <2> HIDE DEF p, c, sl1
  <2> QED
    BY <2>1, <2>2 DEF SlotRec
<1>2. SameRequest(sl, Emitted(sl1, 1))
  <2> HIDE DEF sl1
  <2>1. SameRequest(sl1, Emitted(sl1, 1))
    BY <1>1, EmittedType
  <2> QED
    BY <1>1, <2>1 DEF SameRequest
<1> QED
  BY <1>1, <1>2 DEF Prefilled, SameRequest

\* Whatever the GPU step makes of a slot is a slot.
LEMMA AfterGpuType ==
  ASSUME NEW sl \in SlotRec, NEW take \in Nat
  PROVE  SameRequest(sl, AfterGpu(sl, take))
<1> DEFINE Stepped == IF take = 0 THEN {sl}
                      ELSE IF sl.phase = "Prefilling" THEN Prefilled(sl, take)
                      ELSE UNION { Verified(sl, m) : m \in 0 .. sl.drafts }
<1>1. SameRequest(sl, Stepped)
  BY PrefilledType, VerifiedType DEF SameRequest
<1>2. AfterGpu(sl, take) = UNION { WithDrafts(x) : x \in Stepped }
  BY DEF AfterGpu
<1> HIDE DEF Stepped
<1> QED
  BY <1>1, <1>2, WithDraftsType DEF SameRequest

-----------------------------------------------------------------------------
(* Type correctness.                                                        *)

\* Requests told Failed are requests.
LEMMA FailedInType ==
  ASSUME NEW sts \in [Slots -> SlotRec]
  PROVE  FailedIn(sts) \subseteq Reqs
BY DEF FailedIn, ActiveSlots, IsActive, SlotRec

\* The cap of the request at the head of the pass is a number.
LEMMA HeadCapType ==
  ASSUME TypeOK
  PROVE  HeadCap \in Nat
<1>1. Total(slot, UsedForCap) \in Nat
  BY TotalUsedType DEF TypeOK
<1>2. Cardinality(ActiveSlots(slot)) + 1 \in Nat
  BY ActiveCountType
<1>3. Pool \in Nat /\ SpecNMax \in Nat
  BY SizeAssumption, MaxU32Assumption DEF U32
<1> QED
  BY <1>1, <1>2, <1>3, SoloMaxType, CapForJoinType DEF HeadCap

\* A slot a job was put in is a slot.
LEMMA OccupiedType ==
  ASSUME TypeOK, NEW r \in Reqs, NEW past \in Nat,
         NEW phase \in {"Prefilling", "Decoding"}
  PROVE  Occupied(r, phase, past) \in SlotRec /\ Occupied(r, phase, past).req = r
<1> DEFINE fresh == [Vacant EXCEPT !.req = r, !.phase = phase, !.nPast = past, !.kv = past]
<1>1. fresh \in SlotRec
  BY VacantType DEF SlotRec
<1>2. fresh.req = r
  BY DEF Vacant
<1> HIDE DEF fresh
<1>3. WithCap(fresh, HeadCap) \in SlotRec /\ WithCap(fresh, HeadCap).req = r
  <2>1. WithCap(fresh, HeadCap) \in SlotRec
    BY <1>1, <1>2, HeadCapType, WithCapType
  <2>2. WithCap(fresh, HeadCap).req = fresh.req
    BY <1>1 DEF WithCap, SlotRec
  <2> QED
    BY <1>2, <2>1, <2>2
<1> QED
  BY <1>3 DEF Occupied, fresh

\* Whatever a bind makes of a slot is a slot.
LEMMA BoundSlotsType ==
  ASSUME TypeOK, NEW r \in Reqs, NEW sl \in BoundSlots(r)
  PROVE  sl \in SlotRec /\ sl.req = r
<1>1. PromptLen[r] \in Nat
  BY RequestAssumption, MaxU32Assumption DEF U32
<1>2. CASE r \in Vision
  <2> DEFINE occ == Occupied(r, "Decoding", PromptLen[r])
  <2>1. occ \in SlotRec /\ occ.req = r
    BY <1>1, OccupiedType
  <2>2. PICK x \in Emitted(occ, 1) : sl \in WithDrafts(x)
    BY <1>2 DEF BoundSlots
  <2> HIDE DEF occ
  <2>3. x \in SlotRec /\ x.req = r
    BY <2>1, <2>2, EmittedType DEF SameRequest
  <2> QED
    BY <2>2, <2>3, WithDraftsType DEF SameRequest
<1>3. CASE r \notin Vision
  <2>1. PICK n \in 0 .. (PromptLen[r] - 1) : sl = Occupied(r, "Prefilling", n)
    BY <1>3 DEF BoundSlots
  <2>2. n \in Nat
    BY <1>1, <2>1
  <2> QED
    BY <2>1, <2>2, OccupiedType
<1> QED
  BY <1>2, <1>3

\* The binds of an image request that fail once the engine was reached.
VisionFails(s, r) == VisionEvalFails(s, r) \/ VisionOverflows(s, r) \/ VisionSampleFails(s, r)

\* What such a bind leaves in the slot runs no request that did not run in it.
Leavings(sl) ==
  {left \in SlotRec : /\ left.req \in {NoReq, sl.req} /\ left.phase \in {"Empty", sl.phase}
                      /\ left.req = NoReq => left.phase = "Empty" \/ sl.req = NoReq}

LEMMA VisionFailsLeaves ==
  ASSUME TypeOK, NEW s \in Slots, NEW r \in Reqs, VisionFails(s, r)
  PROVE  \E left \in Leavings(slot[s]) : VisionBindFails(s, r, left)
<1>1. slot[s] \in SlotRec
  BY DEF TypeOK
<1>2. ASSUME NEW n \in Nat, NEW kept \in Nat
      PROVE  [slot[s] EXCEPT !.kv = n, !.prefixLen = kept] \in Leavings(slot[s])
  <2>1. [slot[s] EXCEPT !.kv = n, !.prefixLen = kept] \in SlotRec
    BY <1>1, ZenonT(60) DEF SlotRec
  <2>2. /\ [slot[s] EXCEPT !.kv = n, !.prefixLen = kept].req = slot[s].req
        /\ [slot[s] EXCEPT !.kv = n, !.prefixLen = kept].phase = slot[s].phase
    BY <1>1 DEF SlotRec
  <2> QED
    BY <2>1, <2>2 DEF Leavings
<1>3. CASE VisionEvalFails(s, r)
  <2>1. [slot[s] EXCEPT !.kv = 0, !.prefixLen = 0] \in Leavings(slot[s])
    BY <1>2
  <2> QED
    BY <1>3, <2>1 DEF VisionEvalFails
<1>4. CASE VisionOverflows(s, r)
  <2>1. PICK n \in HeadCap .. Pool, kept \in {0, slot[s].prefixLen} :
          VisionBindFails(s, r, [slot[s] EXCEPT !.kv = n, !.prefixLen = kept])
    BY <1>4 DEF VisionOverflows
  <2>2. HeadCap \in Nat /\ Pool \in Nat /\ slot[s].prefixLen \in Nat
    BY <1>1, HeadCapType, SizeAssumption, MaxU32Assumption DEF U32, SlotRec
  <2>3. n \in Nat /\ kept \in Nat
    BY <2>2
  <2>4. [slot[s] EXCEPT !.kv = n, !.prefixLen = kept] \in Leavings(slot[s])
    BY <1>2, <2>3
  <2> QED
    BY <2>1, <2>4
<1>5. CASE VisionSampleFails(s, r)
  <2> DEFINE left == [Vacant EXCEPT !.kv = PromptLen[r], !.prefixLen = PromptLen[r]]
  <2>1. PromptLen[r] \in Nat
    BY RequestAssumption, MaxU32Assumption DEF U32
  <2>2. left \in SlotRec
    BY <2>1, VacantType DEF SlotRec
  <2>3. left.req = NoReq /\ left.phase = "Empty"
    BY DEF Vacant
  <2>4. VisionBindFails(s, r, left)
    BY <1>5 DEF VisionSampleFails
  <2> HIDE DEF left
  <2> QED
    BY <2>2, <2>3, <2>4 DEF Leavings
<1> QED
  BY <1>3, <1>4, <1>5 DEF VisionFails

\* Dropping one entry of a sequence leaves a sequence.
LEMMA DropType ==
  ASSUME NEW S, NEW q \in Seq(S), NEW i \in DOMAIN q
  PROVE  LET d == [j \in 1 .. (Len(q) - 1) |-> IF j < i THEN q[j] ELSE q[j + 1]]
         IN  d \in Seq(S) /\ Len(d) = Len(q) - 1
<1> DEFINE d == [j \in 1 .. (Len(q) - 1) |-> IF j < i THEN q[j] ELSE q[j + 1]]
<1>1. Len(q) \in Nat /\ i \in 1 .. Len(q) /\ \A j \in 1 .. Len(q) : q[j] \in S
  BY LenProperties, ElementOfSeq
<1>2. Len(q) - 1 \in Nat
  BY <1>1
<1>3. d \in [1 .. (Len(q) - 1) -> S]
  BY <1>1
<1>4. d \in Seq(S)
  BY <1>2, <1>3, SeqDef
<1> QED
  BY <1>2, <1>3, <1>4, LenProperties

\* TypeOK is inductive by itself: every action takes well-typed slots, queues
\* and counters to well-typed ones (run_loop and the handlers).
THEOREM TypeInductive == TypeOK /\ [Next]_vars => TypeOK'
<1> SUFFICES ASSUME TypeOK, [Next]_vars PROVE TypeOK'
  OBVIOUS
<1> USE DEF queueVars, envVars
<1>1. ASSUME NEW r \in Reqs, Submit(r) PROVE TypeOK'
  <2>1. 1 + Cardinality({q \in Reqs : ticket[q] > 0}) \in Nat
    <3>1. IsFiniteSet({q \in Reqs : ticket[q] > 0})
      BY ReqsAssumption, FS_Subset
    <3> QED
      BY <3>1, FS_CardinalityType
  <2>2. Append(chan, r) \in Seq(Reqs)
    BY AppendProperties DEF TypeOK
  <2>3. chan' \in Seq(Reqs) /\ answer' \in [Reqs -> Answers] /\ ticket' \in [Reqs -> Nat]
    BY <1>1, <2>1, <2>2 DEF Submit, TypeOK, Answers
  <2> QED
    BY <1>1, <2>3 DEF Submit, TypeOK
<1>2. ASSUME NEW r \in Reqs, Cancel(r) PROVE TypeOK'
  BY <1>2 DEF Cancel, TypeOK
<1>3. ASSUME NEW r \in Reqs, TimeElapses(r) PROVE TypeOK'
  BY <1>3 DEF TimeElapses, TypeOK
<1>4. CASE Recv
  BY <1>4, HeadTailProperties, AppendProperties DEF Recv, TypeOK
<1>5. CASE DrainDone
  BY <1>5 DEF DrainDone, Goto, TypeOK
<1>6. ASSUME NEW i \in DOMAIN waiting, ExpireOne(i) PROVE TypeOK'
  <2>1. waiting \in Seq(Reqs)
    BY DEF TypeOK
  <2>2. waiting' \in Seq(Reqs)
    BY <1>6, <2>1, DropType DEF ExpireOne
  <2> QED
    BY <1>6, <2>2 DEF ExpireOne, TypeOK, Answers
<1>7. CASE ExpireDone
  BY <1>7 DEF ExpireDone, Goto, TypeOK
<1>8. CASE EvictCancelled
  <2>1. answer' \in [Reqs -> Answers]
    BY <1>8 DEF EvictCancelled, AnsweredBy, TypeOK, Answers
  <2> DEFINE left == [s \in Slots |-> IF ToEvict(slot[s]) THEN FinishSlot(slot[s]) ELSE slot[s]]
  <2>2. left \in [Slots -> SlotRec]
    BY FinishSlotType DEF TypeOK, ToEvict, IsActive, SlotRec
  <2>3. slot' = ReleaseRetained(left)
    BY <1>8 DEF EvictCancelled
  <2> HIDE DEF left
  <2>4. slot' \in [Slots -> SlotRec]
    BY <2>2, <2>3, ReleaseRetainedType
  <2> QED
    BY <1>8, <2>1, <2>4 DEF EvictCancelled, Goto, TypeOK
<1>9. CASE JoinStart
  <2> DEFINE idle == Slots \ ActiveSlots(slot)
             n == Smaller(Cardinality(idle), Len(waiting))
  <2>1. PICK f \in Injection(1 .. n, idle) :
          /\ picks' = [i \in 1 .. n |-> [slot |-> f[i], req |-> waiting[i]]]
          /\ waiting' = SubSeq(waiting, n + 1, Len(waiting))
    BY <1>9 DEF JoinStart
  <2>2. Cardinality(idle) \in Nat
    BY SlotsAssumption, FS_Subset, FS_CardinalityType
  <2>3. waiting \in Seq(Reqs) /\ Len(waiting) \in Nat
    BY LenProperties DEF TypeOK
  <2>4. n \in 0 .. Len(waiting)
    BY <2>2, <2>3 DEF Smaller
  <2>5. f \in [1 .. n -> Slots]
    BY <2>1 DEF Injection
  <2> HIDE DEF n
  <2>6. \A i \in 1 .. n : [slot |-> f[i], req |-> waiting[i]] \in [slot : Slots, req : Reqs]
    BY <2>3, <2>4, <2>5, ElementOfSeq
  <2>7. picks' \in Seq([slot : Slots, req : Reqs])
    BY <2>1, <2>4, <2>6, SeqDef
  <2>8. waiting' \in Seq(Reqs)
    BY <2>1, <2>3, <2>4, ElementOfSeq, SubSeqProperties
  <2> QED
    BY <1>9, <2>7, <2>8 DEF JoinStart, Goto, TypeOK
<1>10. CASE Defer
  <2>1. picks \in Seq([slot : Slots, req : Reqs]) /\ picks # <<>>
    BY <1>10 DEF Defer, TypeOK
  <2>2. /\ Head(picks) \in [slot : Slots, req : Reqs]
        /\ Tail(picks) \in Seq([slot : Slots, req : Reqs])
    BY <2>1, HeadTailProperties
  <2>3. PickedReq \in Reqs
    BY <2>2 DEF PickedReq
  <2> QED
    BY <1>10, <2>2, <2>3, AppendProperties DEF Defer, TypeOK
<1>11. CASE BindFails
  <2>1. picks \in Seq([slot : Slots, req : Reqs]) /\ picks # <<>>
    BY <1>11 DEF BindFails, TypeOK
  <2>2. Tail(picks) \in Seq([slot : Slots, req : Reqs])
    BY <2>1, HeadTailProperties
  <2> QED
    BY <1>11, <2>2 DEF BindFails, TypeOK, Answers
<1>12. ASSUME NEW s \in Slots, NEW r \in Reqs, Bind(s, r) PROVE TypeOK'
  <2>1. Tail(picks) \in Seq([slot : Slots, req : Reqs])
    BY <1>12, HeadTailProperties DEF Bind, Bindable, TypeOK
  <2>2. PICK sl \in BoundSlots(r) : slot' = RecomputeSlotCaps([slot EXCEPT ![s] = sl])
    BY <1>12 DEF Bind
  <2>3. [slot EXCEPT ![s] = sl] \in [Slots -> SlotRec]
    BY BoundSlotsType DEF TypeOK
  <2>4. slot' \in [Slots -> SlotRec]
    BY <2>2, <2>3, RecomputeType
  <2>5. failed' \subseteq Reqs
    BY <1>12, <2>4, FailedInType DEF Bind, TypeOK
  <2> QED
    BY <1>12, <2>1, <2>4, <2>5 DEF Bind, Bindable, RestartTimer, TypeOK
<1>13. ASSUME NEW s \in Slots, NEW r \in Reqs, VisionFails(s, r) PROVE TypeOK'
  <2>1. PICK left \in Leavings(slot[s]) : VisionBindFails(s, r, left)
    BY <1>13, VisionFailsLeaves
  <2>2. Tail(picks) \in Seq([slot : Slots, req : Reqs])
    BY <2>1, HeadTailProperties DEF VisionBindFails, Bindable, TypeOK
  <2>3. slot' \in [Slots -> SlotRec]
    BY <2>1 DEF VisionBindFails, Leavings, TypeOK
  <2>4. answer' \in [Reqs -> Answers]
    BY <2>1 DEF VisionBindFails, TypeOK, Answers
  <2> QED
    BY <2>1, <2>2, <2>3, <2>4 DEF VisionBindFails, Bindable, TypeOK
<1>14. CASE JoinDone
  <2>1. rejected \o waiting \in Seq(Reqs)
    BY ConcatProperties DEF TypeOK
  <2>2. slot' \in [Slots -> SlotRec]
    BY <1>14, RecomputeType DEF JoinDone, TypeOK
  <2> QED
    BY <1>14, <2>1, <2>2, EmptySeq DEF JoinDone, Goto, TypeOK
<1>15. CASE PlanPrefill
  <2>1. plan' \in [Slots -> Nat]
    BY <1>15 DEF PlanPrefill, PrefillPlans
  <2> QED
    BY <1>15, <2>1 DEF PlanPrefill, Goto, TypeOK
<1>16. CASE PlanDecode
  <2>1. plan' \in [Slots -> Nat]
    <3>1. SpecNMax \in Nat
      BY SizeAssumption, MaxU32Assumption DEF U32
    <3>2. \A s \in Slots : slot[s].drafts \in 0 .. SpecNMax
      BY DEF TypeOK, SlotRec
    <3>3. \A s \in Slots : 1 + slot[s].drafts \in Nat
      BY <3>1, <3>2
    <3> QED
      BY <1>16, <3>3 DEF PlanDecode, DecodePlan
  <2>2. sinceYield' \in Nat
    BY <1>16, SizeAssumption DEF PlanDecode, Smaller, TypeOK
  <2> QED
    BY <1>16, <2>1, <2>2 DEF PlanDecode, Goto, TypeOK
<1>17. CASE PlanEmpty
  BY <1>17 DEF PlanEmpty, Goto, TypeOK
<1>18. CASE Idle
  BY <1>18 DEF Idle, Goto, TypeOK
<1>19. CASE GpuStep
  <2>1. PICK f \in [Slots -> UNION {AfterGpu(slot[s], plan[s]) : s \in Slots}] :
          slot' = f /\ \A s \in Slots : f[s] \in AfterGpu(slot[s], plan[s])
    BY <1>19 DEF GpuStep
  <2>2. \A s \in Slots : f[s] \in SlotRec
    BY <2>1, AfterGpuType DEF TypeOK, SameRequest
  <2>3. slot' \in [Slots -> SlotRec]
    BY <2>1, <2>2
  <2>4. failed' \subseteq Reqs
    BY <1>19, <2>3, FailedInType DEF GpuStep, TypeOK
  <2> QED
    BY <1>19, <2>3, <2>4 DEF GpuStep, Goto, NoPlan, TypeOK
<1>20. CASE GpuFails
  <2>1. answer' \in [Reqs -> Answers]
    BY <1>20 DEF GpuFails, AnsweredBy, TypeOK, Answers
  <2>2. slot' \in [Slots -> SlotRec]
    BY <1>20, VacantType DEF GpuFails, TypeOK
  <2> QED
    BY <1>20, <2>1, <2>2 DEF GpuFails, Goto, NoPlan, TypeOK
<1>21. CASE GpuPanics
  <2>1. answer' \in [Reqs -> Answers]
    BY <1>21 DEF GpuPanics, AnsweredBy, TypeOK, Answers
  <2>2. PICK decoded \in BOOLEAN :
          slot' = [s \in Slots |->
            [Vacant EXCEPT !.kv = slot[s].kv + IF decoded THEN plan[s] ELSE 0]]
    BY <1>21 DEF GpuPanics
  <2>3. \A s \in Slots : slot[s].kv + (IF decoded THEN plan[s] ELSE 0) \in Nat
    BY DEF TypeOK, SlotRec
  <2>4. \A c \in Nat : [Vacant EXCEPT !.kv = c] \in SlotRec
    BY VacantType DEF SlotRec
  <2>5. slot' \in [Slots -> SlotRec]
    BY <2>2, <2>3, <2>4
  <2> QED
    BY <1>21, <2>1, <2>5 DEF GpuPanics, Goto, NoPlan, TypeOK
<1>22. CASE EvictFinished
  <2>1. answer' \in [Reqs -> Answers]
    <3>1. ASSUME NEW r \in Reqs, \E s \in Slots : slot[s].req = r /\ IsFinished(slot[s])
          PROVE  slot[CHOOSE s \in Slots : slot[s].req = r /\ IsFinished(slot[s])].finish
                   \in {"Stop", "Length", "Failed"}
      BY <3>1 DEF IsFinished, TypeOK, SlotRec
    <3> QED
      BY <1>22, <3>1 DEF EvictFinished, AnsweredBy, TypeOK, Answers
  <2> DEFINE left == [s \in Slots |-> IF IsFinished(slot[s]) THEN FinishSlot(slot[s]) ELSE slot[s]]
  <2>2. left \in [Slots -> SlotRec]
    BY FinishSlotType DEF TypeOK, IsFinished, IsActive, SlotRec
  <2>3. slot' = RecomputeSlotCaps(ReleaseRetained(left))
    BY <1>22 DEF EvictFinished
  <2> HIDE DEF left
  <2>4. slot' \in [Slots -> SlotRec]
    BY <2>2, <2>3, ReleaseRetainedType, RecomputeType
  <2> QED
    BY <1>22, <2>1, <2>4 DEF EvictFinished, Goto, TypeOK
<1>23. CASE UNCHANGED vars
  BY <1>23 DEF vars, TypeOK
<1> QED
  BY <1>1, <1>2, <1>3, <1>4, <1>5, <1>6, <1>7, <1>8, <1>9, <1>10, <1>11, <1>12,
     <1>13, <1>14, <1>15, <1>16, <1>17, <1>18, <1>19, <1>20, <1>21, <1>22, <1>23
  DEF Next, Handlers, RunLoop, VisionFails

\* The initial state is well typed.
LEMMA TypeInit == Init => TypeOK
<1> SUFFICES ASSUME Init PROVE TypeOK
  OBVIOUS
<1>1. slot \in [Slots -> SlotRec]
  BY VacantType DEF Init
<1>2. \A S : <<>> \in Seq(S)
  BY EmptySeq
<1> QED
  BY <1>1, <1>2 DEF Init, NoPlan, TypeOK, Answers

\* Every reachable state is well typed: in particular no draft is longer than
\* the batch was sized for, and no cell count goes negative.
THEOREM TypeCorrect == Spec => []TypeOK
BY TypeInit, TypeInductive, PTL DEF Spec

-----------------------------------------------------------------------------
(* The line of waiting requests.  The inductive invariant adds to           *)
(* QueueOrder and OneHome what they need: arrival numbers grow, picked      *)
(* slots are idle and distinct, and a pass in progress exists only between  *)
(* JoinStart and JoinDone.                                                  *)

(* Membership and order of sequences of requests.                           *)

In(q, r) == \E i \in DOMAIN q : q[i] = r

\* What is in a sequence after Append.
LEMMA InAppend ==
  ASSUME NEW S, NEW q \in Seq(S), NEW x \in S, NEW r
  PROVE  In(Append(q, x), r) <=> In(q, r) \/ r = x
<1>1. /\ Append(q, x) \in Seq(S) /\ Len(Append(q, x)) = Len(q) + 1
      /\ \A i \in 1 .. Len(q) : Append(q, x)[i] = q[i]
      /\ Append(q, x)[Len(q) + 1] = x
  BY AppendProperties
<1>2. /\ Len(q) \in Nat /\ DOMAIN q = 1 .. Len(q)
      /\ DOMAIN Append(q, x) = 1 .. (Len(q) + 1)
  BY <1>1, LenProperties
<1> QED
  BY <1>1, <1>2 DEF In

\* What is in a sequence after its head is taken.
LEMMA InTail ==
  ASSUME NEW S, NEW q \in Seq(S), q # <<>>, NEW r
  PROVE  In(q, r) <=> In(Tail(q), r) \/ r = Head(q)
<1>1. /\ Tail(q) \in Seq(S) /\ Len(Tail(q)) = Len(q) - 1
      /\ \A i \in 1 .. Len(Tail(q)) : Tail(q)[i] = q[i + 1]
      /\ Len(q) \in Nat \ {0} /\ Head(q) = q[1]
  BY HeadTailProperties, EmptySeq
<1>2. /\ DOMAIN q = 1 .. Len(q)
      /\ DOMAIN Tail(q) = 1 .. (Len(q) - 1)
  BY <1>1, LenProperties
<1>3. ASSUME NEW i \in 1 .. Len(q), i # 1
      PROVE  i - 1 \in 1 .. Len(Tail(q)) /\ Tail(q)[i - 1] = q[i]
  BY <1>1, <1>3
<1>4. In(q, r) => In(Tail(q), r) \/ r = Head(q)
  BY <1>1, <1>2, <1>3 DEF In
<1>5. In(Tail(q), r) => In(q, r)
  <2>1. ASSUME NEW i \in 1 .. (Len(q) - 1)
        PROVE  i + 1 \in 1 .. Len(q) /\ Tail(q)[i] = q[i + 1]
    BY <1>1, <2>1
  <2> QED
    BY <1>2, <2>1 DEF In
<1>6. In(q, Head(q))
  BY <1>1, <1>2 DEF In
<1> QED
  BY <1>4, <1>5, <1>6

\* What is in two sequences put together.
LEMMA InConcat ==
  ASSUME NEW S, NEW p \in Seq(S), NEW q \in Seq(S), NEW r
  PROVE  In(p \o q, r) <=> In(p, r) \/ In(q, r)
<1>1. /\ p \o q \in Seq(S) /\ Len(p \o q) = Len(p) + Len(q)
      /\ \A i \in 1 .. Len(p) + Len(q) : (p \o q)[i] =
           IF i <= Len(p) THEN p[i] ELSE q[i - Len(p)]
  BY ConcatProperties
<1>2. /\ Len(p) \in Nat /\ Len(q) \in Nat
      /\ DOMAIN p = 1 .. Len(p) /\ DOMAIN q = 1 .. Len(q)
      /\ DOMAIN (p \o q) = 1 .. (Len(p) + Len(q))
  BY <1>1, LenProperties
<1>3. ASSUME NEW i \in 1 .. Len(q)
      PROVE  Len(p) + i \in 1 .. (Len(p) + Len(q)) /\ (p \o q)[Len(p) + i] = q[i]
  BY <1>1, <1>2
<1>4. ASSUME NEW i \in 1 .. Len(p) PROVE (p \o q)[i] = p[i] /\ i \in 1 .. (Len(p) + Len(q))
  BY <1>1, <1>2
<1>5. In(p, r) \/ In(q, r) => In(p \o q, r)
  BY <1>2, <1>3, <1>4 DEF In
<1>6. In(p \o q, r) => In(p, r) \/ In(q, r)
  <2>1. ASSUME NEW i \in 1 .. (Len(p) + Len(q)), ~(i <= Len(p))
        PROVE  i - Len(p) \in 1 .. Len(q) /\ (p \o q)[i] = q[i - Len(p)]
    BY <1>1, <1>2, <2>1
  <2> QED
    BY <1>1, <1>2, <2>1 DEF In
<1> QED
  BY <1>5, <1>6

\* The four parts of the line.
LEMMA QueuedIn ==
  ASSUME NEW r
  PROVE  Queued(r) <=> \/ In(rejected, r) \/ In(PickedReqs, r)
                       \/ In(waiting, r) \/ In(chan, r)
BY DEF Queued, In

\* AllBefore, said of members instead of positions.
LEMMA BeforeIn ==
  ASSUME NEW p, NEW q
  PROVE  AllBefore(p, q) <=>
           \A x, y : In(p, x) /\ In(q, y) => ticket[x] < ticket[y]
BY DEF AllBefore, In

\* A queue stays in arrival order when a newer request is appended.
LEMMA SortedAppend ==
  ASSUME NEW S, NEW q \in Seq(S), NEW x \in S, Sorted(q),
         \A y : In(q, y) => ticket[y] < ticket[x]
  PROVE  Sorted(Append(q, x))
<1>1. /\ Append(q, x) \in Seq(S) /\ Len(Append(q, x)) = Len(q) + 1
      /\ \A i \in 1 .. Len(q) : Append(q, x)[i] = q[i]
      /\ Append(q, x)[Len(q) + 1] = x
  BY AppendProperties
<1>2. /\ Len(q) \in Nat /\ DOMAIN q = 1 .. Len(q)
      /\ DOMAIN Append(q, x) = 1 .. (Len(q) + 1)
  BY <1>1, LenProperties
<1>3. \A i \in 1 .. Len(q) : ticket[q[i]] < ticket[x]
  BY <1>2 DEF In
<1> QED
  BY <1>1, <1>2, <1>3 DEF Sorted

\* A queue stays in arrival order when its head is taken.
LEMMA SortedTail ==
  ASSUME NEW S, NEW q \in Seq(S), q # <<>>, Sorted(q)
  PROVE  /\ Sorted(Tail(q))
         /\ \A x : In(Tail(q), x) => ticket[Head(q)] < ticket[x]
<1>1. /\ Tail(q) \in Seq(S) /\ Len(Tail(q)) = Len(q) - 1
      /\ \A i \in 1 .. Len(Tail(q)) : Tail(q)[i] = q[i + 1]
      /\ Len(q) \in Nat \ {0} /\ Head(q) = q[1]
  BY HeadTailProperties, EmptySeq
<1>2. /\ DOMAIN q = 1 .. Len(q)
      /\ DOMAIN Tail(q) = 1 .. (Len(q) - 1)
  BY <1>1, LenProperties
<1>3. ASSUME NEW i \in 1 .. (Len(q) - 1)
      PROVE  i + 1 \in 1 .. Len(q) /\ 1 \in 1 .. Len(q) /\ Tail(q)[i] = q[i + 1] /\ 1 < i + 1
  BY <1>1, <1>3
<1>4. Sorted(Tail(q))
  <2> SUFFICES ASSUME NEW i \in 1 .. (Len(q) - 1), NEW j \in 1 .. (Len(q) - 1), i < j
               PROVE  ticket[Tail(q)[i]] < ticket[Tail(q)[j]]
    BY <1>2 DEF Sorted
  <2>1. i + 1 < j + 1
    BY <1>1
  <2>2. ticket[q[i + 1]] < ticket[q[j + 1]]
    BY <1>2, <1>3, <2>1 DEF Sorted
  <2> QED
    BY <1>3, <2>2
<1>5. ASSUME NEW i \in 1 .. (Len(q) - 1) PROVE ticket[Head(q)] < ticket[Tail(q)[i]]
  BY <1>1, <1>2, <1>3 DEF Sorted
<1> QED
  BY <1>2, <1>4, <1>5 DEF In

\* Two ordered queues, one before the other, make an ordered one.
LEMMA SortedConcat ==
  ASSUME NEW S, NEW p \in Seq(S), NEW q \in Seq(S),
         Sorted(p), Sorted(q), AllBefore(p, q)
  PROVE  Sorted(p \o q)
<1>1. /\ p \o q \in Seq(S) /\ Len(p \o q) = Len(p) + Len(q)
      /\ \A i \in 1 .. Len(p) + Len(q) : (p \o q)[i] =
           IF i <= Len(p) THEN p[i] ELSE q[i - Len(p)]
  BY ConcatProperties
<1>2. /\ Len(p) \in Nat /\ Len(q) \in Nat
      /\ DOMAIN p = 1 .. Len(p) /\ DOMAIN q = 1 .. Len(q)
      /\ DOMAIN (p \o q) = 1 .. (Len(p) + Len(q))
  BY <1>1, LenProperties
<1> SUFFICES ASSUME NEW i \in 1 .. (Len(p) + Len(q)), NEW j \in 1 .. (Len(p) + Len(q)), i < j
             PROVE  ticket[(p \o q)[i]] < ticket[(p \o q)[j]]
  BY <1>2 DEF Sorted
<1>3. CASE j <= Len(p)
  BY <1>1, <1>2, <1>3 DEF Sorted
<1>4. CASE i <= Len(p) /\ ~(j <= Len(p))
  <2>1. i \in DOMAIN p /\ j - Len(p) \in DOMAIN q
    BY <1>2, <1>4
  <2> QED
    BY <1>1, <1>4, <2>1 DEF AllBefore
<1>5. CASE ~(i <= Len(p))
  <2>1. /\ i - Len(p) \in DOMAIN q /\ j - Len(p) \in DOMAIN q
        /\ i - Len(p) < j - Len(p) /\ ~(j <= Len(p))
    BY <1>2, <1>5
  <2> QED
    BY <1>1, <1>5, <2>1 DEF Sorted
<1> QED
  BY <1>2, <1>3, <1>4, <1>5

\* A sequence cut after its first n entries.
FirstOf(q, n) == [i \in 1 .. n |-> q[i]]

RestOf(q, n) == SubSeq(q, n + 1, Len(q))

\* The first n and the rest of an ordered queue: both ordered, one before the other.
LEMMA SortedSplit ==
  ASSUME NEW q \in Seq(Reqs), NEW n \in 0 .. Len(q), Sorted(q)
  PROVE  /\ Sorted(FirstOf(q, n)) /\ Sorted(RestOf(q, n))
         /\ AllBefore(FirstOf(q, n), RestOf(q, n))
         /\ \A r : In(q, r) <=> In(FirstOf(q, n), r) \/ In(RestOf(q, n), r)
<1> DEFINE first == FirstOf(q, n)
           rest == RestOf(q, n)
<1>1. /\ Len(q) \in Nat /\ DOMAIN q = 1 .. Len(q) /\ n \in Nat /\ n <= Len(q)
      /\ \A i \in 1 .. Len(q) : q[i] \in Reqs
  BY LenProperties, ElementOfSeq
<1>2. \A i \in (n + 1) .. Len(q) : q[i] \in Reqs
  BY <1>1
<1>3. /\ rest \in Seq(Reqs)
      /\ Len(rest) = IF n + 1 <= Len(q) THEN Len(q) - (n + 1) + 1 ELSE 0
      /\ \A i \in 1 .. Len(q) - (n + 1) + 1 : rest[i] = q[n + 1 + i - 1]
  BY <1>1, <1>2, SubSeqProperties, SMTT(20) DEF RestOf
<1>4. Len(rest) = Len(q) - n /\ DOMAIN rest = 1 .. (Len(q) - n)
  <2>1. \A len, cut \in Nat : cut <= len =>
          (IF cut + 1 <= len THEN len - (cut + 1) + 1 ELSE 0) = len - cut
    OBVIOUS
  <2>2. Len(rest) = Len(q) - n
    BY <1>1, <1>3, <2>1
  <2> QED
    BY <1>3, <2>2, LenProperties
<1>5. ASSUME NEW i \in 1 .. (Len(q) - n)
      PROVE  n + i \in 1 .. Len(q) /\ rest[i] = q[n + i] /\ n < n + i
  <2>1. n + i \in 1 .. Len(q) /\ n < n + i /\ n + 1 + i - 1 = n + i
        /\ i \in 1 .. Len(q) - (n + 1) + 1
    BY <1>1, <1>5
  <2> QED
    BY <1>3, <2>1
<1>6. DOMAIN first = 1 .. n /\ \A i \in 1 .. n : first[i] = q[i] /\ i \in 1 .. Len(q)
  BY <1>1 DEF FirstOf
<1> HIDE DEF first, rest
<1>7. Sorted(first)
  BY <1>1, <1>6 DEF Sorted
<1>8. Sorted(rest)
  <2> SUFFICES ASSUME NEW i \in 1 .. (Len(q) - n), NEW j \in 1 .. (Len(q) - n), i < j
               PROVE  ticket[rest[i]] < ticket[rest[j]]
    BY <1>4 DEF Sorted
  <2>1. n + i < n + j /\ n + i \in DOMAIN q /\ n + j \in DOMAIN q
    BY <1>1, <1>5
  <2>2. ticket[q[n + i]] < ticket[q[n + j]]
    BY <2>1 DEF Sorted
  <2> QED
    BY <1>5, <2>2
<1>9. AllBefore(first, rest)
  <2> SUFFICES ASSUME NEW i \in 1 .. n, NEW j \in 1 .. (Len(q) - n)
               PROVE  ticket[first[i]] < ticket[rest[j]]
    BY <1>4, <1>6 DEF AllBefore
  <2>1. i < n + j /\ i \in DOMAIN q /\ n + j \in DOMAIN q
    BY <1>1, <1>5
  <2>2. ticket[q[i]] < ticket[q[n + j]]
    BY <2>1 DEF Sorted
  <2> QED
    BY <1>5, <1>6, <2>2
<1>10. ASSUME NEW r PROVE In(q, r) <=> In(first, r) \/ In(rest, r)
  <2>1. ASSUME NEW i \in 1 .. Len(q), ~(i \in 1 .. n)
        PROVE  i - n \in 1 .. (Len(q) - n) /\ n + (i - n) = i
    BY <1>1, <2>1
  <2>2. In(q, r) => In(first, r) \/ In(rest, r)
    <3> SUFFICES ASSUME NEW i \in 1 .. Len(q), q[i] = r
                 PROVE  In(first, r) \/ In(rest, r)
      BY <1>1 DEF In
    <3>1. CASE i \in 1 .. n
      BY <1>6, <3>1 DEF In
    <3>2. CASE ~(i \in 1 .. n)
      <4>1. i - n \in 1 .. (Len(q) - n) /\ n + (i - n) = i
        BY <2>1, <3>2
      <4>2. rest[i - n] = r
        BY <1>5, <4>1
      <4> QED
        BY <1>4, <4>1, <4>2 DEF In
    <3> QED
      BY <3>1, <3>2
  <2>3. In(first, r) \/ In(rest, r) => In(q, r)
    BY <1>1, <1>4, <1>5, <1>6 DEF In
  <2> QED
    BY <2>2, <2>3
<1> QED
  BY <1>7, <1>8, <1>9, <1>10 DEF first, rest

\* A sequence without its i-th entry.
Dropped(q, i) == [j \in 1 .. (Len(q) - 1) |-> IF j < i THEN q[j] ELSE q[j + 1]]

\* A queue stays in arrival order when any one request is dropped.
LEMMA SortedDrop ==
  ASSUME ticket \in [Reqs -> Nat], NEW q \in Seq(Reqs), NEW i \in DOMAIN q, Sorted(q)
  PROVE  /\ Sorted(Dropped(q, i))
         /\ \A r : In(Dropped(q, i), r) <=> In(q, r) /\ r # q[i]
<1> DEFINE d == Dropped(q, i)
<1>1. /\ Len(q) \in Nat /\ DOMAIN q = 1 .. Len(q) /\ i \in 1 .. Len(q)
      /\ \A j \in 1 .. Len(q) : q[j] \in Reqs
  BY LenProperties, ElementOfSeq
<1> DEFINE at(j) == IF j < i THEN j ELSE j + 1
<1>2. ASSUME NEW j \in 1 .. (Len(q) - 1)
      PROVE  at(j) \in 1 .. Len(q) /\ at(j) # i /\ d[j] = q[at(j)]
  BY <1>1, <1>2 DEF Dropped
<1>3. ASSUME NEW j \in 1 .. (Len(q) - 1), NEW k \in 1 .. (Len(q) - 1), j < k
      PROVE  at(j) < at(k)
  BY <1>1, <1>3
<1>4. ASSUME NEW k \in 1 .. Len(q), k # i
      PROVE  \E j \in 1 .. (Len(q) - 1) : at(j) = k
  <2>1. CASE k < i
    BY <1>1, <2>1
  <2>2. CASE k > i
    <3>1. k - 1 \in 1 .. (Len(q) - 1) /\ at(k - 1) = k
      BY <1>1, <2>2
    <3> QED
      BY <3>1
  <2> QED
    BY <1>1, <1>4, <2>1, <2>2
<1>5. DOMAIN d = 1 .. (Len(q) - 1)
  BY DEF Dropped
<1> HIDE DEF at, d
<1>6. Sorted(d)
  <2> SUFFICES ASSUME NEW j \in 1 .. (Len(q) - 1), NEW k \in 1 .. (Len(q) - 1), j < k
               PROVE  ticket[d[j]] < ticket[d[k]]
    BY <1>5 DEF Sorted
  <2>1. at(j) < at(k) /\ at(j) \in DOMAIN q /\ at(k) \in DOMAIN q
    BY <1>1, <1>2, <1>3
  <2>2. ticket[q[at(j)]] < ticket[q[at(k)]]
    BY <2>1 DEF Sorted
  <2> QED
    BY <1>2, <2>2
<1>7. ASSUME NEW k \in 1 .. Len(q), k # i PROVE q[k] # q[i]
  <2>1. ticket[q[k]] \in Nat /\ ticket[q[i]] \in Nat
    BY <1>1
  <2>2. k < i \/ i < k
    BY <1>1, <1>7
  <2>3. ticket[q[k]] < ticket[q[i]] \/ ticket[q[i]] < ticket[q[k]]
    BY <1>1, <2>2 DEF Sorted
  <2> QED
    BY <2>1, <2>3
<1>8. ASSUME NEW r, In(d, r) PROVE In(q, r) /\ r # q[i]
  <2>1. PICK j \in 1 .. (Len(q) - 1) : d[j] = r
    BY <1>5, <1>8 DEF In
  <2> QED
    BY <1>1, <1>2, <1>7, <2>1 DEF In
<1>9. ASSUME NEW r, In(q, r), r # q[i] PROVE In(d, r)
  <2>1. PICK k \in 1 .. Len(q) : q[k] = r /\ k # i
    BY <1>1, <1>9 DEF In
  <2>2. PICK j \in 1 .. (Len(q) - 1) : at(j) = k
    BY <1>4, <2>1
  <2> QED
    BY <1>2, <1>5, <2>1, <2>2 DEF In
<1> QED
  BY <1>6, <1>8, <1>9 DEF d

\* The requests of the pairs.
LEMMA PickedReqsType ==
  ASSUME picks \in Seq([slot : Slots, req : Reqs])
  PROVE  /\ PickedReqs \in Seq(Reqs)
         /\ Len(PickedReqs) = Len(picks) /\ DOMAIN picks = 1 .. Len(picks)
         /\ Len(picks) \in Nat
         /\ picks # <<>> => /\ PickedReqs # <<>>
                            /\ Head(PickedReqs) = PickedReq
                            /\ PickedReq \in Reqs
                            /\ Head(picks) = picks[1]
                            /\ 1 \in 1 .. Len(picks)
<1>1. Len(picks) \in Nat /\ DOMAIN picks = 1 .. Len(picks)
  BY LenProperties
<1>2. \A i \in 1 .. Len(picks) : picks[i].req \in Reqs
  <2>1. \A i \in 1 .. Len(picks) : picks[i] \in [slot : Slots, req : Reqs]
    BY ElementOfSeq
  <2> QED
    BY <2>1
<1>3. PickedReqs \in [1 .. Len(picks) -> Reqs]
  BY <1>1, <1>2 DEF PickedReqs
<1>4. PickedReqs \in Seq(Reqs)
  BY <1>1, <1>3, SeqDef
<1>5. Len(PickedReqs) = Len(picks)
  BY <1>1, <1>3, <1>4, LenProperties
<1>6. ASSUME picks # <<>>
      PROVE  PickedReqs # <<>> /\ Head(PickedReqs) = PickedReq /\ PickedReq \in Reqs
             /\ Head(picks) = picks[1] /\ 1 \in 1 .. Len(picks)
  <2>1. Len(picks) \in Nat \ {0}
    BY <1>6, EmptySeq
  <2>2. 1 \in 1 .. Len(picks) /\ Head(picks) = picks[1]
    BY <2>1
  <2>3. Head(PickedReqs) = PickedReqs[1] /\ PickedReqs # <<>>
    BY <1>4, <1>5, <2>1
  <2> QED
    BY <1>1, <1>2, <2>2, <2>3 DEF PickedReqs, PickedReq
<1> QED
  BY <1>1, <1>4, <1>5, <1>6

\* Taking the head pair takes the head request.
LEMMA PickedReqsTail ==
  ASSUME picks \in Seq([slot : Slots, req : Reqs]), picks # <<>>, picks' = Tail(picks)
  PROVE  /\ PickedReqs' = Tail(PickedReqs)
         /\ Len(picks') = Len(picks) - 1
         /\ \A i \in 1 .. Len(picks') : picks'[i] = picks[i + 1] /\ i + 1 \in 1 .. Len(picks)
<1>1. /\ PickedReqs \in Seq(Reqs) /\ Len(PickedReqs) = Len(picks)
      /\ PickedReqs # <<>> /\ Len(picks) \in Nat /\ DOMAIN picks = 1 .. Len(picks)
  BY PickedReqsType
<1>2. /\ picks' \in Seq([slot : Slots, req : Reqs])
      /\ Len(picks') = Len(picks) - 1
      /\ \A i \in 1 .. Len(picks') : picks'[i] = picks[i + 1]
  BY HeadTailProperties
<1>3. /\ Tail(PickedReqs) \in Seq(Reqs)
      /\ Len(Tail(PickedReqs)) = Len(picks) - 1
      /\ \A i \in 1 .. Len(Tail(PickedReqs)) : Tail(PickedReqs)[i] = PickedReqs[i + 1]
  BY <1>1, HeadTailProperties
<1>4. \A i \in 1 .. (Len(picks) - 1) : i + 1 \in 1 .. Len(picks)
  BY <1>1
<1>5. DOMAIN picks' = 1 .. (Len(picks) - 1)
  BY <1>2, LenProperties
<1>6. PickedReqs' = [i \in 1 .. (Len(picks) - 1) |-> picks'[i].req]
  BY <1>5 DEF PickedReqs
<1>7. \A i \in 1 .. (Len(picks) - 1) : PickedReqs'[i] = Tail(PickedReqs)[i]
  BY <1>1, <1>2, <1>3, <1>4, <1>6 DEF PickedReqs
<1>8. Tail(PickedReqs) = [i \in 1 .. (Len(picks) - 1) |-> Tail(PickedReqs)[i]]
  BY <1>3, LenProperties
<1> QED
  BY <1>2, <1>4, <1>6, <1>7, <1>8

-----------------------------------------------------------------------------
(* The inductive invariant.                                                 *)

\* Between passes nothing is picked or deferred; picked slots are idle and no
\* slot is picked twice.
PassInv ==
  /\ pc # "bind" => picks = <<>> /\ rejected = <<>>
  /\ \A i \in DOMAIN picks : ~IsActive(slot[picks[i].slot])
  /\ \A i, j \in DOMAIN picks : picks[i].slot = picks[j].slot => i = j

Issued == {q \in Reqs : ticket[q] > 0}

\* The next arrival number is larger than all before it.
TicketInv ==
  \A r \in Reqs : /\ answer[r] = "new" => ticket[r] = 0
                  /\ ticket[r] <= Cardinality(Issued)

LineInv == TypeOK /\ PassInv /\ TicketInv /\ QueueOrder /\ OneHome

\* The parts of the line are sequences of requests.
LEMMA TypesOfLine ==
  ASSUME TypeOK
  PROVE  /\ rejected \in Seq(Reqs) /\ waiting \in Seq(Reqs) /\ chan \in Seq(Reqs)
         /\ picks \in Seq([slot : Slots, req : Reqs])
         /\ PickedReqs \in Seq(Reqs)
         /\ ticket \in [Reqs -> Nat]
         /\ slot \in [Slots -> SlotRec]
BY PickedReqsType DEF TypeOK

\* What is in a sequence of requests is a request.
LEMMA InReqs ==
  ASSUME NEW q \in Seq(Reqs), NEW r, In(q, r)
  PROVE  r \in Reqs
BY LenProperties, ElementOfSeq DEF In

\* Nothing precedes itself.
LEMMA Apart ==
  ASSUME ticket \in [Reqs -> Nat], NEW p \in Seq(Reqs), NEW q \in Seq(Reqs),
         AllBefore(p, q), NEW r, In(p, r)
  PROVE  ~In(q, r)
<1>1. r \in Reqs
  BY InReqs
<1>2. ~(ticket[r] < ticket[r])
  BY <1>1
<1> QED
  BY <1>2, BeforeIn

\* Queued in the next state, said of members.
LEMMA QueuedNext ==
  ASSUME NEW r
  PROVE  Queued(r)' <=> \/ In(rejected', r) \/ In(PickedReqs', r)
                        \/ In(waiting', r) \/ In(chan', r)
BY DEF Queued, In

\* A step that leaves the line alone.
LEMMA LineUnchanged ==
  ASSUME UNCHANGED <<chan, waiting, picks, rejected, ticket>>
  PROVE  /\ QueueOrder => QueueOrder'
         /\ \A r : Queued(r)' <=> Queued(r)
<1>1. PickedReqs' = PickedReqs
  BY DEF PickedReqs
<1> QED
  BY <1>1 DEF QueueOrder, Sorted, AllBefore, Queued

\* A step that gives no arrival number keeps TicketInv.
LEMMA TicketsUnchanged ==
  ASSUME TicketInv, UNCHANGED ticket,
         \A r \in Reqs : answer'[r] = "new" => answer[r] = "new"
  PROVE  TicketInv'
<1>1. Issued' = Issued
  BY DEF Issued
<1> QED
  BY <1>1 DEF TicketInv

\* Requests leave the slots in `gone' and are answered; the others stay.
LEMMA Leaving ==
  ASSUME TypeOK, OneHome, UNCHANGED queueVars, UNCHANGED ticket,
         NEW gone \in SUBSET Slots,
         \A s \in Slots : slot'[s].req = IF s \in gone THEN NoReq ELSE slot[s].req,
         \A r \in Reqs :
           IF \E s \in gone : slot[s].req = r
           THEN answer'[r] \notin {"open", "new"}
           ELSE answer'[r] = answer[r]
  PROVE  OneHome' /\ (\A r \in Reqs : answer'[r] = "new" => answer[r] = "new")
<1>1. \A r : Queued(r)' <=> Queued(r)
  BY LineUnchanged DEF queueVars
<1>2. ASSUME NEW r \in Reqs
      PROVE  Running(r)' <=> Running(r) /\ ~\E s \in gone : slot[s].req = r
  <2>1. r # NoReq
    BY ReqsAssumption
  <2>2. Running(r)' => Running(r) /\ ~\E s \in gone : slot[s].req = r
    BY <2>1, ReqsAssumption DEF Running, OneHome, IsActive
  <2> QED
    BY <2>1, <2>2 DEF Running
<1>3. ASSUME NEW r \in Reqs, \E s \in gone : slot[s].req = r
      PROVE  Running(r) /\ answer[r] = "open" /\ ~Queued(r)
  BY <1>3 DEF OneHome, Running
<1>4. \A r \in Reqs : answer'[r] = "open" <=> Queued(r)' \/ Running(r)'
  BY <1>1, <1>2, <1>3 DEF OneHome
<1>5. \A r \in Reqs : ~(Queued(r)' /\ Running(r)')
  BY <1>1, <1>2 DEF OneHome
<1>6. \A s, t \in Slots : slot'[s].req # NoReq /\ slot'[s].req = slot'[t].req => s = t
  BY DEF OneHome, IsActive
<1>7. \A r \in Reqs : answer'[r] = "new" => answer[r] = "new"
  BY <1>3
<1> QED
  BY <1>4, <1>5, <1>6, <1>7 DEF OneHome, IsActive

\* A step of the slots that moves no request.
LEMMA SameSlots ==
  ASSUME LineInv, UNCHANGED <<chan, waiting, picks, rejected, ticket, answer>>,
         \A s \in Slots : slot'[s].req = slot[s].req,
         pc # "bind"
  PROVE  PassInv' /\ TicketInv' /\ QueueOrder' /\ OneHome'
<1>1. QueueOrder' /\ \A r : Queued(r)' <=> Queued(r)
  BY LineUnchanged DEF LineInv
<1>2. \A r : Running(r)' <=> Running(r)
  BY DEF Running
<1>3. OneHome'
  BY <1>1, <1>2 DEF LineInv, OneHome, IsActive
<1>4. TicketInv'
  BY TicketsUnchanged DEF LineInv
<1>5. picks = <<>> /\ rejected = <<>>
  BY DEF LineInv, PassInv
<1>6. PassInv'
  BY <1>5 DEF PassInv
<1> QED
  BY <1>1, <1>3, <1>4, <1>6

\* recompute_slot_caps moves no request.
LEMMA RecomputeReq ==
  ASSUME NEW sts \in [Slots -> SlotRec]
  PROVE  \A s \in Slots : RecomputeSlotCaps(sts)[s].req = sts[s].req
<1>1. ASSUME NEW s \in Slots, NEW cap PROVE WithCap(sts[s], cap).req = sts[s].req
  BY DEF WithCap, SlotRec
<1> QED
  BY <1>1, RecomputeType

-----------------------------------------------------------------------------
(* One lemma per action that moves a request.                               *)

\* Submit: the newest request goes to the back of the channel.
LEMMA SubmitLine ==
  ASSUME LineInv, NEW r \in Reqs, Submit(r)
  PROVE  PassInv' /\ TicketInv' /\ QueueOrder' /\ OneHome'
<1> USE TypesOfLine DEF LineInv
<1>1. ~Queued(r) /\ ~Running(r) /\ answer[r] = "new" /\ ticket[r] = 0
  BY DEF Submit, OneHome, TicketInv
<1>2. \A x : Running(x)' <=> Running(x)
  BY DEF Submit, Running
<1>3. PassInv'
  BY DEF PassInv, Submit, IsActive
<1>4. answer \in [Reqs -> Answers]
  BY DEF TypeOK
<1>5. CASE Len(chan) < Larger(QueueSize, 1)
  <2> DEFINE t == 1 + Cardinality(Issued)
  <2>1. /\ chan' = Append(chan, r)
        /\ answer' = [answer EXCEPT ![r] = "open"]
        /\ ticket' = [ticket EXCEPT ![r] = t]
        /\ rejected' = rejected /\ waiting' = waiting /\ picks' = picks
        /\ PickedReqs' = PickedReqs
    BY <1>5 DEF Submit, Issued, PickedReqs
  <2>2. Cardinality(Issued) \in Nat /\ IsFiniteSet(Issued)
    BY ReqsAssumption, FS_Subset, FS_CardinalityType DEF Issued
  <2>3. \A x \in Reqs : x # r => ticket'[x] = ticket[x] /\ ticket[x] < t
    BY <2>1, <2>2 DEF TicketInv
  <2>4. ticket'[r] = t /\ t \in Nat \ {0}
    BY <2>1, <2>2
  <2>5. ~In(rejected, r) /\ ~In(PickedReqs, r) /\ ~In(waiting, r) /\ ~In(chan, r)
    BY <1>1, QueuedIn
  <2>6. \A x : In(chan', x) <=> In(chan, x) \/ x = r
    BY <2>1, InAppend
  <2>7. TicketInv'
    <3>1. Issued' = Issued \cup {r}
      <4>1. ticket'[r] > 0 /\ \A x \in Reqs : x # r => (ticket'[x] > 0 <=> ticket[x] > 0)
        BY <2>3, <2>4
      <4> QED
        BY <4>1 DEF Issued
    <3>2. r \notin Issued
      BY <1>1 DEF Issued
    <3>3. Cardinality(Issued') = t
      <4>1. Cardinality(Issued \cup {r}) = Cardinality(Issued) + 1
        BY <2>2, <3>2, FS_AddElement
      <4> QED
        BY <2>2, <3>1, <4>1
    <3>4. ASSUME NEW x \in Reqs PROVE ticket'[x] <= t /\ (answer'[x] = "new" => ticket'[x] = 0)
      BY <1>4, <2>1, <2>2, <2>3, <2>4 DEF TicketInv
    <3> QED
      BY <3>3, <3>4 DEF TicketInv
  <2>8. OneHome'
    <3>1. \A x : Queued(x)' <=> Queued(x) \/ x = r
      BY <2>1, <2>6, QueuedIn, QueuedNext
    <3> QED
      BY <1>1, <1>2, <1>4, <2>1, <3>1 DEF OneHome, IsActive, Submit
  <2> HIDE DEF t
  <2>9. \A q \in Seq(Reqs) : ~In(q, r) =>
          \A i \in DOMAIN q : q[i] \in Reqs /\ q[i] # r
    BY LenProperties, ElementOfSeq DEF In
  <2>10. \A q \in Seq(Reqs) : ~In(q, r) =>
           \A i \in DOMAIN q : ticket'[q[i]] = ticket[q[i]] /\ ticket[q[i]] < t
    BY <2>3, <2>9
  <2>11. Sorted(rejected)' /\ Sorted(PickedReqs)' /\ Sorted(waiting)'
    BY <2>1, <2>5, <2>10, SMTT(30) DEF QueueOrder, Sorted
  <2>12. AllBefore(rejected, PickedReqs)' /\ AllBefore(rejected, waiting)'
         /\ AllBefore(PickedReqs, waiting)'
    BY <2>1, <2>5, <2>10, SMTT(30) DEF QueueOrder, AllBefore
  <2>13. /\ Len(chan) \in Nat /\ DOMAIN chan = 1 .. Len(chan)
         /\ DOMAIN chan' = 1 .. (Len(chan) + 1)
         /\ \A i \in 1 .. Len(chan) : chan'[i] = chan[i]
         /\ chan'[Len(chan) + 1] = r
    BY <2>1, AppendProperties, LenProperties
  <2>14. Sorted(chan)'
    <3> SUFFICES ASSUME NEW i \in 1 .. (Len(chan) + 1), NEW j \in 1 .. (Len(chan) + 1), i < j
                 PROVE  ticket'[chan'[i]] < ticket'[chan'[j]]
      BY <2>13 DEF Sorted
    <3>1. i \in 1 .. Len(chan) /\ (j \in 1 .. Len(chan) \/ j = Len(chan) + 1)
      <4>1. \A n \in Nat : \A k, l \in 1 .. (n + 1) : k < l =>
              k \in 1 .. n /\ (l \in 1 .. n \/ l = n + 1)
        OBVIOUS
      <4> QED
        BY <2>13, <4>1
    <3>2. ticket'[chan'[i]] = ticket[chan[i]] /\ ticket[chan[i]] < t
      BY <2>5, <2>10, <2>13, <3>1
    <3>3. CASE j \in 1 .. Len(chan)
      <4>1. ticket'[chan'[j]] = ticket[chan[j]]
        BY <2>5, <2>10, <2>13, <3>3, ZenonT(30)
      <4>2. ticket[chan[i]] < ticket[chan[j]]
        BY <2>13, <3>1, <3>3 DEF QueueOrder, Sorted
      <4> QED
        BY <3>2, <4>1, <4>2
    <3>4. CASE j = Len(chan) + 1
      BY <2>4, <2>13, <3>2, <3>4
    <3> QED
      BY <3>1, <3>3, <3>4
  <2>15. ASSUME NEW q \in Seq(Reqs), ~In(q, r), AllBefore(q, chan)
         PROVE  \A i \in DOMAIN q, j \in DOMAIN chan' : ticket'[q[i]] < ticket'[chan'[j]]
    <3> SUFFICES ASSUME NEW i \in DOMAIN q, NEW j \in DOMAIN chan'
                 PROVE  ticket'[q[i]] < ticket'[chan'[j]]
      OBVIOUS
    <3>1. ticket'[q[i]] = ticket[q[i]] /\ ticket[q[i]] < t
      BY <2>10, <2>15
    <3>2. CASE j \in 1 .. Len(chan)
      <4>1. ticket'[chan'[j]] = ticket[chan[j]]
        BY <2>5, <2>10, <2>13, <3>2, ZenonT(40)
      <4>2. ticket[q[i]] < ticket[chan[j]]
        BY <2>13, <2>15, <3>2 DEF AllBefore
      <4> QED
        BY <3>1, <4>1, <4>2
    <3>3. CASE j = Len(chan) + 1
      BY <2>4, <2>13, <3>1, <3>3
    <3>4. \A n \in Nat : \A k \in 1 .. (n + 1) : k \in 1 .. n \/ k = n + 1
      OBVIOUS
    <3>5. j \in 1 .. Len(chan) \/ j = Len(chan) + 1
      BY <2>13, <3>4
    <3> QED
      BY <3>2, <3>3, <3>5
  <2>16. AllBefore(rejected, chan)' /\ AllBefore(PickedReqs, chan)' /\ AllBefore(waiting, chan)'
    BY <2>1, <2>5, <2>15 DEF QueueOrder, AllBefore
  <2> QED
    BY <1>3, <2>7, <2>8, <2>11, <2>12, <2>14, <2>16 DEF QueueOrder
<1>6. CASE ~(Len(chan) < Larger(QueueSize, 1))
  <2>1. UNCHANGED <<chan, waiting, picks, rejected, ticket>>
        /\ answer' = [answer EXCEPT ![r] = "refused"]
    BY <1>6 DEF Submit
  <2>2. QueueOrder' /\ \A x : Queued(x)' <=> Queued(x)
    BY <2>1, LineUnchanged
  <2>3. TicketInv'
    BY <1>4, <2>1, TicketsUnchanged
  <2>4. OneHome'
    BY <1>1, <1>2, <1>4, <2>1, <2>2 DEF OneHome, IsActive, Submit
  <2> QED
    BY <1>3, <2>2, <2>3, <2>4
<1> QED
  BY <1>5, <1>6

\* QueueOrder after a step that gives no arrival number.
LEMMA OrderNext ==
  ASSUME UNCHANGED ticket,
         Sorted(rejected'), Sorted(PickedReqs'), Sorted(waiting'), Sorted(chan'),
         AllBefore(rejected', PickedReqs'), AllBefore(rejected', waiting'),
         AllBefore(rejected', chan'), AllBefore(PickedReqs', waiting'),
         AllBefore(PickedReqs', chan'), AllBefore(waiting', chan')
  PROVE  QueueOrder'
BY DEF QueueOrder, Sorted, AllBefore

\* A step inside the line: no slot and no answer changes.
LEMMA SameHomes ==
  ASSUME OneHome, UNCHANGED <<slot, answer>>, \A r : Queued(r)' <=> Queued(r)
  PROVE  OneHome'
BY DEF OneHome, Running, IsActive

\* A request in the line is answered and leaves it; no slot changes hands.
LEMMA AnsweredAway ==
  ASSUME TypeOK, OneHome, \A s \in Slots : slot'[s].req = slot[s].req,
         NEW r \in Reqs, Queued(r),
         NEW a, a \notin {"new", "open"}, answer' = [answer EXCEPT ![r] = a],
         \A x : Queued(x)' <=> Queued(x) /\ x # r
  PROVE  OneHome' /\ \A x \in Reqs : answer'[x] = "new" => answer[x] = "new"
<1>1. \A x : Running(x)' <=> Running(x)
  BY DEF Running
<1>2. ~Running(r) /\ ~(Queued(r)')
  BY DEF OneHome
<1>3. answer'[r] = a /\ \A x \in Reqs : x # r => answer'[x] = answer[x]
  BY DEF TypeOK
<1> QED
  BY <1>1, <1>2, <1>3 DEF OneHome, IsActive

\* Recv: the oldest of the channel becomes the newest of waiting.
LEMMA RecvLine ==
  ASSUME LineInv, Recv
  PROVE  PassInv' /\ TicketInv' /\ QueueOrder' /\ OneHome'
<1> USE TypesOfLine DEF LineInv, envVars
<1>1. /\ chan # <<>> /\ chan' = Tail(chan) /\ waiting' = Append(waiting, Head(chan))
      /\ UNCHANGED <<picks, rejected, slot, answer, ticket, pc>> /\ PickedReqs' = PickedReqs
  BY DEF Recv, PickedReqs
<1>2. Head(chan) \in Reqs
  BY <1>1, HeadTailProperties
<1>3. \A r : In(waiting', r) <=> In(waiting, r) \/ r = Head(chan)
  BY <1>1, <1>2, InAppend
<1>4. \A r : In(chan, r) <=> In(chan', r) \/ r = Head(chan)
  BY <1>1, InTail
<1>5. Sorted(waiting')
  <2>1. \A y : In(waiting, y) => ticket[y] < ticket[Head(chan)]
    BY <1>4, BeforeIn DEF QueueOrder
  <2> QED
    BY <1>1, <1>2, <2>1, SortedAppend DEF QueueOrder
<1>6. Sorted(chan') /\ \A x : In(chan', x) => ticket[Head(chan)] < ticket[x]
  BY <1>1, SortedTail DEF QueueOrder
<1>7. /\ AllBefore(rejected', waiting') /\ AllBefore(rejected', chan')
      /\ AllBefore(PickedReqs', waiting') /\ AllBefore(PickedReqs', chan')
      /\ AllBefore(waiting', chan')
  BY <1>1, <1>3, <1>4, <1>6, BeforeIn DEF QueueOrder
<1>8. QueueOrder'
  <2>1. /\ Sorted(rejected') /\ Sorted(PickedReqs') /\ AllBefore(rejected', PickedReqs')
    BY <1>1 DEF QueueOrder
  <2> QED
    BY <1>1, <1>5, <1>6, <1>7, <2>1, OrderNext
<1>9. \A r : Queued(r)' <=> Queued(r)
  BY <1>1, <1>3, <1>4, QueuedIn, QueuedNext
<1>10. OneHome'
  BY <1>1, <1>9, SameHomes
<1>11. TicketInv'
  BY <1>1, TicketsUnchanged
<1>12. PassInv'
  BY <1>1 DEF PassInv
<1> QED
  BY <1>8, <1>10, <1>11, <1>12

\* JoinStart: the oldest waiting requests become the pass.
LEMMA JoinStartLine ==
  ASSUME LineInv, JoinStart
  PROVE  PassInv' /\ TicketInv' /\ QueueOrder' /\ OneHome'
<1> USE TypesOfLine DEF LineInv, envVars
<1> DEFINE idle == Slots \ ActiveSlots(slot)
           n == Smaller(Cardinality(idle), Len(waiting))
<1>1. PICK f \in Injection(1 .. n, idle) :
        /\ picks' = [i \in 1 .. n |-> [slot |-> f[i], req |-> waiting[i]]]
        /\ waiting' = SubSeq(waiting, n + 1, Len(waiting))
  BY DEF JoinStart
<1>2. /\ UNCHANGED <<chan, rejected, slot, answer, ticket>> /\ pc' = "bind"
      /\ picks = <<>> /\ rejected = <<>>
  BY DEF JoinStart, Goto, PassInv
<1>3. n \in 0 .. Len(waiting)
  <2>1. Cardinality(idle) \in Nat
    BY SlotsAssumption, FS_Subset, FS_CardinalityType
  <2>2. Len(waiting) \in Nat
    BY LenProperties
  <2> QED
    BY <2>1, <2>2 DEF Smaller
<1>4. f \in [1 .. n -> idle] /\ \A i, j \in 1 .. n : f[i] = f[j] => i = j
  BY DEF Injection, IsInjective
<1> HIDE DEF n
<1>5. DOMAIN picks' = 1 .. n
      /\ \A i \in 1 .. n : picks'[i].slot = f[i] /\ picks'[i].req = waiting[i]
  BY <1>1
<1>6. PickedReqs' = [i \in 1 .. n |-> waiting[i]]
  BY <1>5 DEF PickedReqs
<1>7. /\ Sorted(PickedReqs') /\ Sorted(waiting') /\ AllBefore(PickedReqs', waiting')
      /\ \A r : In(waiting, r) <=> In(PickedReqs', r) \/ In(waiting', r)
  <2>1. waiting \in Seq(Reqs) /\ Sorted(waiting)
    BY DEF QueueOrder
  <2>2. PickedReqs' = FirstOf(waiting, n) /\ waiting' = RestOf(waiting, n)
    BY <1>1, <1>6 DEF FirstOf, RestOf
  <2> QED
    BY <1>3, <2>1, <2>2, SortedSplit
<1>8. \A r : ~In(rejected, r) /\ ~In(PickedReqs, r)
  BY <1>2 DEF In, PickedReqs
<1>9. /\ AllBefore(PickedReqs', chan') /\ AllBefore(waiting', chan')
      /\ AllBefore(rejected', PickedReqs') /\ AllBefore(rejected', waiting')
      /\ AllBefore(rejected', chan')
  BY <1>2, <1>7, <1>8, BeforeIn DEF QueueOrder
<1>10. QueueOrder'
  <2>1. Sorted(rejected') /\ Sorted(chan')
    BY <1>2 DEF QueueOrder
  <2> QED
    BY <1>2, <1>7, <1>9, <2>1, OrderNext
<1>11. \A r : Queued(r)' <=> Queued(r)
  BY <1>2, <1>7, <1>8, QueuedIn, QueuedNext
<1>12. OneHome'
  BY <1>2, <1>11, SameHomes
<1>13. TicketInv'
  BY <1>2, TicketsUnchanged
<1>14. PassInv'
  BY <1>2, <1>4, <1>5 DEF PassInv, ActiveSlots
<1> QED
  BY <1>10, <1>12, <1>13, <1>14

\* The pair at the head of the pass is taken off.
LEMMA HeadTaken ==
  ASSUME LineInv, picks # <<>>, picks' = Tail(picks)
  PROVE  /\ \A r : In(PickedReqs, r) <=> In(PickedReqs', r) \/ r = PickedReq
         /\ Sorted(PickedReqs')
         /\ \A x : In(PickedReqs', x) => ticket[PickedReq] < ticket[x]
         /\ PickedReq \in Reqs /\ In(PickedReqs, PickedReq)
         /\ pc = "bind"
         /\ ~IsActive(slot[Head(picks).slot])
         /\ \A i \in DOMAIN picks' : /\ ~IsActive(slot[picks'[i].slot])
                                     /\ picks'[i].slot # Head(picks).slot
         /\ \A i, j \in DOMAIN picks' : picks'[i].slot = picks'[j].slot => i = j
<1> USE TypesOfLine DEF LineInv
<1>1. /\ PickedReqs \in Seq(Reqs) /\ PickedReqs # <<>> /\ Head(PickedReqs) = PickedReq
      /\ PickedReq \in Reqs /\ DOMAIN picks = 1 .. Len(picks) /\ Len(picks) \in Nat
      /\ Head(picks) = picks[1] /\ 1 \in 1 .. Len(picks)
  BY PickedReqsType
<1>2. /\ PickedReqs' = Tail(PickedReqs) /\ Len(picks') = Len(picks) - 1
      /\ \A i \in 1 .. Len(picks') : picks'[i] = picks[i + 1] /\ i + 1 \in 1 .. Len(picks)
  BY PickedReqsTail
<1>3. DOMAIN picks' = 1 .. Len(picks')
  BY HeadTailProperties, LenProperties
<1>4. \A r : In(PickedReqs, r) <=> In(PickedReqs', r) \/ r = PickedReq
  BY <1>1, <1>2, InTail
<1>5. Sorted(PickedReqs') /\ \A x : In(PickedReqs', x) => ticket[PickedReq] < ticket[x]
  BY <1>1, <1>2, SortedTail DEF QueueOrder
<1>6. \A i \in 1 .. Len(picks') : i + 1 # 1
  BY <1>1, <1>2
<1>7. pc = "bind"
  BY DEF PassInv
<1>8. ASSUME NEW i \in DOMAIN picks'
      PROVE  ~IsActive(slot[picks'[i].slot]) /\ picks'[i].slot # Head(picks).slot
  <2>1. picks'[i] = picks[i + 1] /\ i + 1 \in DOMAIN picks /\ 1 \in DOMAIN picks /\ i + 1 # 1
    BY <1>1, <1>2, <1>3, <1>6
  <2>2. /\ ~IsActive(slot[picks[i + 1].slot])
        /\ picks[i + 1].slot = picks[1].slot => i + 1 = 1
    BY <2>1 DEF PassInv
  <2> QED
    BY <1>1, <2>1, <2>2
<1>9. ASSUME NEW i \in DOMAIN picks', NEW j \in DOMAIN picks', picks'[i].slot = picks'[j].slot
      PROVE  i = j
  <2>1. /\ picks'[i] = picks[i + 1] /\ i + 1 \in DOMAIN picks
        /\ picks'[j] = picks[j + 1] /\ j + 1 \in DOMAIN picks
    BY <1>1, <1>2, <1>3
  <2>2. i + 1 = j + 1
    BY <1>9, <2>1 DEF PassInv
  <2> QED
    BY <1>1, <1>2, <1>3, <2>2
<1>10. ~IsActive(slot[Head(picks).slot])
  BY <1>1 DEF PassInv
<1> QED
  BY <1>1, <1>4, <1>5, <1>7, <1>8, <1>9, <1>10

\* The request at the head of the pass is in the line and in no slot.
LEMMA HeadQueued ==
  ASSUME LineInv, picks # <<>>
  PROVE  PickedReq \in Reqs /\ Queued(PickedReq)
<1>1. picks[1].req = PickedReq /\ 1 \in DOMAIN picks /\ PickedReq \in Reqs
  BY PickedReqsType, TypesOfLine DEF PickedReq, LineInv
<1>2. In(PickedReqs, PickedReq)
  BY <1>1 DEF In, PickedReqs
<1> QED
  BY <1>1, <1>2, QueuedIn

\* The request at the head of the pass leaves the line.
LEMMA HeadLeaves ==
  ASSUME LineInv, picks # <<>>, picks' = Tail(picks),
         UNCHANGED <<chan, waiting, rejected, ticket>>
  PROVE  QueueOrder' /\ \A x : Queued(x)' <=> Queued(x) /\ x # PickedReq
<1> USE TypesOfLine DEF LineInv
<1>1. /\ \A r : In(PickedReqs, r) <=> In(PickedReqs', r) \/ r = PickedReq
      /\ Sorted(PickedReqs')
      /\ \A x : In(PickedReqs', x) => ticket[PickedReq] < ticket[x]
      /\ PickedReq \in Reqs /\ In(PickedReqs, PickedReq)
  BY HeadTaken
<1>2. ~In(PickedReqs', PickedReq)
  <2>1. ~(ticket[PickedReq] < ticket[PickedReq])
    BY <1>1
  <2> QED
    BY <1>1, <2>1
<1>3. ~In(rejected, PickedReq) /\ ~In(waiting, PickedReq) /\ ~In(chan, PickedReq)
  <2>1. /\ AllBefore(rejected, PickedReqs) /\ AllBefore(PickedReqs, waiting)
        /\ AllBefore(PickedReqs, chan)
    BY DEF QueueOrder
  <2> QED
    BY <1>1, <2>1, Apart
<1>4. /\ AllBefore(rejected', PickedReqs') /\ AllBefore(PickedReqs', waiting')
      /\ AllBefore(PickedReqs', chan')
  BY <1>1, BeforeIn DEF QueueOrder
<1>5. QueueOrder'
  <2>1. /\ Sorted(rejected') /\ Sorted(waiting') /\ Sorted(chan')
        /\ AllBefore(rejected', waiting') /\ AllBefore(rejected', chan')
        /\ AllBefore(waiting', chan')
    BY DEF QueueOrder
  <2> QED
    BY <1>1, <1>4, <2>1, OrderNext
<1>6. \A x : Queued(x)' <=> Queued(x) /\ x # PickedReq
  BY <1>1, <1>2, <1>3, QueuedIn, QueuedNext
<1> QED
  BY <1>5, <1>6

\* The rest of the pass still points at distinct idle slots.
LEMMA HeadPass ==
  ASSUME LineInv, picks # <<>>, picks' = Tail(picks), UNCHANGED pc,
         \A s \in Slots : s # Head(picks).slot => slot'[s].req = slot[s].req
  PROVE  PassInv'
<1>1. /\ pc = "bind"
      /\ \A i \in DOMAIN picks' : /\ ~IsActive(slot[picks'[i].slot])
                                  /\ picks'[i].slot # Head(picks).slot
      /\ \A i, j \in DOMAIN picks' : picks'[i].slot = picks'[j].slot => i = j
  BY HeadTaken
<1>2. \A i \in DOMAIN picks' : picks'[i].slot \in Slots
  <2>1. picks' \in Seq([slot : Slots, req : Reqs])
    BY HeadTailProperties DEF LineInv, TypeOK
  <2>2. \A i \in DOMAIN picks' : picks'[i] \in [slot : Slots, req : Reqs]
    BY <2>1, LenProperties, ElementOfSeq
  <2> QED
    BY <2>2
<1> QED
  BY <1>1, <1>2 DEF PassInv, IsActive

\* Defer: the head of the pass becomes the newest of the rejected.
LEMMA DeferLine ==
  ASSUME LineInv, Defer
  PROVE  PassInv' /\ TicketInv' /\ QueueOrder' /\ OneHome'
<1> USE TypesOfLine DEF LineInv, envVars
<1>1. /\ picks # <<>> /\ picks' = Tail(picks) /\ rejected' = Append(rejected, PickedReq)
      /\ UNCHANGED <<chan, waiting, slot, answer, ticket, pc>>
  BY DEF Defer
<1>2. /\ \A r : In(PickedReqs, r) <=> In(PickedReqs', r) \/ r = PickedReq
      /\ Sorted(PickedReqs')
      /\ \A x : In(PickedReqs', x) => ticket[PickedReq] < ticket[x]
      /\ PickedReq \in Reqs /\ pc = "bind"
  BY <1>1, HeadTaken
<1>3. \A r : In(rejected', r) <=> In(rejected, r) \/ r = PickedReq
  BY <1>1, <1>2, InAppend
<1>4. Sorted(rejected')
  <2>1. \A y : In(rejected, y) => ticket[y] < ticket[PickedReq]
    BY <1>2, BeforeIn DEF QueueOrder
  <2> QED
    BY <1>1, <1>2, <2>1, SortedAppend DEF QueueOrder
<1>5. /\ AllBefore(rejected', PickedReqs') /\ AllBefore(rejected', waiting')
      /\ AllBefore(rejected', chan') /\ AllBefore(PickedReqs', waiting')
      /\ AllBefore(PickedReqs', chan')
  BY <1>1, <1>2, <1>3, BeforeIn DEF QueueOrder
<1>6. QueueOrder'
  <2>1. Sorted(waiting') /\ Sorted(chan') /\ AllBefore(waiting', chan')
    BY <1>1 DEF QueueOrder
  <2> QED
    BY <1>1, <1>2, <1>4, <1>5, <2>1, OrderNext
<1>7. \A r : Queued(r)' <=> Queued(r)
  BY <1>1, <1>2, <1>3, QueuedIn, QueuedNext
<1>8. OneHome'
  BY <1>1, <1>7, SameHomes
<1>9. TicketInv'
  BY <1>1, TicketsUnchanged
<1>10. PassInv'
  BY <1>1, <1>2, HeadTaken DEF PassInv
<1> QED
  BY <1>6, <1>8, <1>9, <1>10

\* ExpireOne: a waiting request is answered and leaves the line.
LEMMA ExpireOneLine ==
  ASSUME LineInv, NEW i \in DOMAIN waiting, ExpireOne(i)
  PROVE  PassInv' /\ TicketInv' /\ QueueOrder' /\ OneHome'
<1> USE TypesOfLine DEF LineInv, envVars
<1> DEFINE r == waiting[i]
<1>1. /\ waiting' = [j \in 1 .. (Len(waiting) - 1) |->
                      IF j < i THEN waiting[j] ELSE waiting[j + 1]]
      /\ answer' = [answer EXCEPT ![r] = "Timeout"]
      /\ UNCHANGED <<chan, picks, rejected, slot, ticket, pc>> /\ PickedReqs' = PickedReqs
  BY DEF ExpireOne, PickedReqs
<1>2. In(waiting, r) /\ r \in Reqs
  BY InReqs DEF In
<1>3. Sorted(waiting') /\ \A x : In(waiting', x) <=> In(waiting, x) /\ x # r
  <2>1. waiting' = Dropped(waiting, i) /\ Sorted(waiting)
    BY <1>1 DEF Dropped, QueueOrder
  <2> QED
    BY <2>1, SortedDrop
<1> HIDE DEF r
<1>4. ~In(rejected, r) /\ ~In(PickedReqs, r) /\ ~In(chan, r)
  <2>1. /\ AllBefore(rejected, waiting) /\ AllBefore(PickedReqs, waiting)
        /\ AllBefore(waiting, chan)
    BY DEF QueueOrder
  <2> QED
    BY <1>2, <2>1, Apart
<1>5. /\ AllBefore(rejected', waiting') /\ AllBefore(PickedReqs', waiting')
      /\ AllBefore(waiting', chan')
  BY <1>1, <1>3, BeforeIn DEF QueueOrder
<1>6. QueueOrder'
  <2>1. /\ Sorted(rejected') /\ Sorted(PickedReqs') /\ Sorted(chan')
        /\ AllBefore(rejected', PickedReqs') /\ AllBefore(rejected', chan')
        /\ AllBefore(PickedReqs', chan')
    BY <1>1 DEF QueueOrder
  <2> QED
    BY <1>1, <1>3, <1>5, <2>1, OrderNext
<1>7. \A x : Queued(x)' <=> Queued(x) /\ x # r
  BY <1>1, <1>3, <1>4, QueuedIn, QueuedNext
<1>8. Queued(r)
  BY <1>2, QueuedIn
<1>9. OneHome' /\ \A x \in Reqs : answer'[x] = "new" => answer[x] = "new"
  BY <1>1, <1>2, <1>7, <1>8, AnsweredAway
<1>10. TicketInv'
  BY <1>1, <1>9, TicketsUnchanged
<1>11. PassInv'
  BY <1>1 DEF PassInv
<1> QED
  BY <1>6, <1>9, <1>10, <1>11

\* What BindFails and VisionFails do to the line: the request at the head
\* of the pass is answered.
LEMMA HeadFails ==
  ASSUME LineInv, picks # <<>>, picks' = Tail(picks),
         answer' = [answer EXCEPT ![PickedReq] = "Failed"],
         UNCHANGED <<chan, waiting, rejected, ticket, pc>>,
         \A s \in Slots : slot'[s].req = slot[s].req
  PROVE  PassInv' /\ TicketInv' /\ QueueOrder' /\ OneHome'
<1> USE TypesOfLine DEF LineInv
<1>1. QueueOrder' /\ \A x : Queued(x)' <=> Queued(x) /\ x # PickedReq
  BY HeadLeaves
<1>2. Queued(PickedReq) /\ PickedReq \in Reqs
  BY HeadTaken, QueuedIn
<1>3. OneHome' /\ \A x \in Reqs : answer'[x] = "new" => answer[x] = "new"
  BY <1>1, <1>2, AnsweredAway
<1>4. TicketInv'
  BY <1>3, TicketsUnchanged
<1>5. PassInv'
  BY HeadPass
<1> QED
  BY <1>1, <1>3, <1>4, <1>5

\* BindFails: the head of the pass is answered.
LEMMA BindFailsLine ==
  ASSUME LineInv, BindFails
  PROVE  PassInv' /\ TicketInv' /\ QueueOrder' /\ OneHome'
BY HeadFails DEF BindFails, envVars

\* A bind of an image request that fails is a bind of the head of the pass, and
\* moves no request into or out of a slot.
LEMMA VisionFailsKeeps ==
  ASSUME LineInv, NEW s \in Slots, NEW r \in Reqs, VisionFails(s, r)
  PROVE  /\ picks # <<>> /\ picks' = Tail(picks) /\ PickedReq = r
         /\ answer' = [answer EXCEPT ![r] = "Failed"]
         /\ UNCHANGED <<chan, waiting, rejected, ticket, cancelled, elapsed, failed, plan, pc>>
         /\ ~IsActive(slot[s]) /\ pc = "bind"
         /\ slot[s].phase = "Empty" => slot'[s].phase = "Empty"
         /\ \A t \in Slots : slot'[t].req = slot[t].req
         /\ \A t \in Slots \ {s} : slot'[t] = slot[t]
<1>1. slot \in [Slots -> SlotRec]
  BY DEF LineInv, TypeOK
<1>2. PICK left \in Leavings(slot[s]) : VisionBindFails(s, r, left)
  BY VisionFailsLeaves DEF LineInv
<1>3. /\ picks # <<>> /\ picks' = Tail(picks) /\ Head(picks).slot = s /\ PickedReq = r
      /\ answer' = [answer EXCEPT ![r] = "Failed"]
      /\ slot' = [slot EXCEPT ![s] = left] /\ pc = "bind"
      /\ UNCHANGED <<chan, waiting, rejected, ticket, cancelled, elapsed, failed, plan, pc>>
  BY <1>2 DEF VisionBindFails, Bindable, PickedReq, envVars
<1>4. ~IsActive(slot[s])
  BY <1>3, HeadTaken
<1>5. slot[s].req = NoReq /\ left.req = NoReq
  BY <1>2, <1>4 DEF Leavings, IsActive
<1>6. slot[s].phase = "Empty" => left.phase = "Empty"
  BY <1>2 DEF Leavings
<1> QED
  BY <1>1, <1>3, <1>4, <1>5, <1>6

\* The head of the pass is answered.
LEMMA VisionFailsLine ==
  ASSUME LineInv, NEW s \in Slots, NEW r \in Reqs, VisionFails(s, r)
  PROVE  PassInv' /\ TicketInv' /\ QueueOrder' /\ OneHome'
BY VisionFailsKeeps, HeadFails

\* Bind puts the request in the slot it was paired with, and in no other.
LEMMA BindTakes ==
  ASSUME LineInv, NEW s \in Slots, NEW r \in Reqs, Bind(s, r)
  PROVE  /\ slot'[s].req = r /\ slot[s].req = NoReq
         /\ \A t \in Slots : t # s => slot'[t].req = slot[t].req
<1> USE TypesOfLine DEF LineInv
<1>1. PICK sl \in BoundSlots(r) : slot' = RecomputeSlotCaps([slot EXCEPT ![s] = sl])
  BY DEF Bind
<1>2. sl \in SlotRec /\ sl.req = r
  BY BoundSlotsType
<1>3. [slot EXCEPT ![s] = sl] \in [Slots -> SlotRec]
  BY <1>2
<1>4. ~IsActive(slot[s])
  BY HeadTaken DEF Bind, Bindable
<1> QED
  BY <1>1, <1>2, <1>3, <1>4, RecomputeReq DEF IsActive

\* Bind: the head of the pass goes from the line into its idle slot.
LEMMA BindLine ==
  ASSUME LineInv, NEW s \in Slots, NEW r \in Reqs, Bind(s, r)
  PROVE  PassInv' /\ TicketInv' /\ QueueOrder' /\ OneHome'
<1> USE TypesOfLine DEF LineInv
<1>1. /\ picks # <<>> /\ picks' = Tail(picks) /\ PickedReq = r /\ Head(picks).slot = s
      /\ UNCHANGED <<chan, waiting, rejected, answer, ticket, pc>>
  BY DEF Bind, Bindable, PickedReq
<1>5. slot'[s].req = r /\ \A t \in Slots : t # s => slot'[t].req = slot[t].req
  BY BindTakes
<1>6. QueueOrder' /\ \A x : Queued(x)' <=> Queued(x) /\ x # r
  BY <1>1, HeadLeaves
<1>7. Queued(r) /\ ~IsActive(slot[s])
  BY <1>1, HeadTaken, QueuedIn
<1>8. ~Running(r) /\ answer[r] = "open" /\ slot[s].req = NoReq
  BY <1>7 DEF OneHome, IsActive
<1>9. \A x \in Reqs : Running(x)' <=> Running(x) \/ x = r
  BY <1>5, <1>8, ReqsAssumption DEF Running
<1>10. OneHome'
  <2>1. \A x \in Reqs : answer'[x] = "open" <=> Queued(x)' \/ Running(x)'
    BY <1>1, <1>6, <1>8, <1>9 DEF OneHome
  <2>2. \A x \in Reqs : ~(Queued(x)' /\ Running(x)')
    BY <1>6, <1>8, <1>9 DEF OneHome
  <2>3. ASSUME NEW t \in Slots, NEW u \in Slots, slot'[t].req # NoReq,
               slot'[t].req = slot'[u].req
        PROVE  t = u
    <3>1. \A v \in Slots : slot[v].req # r
      BY <1>8 DEF Running
    <3>2. CASE t = s \/ u = s
      BY <1>5, <2>3, <3>1, <3>2
    <3>3. CASE t # s /\ u # s
      BY <1>5, <2>3, <3>3 DEF OneHome, IsActive
    <3> QED
      BY <3>2, <3>3
  <2> QED
    BY <2>1, <2>2, <2>3 DEF OneHome, IsActive
<1>11. TicketInv'
  BY <1>1, TicketsUnchanged
<1>12. PassInv'
  BY <1>1, <1>5, HeadPass
<1> QED
  BY <1>6, <1>10, <1>11, <1>12

\* JoinDone: the rejected go back before the waiting, which are all newer.
LEMMA JoinDoneLine ==
  ASSUME LineInv, JoinDone
  PROVE  PassInv' /\ TicketInv' /\ QueueOrder' /\ OneHome'
<1> USE TypesOfLine DEF LineInv, envVars
<1>1. /\ picks = <<>> /\ picks' = <<>> /\ waiting' = rejected \o waiting /\ rejected' = <<>>
      /\ slot' = RecomputeSlotCaps(slot)
      /\ UNCHANGED <<chan, answer, ticket>> /\ PickedReqs' = PickedReqs
  BY DEF JoinDone, PickedReqs
<1>2. \A r : In(waiting', r) <=> In(rejected, r) \/ In(waiting, r)
  BY <1>1, InConcat
<1>3. \A r : ~In(rejected', r) /\ ~In(PickedReqs', r)
  BY <1>1 DEF In, PickedReqs
<1>4. Sorted(waiting')
  BY <1>1, SortedConcat DEF QueueOrder
<1>5. /\ AllBefore(rejected', PickedReqs') /\ AllBefore(rejected', waiting')
      /\ AllBefore(rejected', chan') /\ AllBefore(PickedReqs', waiting')
      /\ AllBefore(PickedReqs', chan') /\ AllBefore(waiting', chan')
  <2>1. \A x, y : In(waiting', x) /\ In(chan', y) => ticket[x] < ticket[y]
    BY <1>1, <1>2, BeforeIn DEF QueueOrder
  <2> QED
    BY <1>3, <2>1, BeforeIn
<1>6. QueueOrder'
  <2>1. Sorted(rejected') /\ Sorted(PickedReqs') /\ Sorted(chan')
    BY <1>1 DEF QueueOrder, Sorted
  <2> QED
    BY <1>1, <1>4, <1>5, <2>1, OrderNext
<1>7. \A r : Queued(r)' <=> Queued(r)
  <2>1. \A r : ~In(PickedReqs, r)
    BY <1>1, <1>3
  <2> QED
    BY <1>1, <1>2, <1>3, <2>1, QueuedIn, QueuedNext
<1>8. \A s \in Slots : slot'[s].req = slot[s].req
  BY <1>1, RecomputeReq
<1>9. OneHome'
  <2>1. \A r : Running(r)' <=> Running(r)
    BY <1>8 DEF Running
  <2> QED
    BY <1>1, <1>7, <1>8, <2>1 DEF OneHome, IsActive
<1>10. TicketInv'
  BY <1>1, TicketsUnchanged
<1>11. PassInv'
  BY <1>1 DEF PassInv
<1> QED
  BY <1>6, <1>9, <1>10, <1>11

-----------------------------------------------------------------------------
(* The actions that answer running requests.                                *)

\* The answers a running request may get.
Ended(r) ==
  \/ answer'[r] \in {"Stop", "Length", "Failed", "Lost"}
  \/ answer'[r] = "Cancelled" /\ r \in cancelled
  \/ answer'[r] = "Timeout" /\ r \in elapsed

\* The slots in `gone' are given up and their requests answered.
GivenUp(gone) ==
  /\ \A s \in Slots : slot'[s].req = IF s \in gone THEN NoReq ELSE slot[s].req
  /\ \A r \in Reqs : IF \E s \in gone : slot[s].req = r
                     THEN Ended(r) ELSE answer'[r] = answer[r]

\* What Leaving leaves to show: the line is as it was.
LEMMA Departed ==
  ASSUME LineInv, UNCHANGED queueVars, UNCHANGED ticket, pc # "bind",
         NEW gone \in SUBSET Slots, GivenUp(gone)
  PROVE  PassInv' /\ TicketInv' /\ QueueOrder' /\ OneHome'
<1>1. OneHome' /\ (\A r \in Reqs : answer'[r] = "new" => answer[r] = "new")
  BY Leaving DEF LineInv, GivenUp, Ended
<1>2. QueueOrder'
  BY LineUnchanged DEF LineInv, queueVars
<1>3. TicketInv'
  BY <1>1, TicketsUnchanged DEF LineInv
<1>4. PassInv'
  BY DEF LineInv, PassInv, queueVars
<1> QED
  BY <1>1, <1>2, <1>3, <1>4

\* Cancelled and overdue requests.
LEMMA EvictCancelledGivesUp ==
  ASSUME LineInv, EvictCancelled
  PROVE  GivenUp({s \in Slots : ToEvict(slot[s])})
<1> USE TypesOfLine DEF LineInv
<1> DEFINE gone == {s \in Slots : ToEvict(slot[s])}
<1>1. ASSUME NEW r \in Reqs
      PROVE  IF \E s \in gone : slot[s].req = r
             THEN Ended(r) ELSE answer'[r] = answer[r]
  <2> DEFINE at == CHOOSE s \in Slots : slot[s].req = r /\ ToEvict(slot[s])
  <2>1. answer'[r] = IF \E s \in Slots : slot[s].req = r /\ ToEvict(slot[s])
                     THEN IF slot[at].req \in cancelled THEN "Cancelled" ELSE "Timeout" ELSE answer[r]
    BY DEF EvictCancelled, AnsweredBy
  <2>2. CASE \E s \in gone : slot[s].req = r
    <3>1. (\E s \in Slots : slot[s].req = r /\ ToEvict(slot[s])) /\ at \in gone
          /\ slot[at].req = r
      BY <2>2
    <3> HIDE DEF at
    <3> QED
      BY <2>1, <2>2, <3>1 DEF Ended, ToEvict
  <2>3. CASE ~\E s \in gone : slot[s].req = r
    BY <2>1, <2>3
  <2> QED
    BY <2>2, <2>3
<1>2. \A s \in Slots : slot'[s].req = IF s \in gone THEN NoReq ELSE slot[s].req
  <2>1. \A s \in Slots : slot[s] \in SlotRec /\ (IsActive(slot[s]) => slot[s].req \in Reqs)
    BY DEF SlotRec, IsActive
  <2> DEFINE left == [s \in Slots |-> IF ToEvict(slot[s]) THEN FinishSlot(slot[s]) ELSE slot[s]]
  <2>2. left \in [Slots -> SlotRec]
    BY <2>1, FinishSlotType DEF ToEvict
  <2>3. \A s \in Slots : left[s].req = IF s \in gone THEN NoReq ELSE slot[s].req
    BY <2>1, FinishSlotType DEF ToEvict
  <2>4. slot' = ReleaseRetained(left)
    BY DEF EvictCancelled
  <2> HIDE DEF left, gone
  <2> QED
    BY <2>2, <2>3, <2>4, ReleaseRetainedType
<1> QED
  BY <1>1, <1>2 DEF GivenUp

\* EvictCancelled keeps the invariant.
LEMMA EvictCancelledLine ==
  ASSUME LineInv, EvictCancelled
  PROVE  PassInv' /\ TicketInv' /\ QueueOrder' /\ OneHome'
BY EvictCancelledGivesUp, Departed DEF EvictCancelled, Goto, envVars

\* Requests that have generated their answer.
LEMMA EvictFinishedGivesUp ==
  ASSUME LineInv, EvictFinished
  PROVE  GivenUp({s \in Slots : IsFinished(slot[s])})
<1> USE TypesOfLine DEF LineInv
<1> DEFINE gone == {s \in Slots : IsFinished(slot[s])}
<1>1. ASSUME NEW r \in Reqs
      PROVE  IF \E s \in gone : slot[s].req = r
             THEN Ended(r) ELSE answer'[r] = answer[r]
  <2> DEFINE at == CHOOSE s \in Slots : slot[s].req = r /\ IsFinished(slot[s])
  <2>1. answer'[r] = IF \E s \in Slots : slot[s].req = r /\ IsFinished(slot[s])
                     THEN (IF slot[at].finish = "Failed" THEN "Stop" ELSE slot[at].finish)
                     ELSE answer[r]
    BY DEF EvictFinished, AnsweredBy
  <2>2. CASE \E s \in gone : slot[s].req = r
    <3>1. (\E s \in Slots : slot[s].req = r /\ IsFinished(slot[s])) /\ at \in gone
          /\ slot[at].req = r
      BY <2>2
    <3> HIDE DEF at
    <3> QED
      BY <2>1, <2>2, <3>1, TypesOfLine DEF Ended, IsFinished, SlotRec
  <2>3. CASE ~\E s \in gone : slot[s].req = r
    BY <2>1, <2>3
  <2> QED
    BY <2>2, <2>3
<1>2. \A s \in Slots : slot'[s].req = IF s \in gone THEN NoReq ELSE slot[s].req
  <2>1. \A s \in Slots : slot[s] \in SlotRec /\ (IsActive(slot[s]) => slot[s].req \in Reqs)
    BY DEF SlotRec, IsActive
  <2> DEFINE left == [s \in Slots |-> IF IsFinished(slot[s]) THEN FinishSlot(slot[s]) ELSE slot[s]]
  <2>2. left \in [Slots -> SlotRec]
    BY <2>1, FinishSlotType DEF IsFinished
  <2>3. \A s \in Slots : left[s].req = IF s \in gone THEN NoReq ELSE slot[s].req
    BY <2>1, FinishSlotType DEF IsFinished
  <2>4. slot' = RecomputeSlotCaps(ReleaseRetained(left))
    BY DEF EvictFinished
  <2> HIDE DEF left, gone
  <2> QED
    BY <2>2, <2>3, <2>4, ReleaseRetainedType, RecomputeReq, ZenonT(30)
<1> QED
  BY <1>1, <1>2 DEF GivenUp

\* EvictFinished keeps the invariant.
LEMMA EvictFinishedLine ==
  ASSUME LineInv, EvictFinished
  PROVE  PassInv' /\ TicketInv' /\ QueueOrder' /\ OneHome'
BY EvictFinishedGivesUp, Departed DEF EvictFinished, Goto, envVars

\* A failed llama_decode.
LEMMA GpuFailsGivesUp ==
  ASSUME LineInv, GpuFails
  PROVE  GivenUp({s \in Slots : IsActive(slot[s])})
<1> USE TypesOfLine DEF LineInv
<1> DEFINE gone == {s \in Slots : IsActive(slot[s])}
<1>1. ASSUME NEW r \in Reqs
      PROVE  IF \E s \in gone : slot[s].req = r
             THEN Ended(r) ELSE answer'[r] = answer[r]
  <2> DEFINE at == CHOOSE s \in Slots : slot[s].req = r /\ IsActive(slot[s])
  <2>1. answer'[r] = IF \E s \in Slots : slot[s].req = r /\ IsActive(slot[s])
                     THEN "Failed" ELSE answer[r]
    BY DEF GpuFails, AnsweredBy
  <2>2. CASE \E s \in gone : slot[s].req = r
    <3>1. (\E s \in Slots : slot[s].req = r /\ IsActive(slot[s])) /\ at \in gone
          /\ slot[at].req = r
      BY <2>2
    <3> HIDE DEF at
    <3> QED
      BY <2>1, <2>2, <3>1 DEF Ended, IsActive
  <2>3. CASE ~\E s \in gone : slot[s].req = r
    BY <2>1, <2>3
  <2> QED
    BY <2>2, <2>3
<1>2. \A s \in Slots : slot'[s].req = IF s \in gone THEN NoReq ELSE slot[s].req
  <2>1. slot' = [s \in Slots |-> IF IsActive(slot[s]) THEN Vacant ELSE slot[s]]
    BY DEF GpuFails
  <2> QED
    BY <2>1 DEF Vacant
<1> QED
  BY <1>1, <1>2 DEF GivenUp

\* GpuFails keeps the invariant.
LEMMA GpuFailsLine ==
  ASSUME LineInv, GpuFails
  PROVE  PassInv' /\ TicketInv' /\ QueueOrder' /\ OneHome'
BY GpuFailsGivesUp, Departed DEF GpuFails, Goto, envVars

\* A panic of the blocking worker.
LEMMA GpuPanicsGivesUp ==
  ASSUME LineInv, GpuPanics
  PROVE  GivenUp({s \in Slots : IsActive(slot[s])})
<1> USE TypesOfLine DEF LineInv
<1> DEFINE gone == {s \in Slots : IsActive(slot[s])}
<1>1. ASSUME NEW r \in Reqs
      PROVE  IF \E s \in gone : slot[s].req = r
             THEN Ended(r) ELSE answer'[r] = answer[r]
  <2> DEFINE at == CHOOSE s \in Slots : slot[s].req = r /\ IsActive(slot[s])
  <2>1. answer'[r] = IF \E s \in Slots : slot[s].req = r /\ IsActive(slot[s])
                     THEN "Lost" ELSE answer[r]
    BY DEF GpuPanics, AnsweredBy
  <2>2. CASE \E s \in gone : slot[s].req = r
    <3>1. (\E s \in Slots : slot[s].req = r /\ IsActive(slot[s])) /\ at \in gone
          /\ slot[at].req = r
      BY <2>2
    <3> HIDE DEF at
    <3> QED
      BY <2>1, <2>2, <3>1 DEF Ended, IsActive
  <2>3. CASE ~\E s \in gone : slot[s].req = r
    BY <2>1, <2>3
  <2> QED
    BY <2>2, <2>3
<1>2. \A s \in Slots : slot'[s].req = IF s \in gone THEN NoReq ELSE slot[s].req
  <2>1. PICK decoded \in BOOLEAN :
          slot' = [s \in Slots |->
            [Vacant EXCEPT !.kv = slot[s].kv + IF decoded THEN plan[s] ELSE 0]]
    BY DEF GpuPanics
  <2>2. \A c : [Vacant EXCEPT !.kv = c].req = NoReq
    BY DEF Vacant
  <2>3. \A s \in Slots : slot'[s].req = NoReq
    BY <2>1, <2>2
  <2> QED
    BY <2>3 DEF IsActive
<1> QED
  BY <1>1, <1>2 DEF GivenUp

\* GpuPanics keeps the invariant.
LEMMA GpuPanicsLine ==
  ASSUME LineInv, GpuPanics
  PROVE  PassInv' /\ TicketInv' /\ QueueOrder' /\ OneHome'
BY GpuPanicsGivesUp, Departed DEF GpuPanics, Goto, envVars

-----------------------------------------------------------------------------
(* Steps that touch neither the line nor the answers.                       *)

\* llama_decode and sampling move no request.
LEMMA GpuStepKeeps ==
  ASSUME LineInv, GpuStep
  PROVE  \A s \in Slots : slot'[s].req = slot[s].req
<1>1. PICK f \in [Slots -> UNION {AfterGpu(slot[s], plan[s]) : s \in Slots}] :
        slot' = f /\ \A s \in Slots : f[s] \in AfterGpu(slot[s], plan[s])
  BY DEF GpuStep
<1> QED
  BY <1>1, AfterGpuType DEF LineInv, TypeOK, SameRequest

\* The steps that touch neither the line nor any answer.
LEMMA QuietLine ==
  ASSUME LineInv,
         \/ DrainDone \/ ExpireDone \/ PlanPrefill \/ PlanDecode \/ PlanEmpty \/ Idle
         \/ GpuStep
  PROVE  PassInv' /\ TicketInv' /\ QueueOrder' /\ OneHome'
<1> USE DEF envVars, queueVars, Goto
<1>1. CASE DrainDone \/ ExpireDone \/ PlanPrefill \/ PlanDecode \/ PlanEmpty \/ Idle
  <2>1. /\ UNCHANGED <<chan, waiting, picks, rejected, ticket, answer, slot>>
        /\ pc # "bind"
    BY <1>1 DEF DrainDone, ExpireDone, PlanPrefill, PlanDecode, PlanEmpty, Idle
  <2> QED
    BY <2>1, SameSlots
<1>2. CASE GpuStep
  <2>1. /\ UNCHANGED <<chan, waiting, picks, rejected, ticket, answer>>
        /\ pc # "bind"
    BY <1>2 DEF GpuStep
  <2> QED
    BY <1>2, <2>1, GpuStepKeeps, SameSlots
<1> QED
  BY <1>1, <1>2

\* A cancellation, a timer and a stuttering step may come in the middle of a pass.
LEMMA OutsideLine ==
  ASSUME LineInv,
         UNCHANGED <<chan, waiting, picks, rejected, slot, answer, ticket, pc>>
  PROVE  PassInv' /\ TicketInv' /\ QueueOrder' /\ OneHome'
<1>1. QueueOrder' /\ \A r : Queued(r)' <=> Queued(r)
  BY LineUnchanged DEF LineInv
<1>2. OneHome'
  BY <1>1, SameHomes DEF LineInv
<1>3. TicketInv'
  BY TicketsUnchanged DEF LineInv
<1>4. PassInv'
  BY DEF LineInv, PassInv
<1> QED
  BY <1>1, <1>2, <1>3, <1>4

-----------------------------------------------------------------------------

\* Every step of the handlers and of run_loop keeps the line in order and every
\* open request in exactly one place.
THEOREM LineInductive == LineInv /\ [Next]_vars => LineInv'
<1> SUFFICES ASSUME LineInv, [Next]_vars
             PROVE  PassInv' /\ TicketInv' /\ QueueOrder' /\ OneHome'
  BY TypeInductive DEF LineInv
<1>1. CASE Handlers
  <2>1. ASSUME NEW r \in Reqs, Cancel(r) \/ TimeElapses(r)
        PROVE  PassInv' /\ TicketInv' /\ QueueOrder' /\ OneHome'
    BY <2>1, OutsideLine DEF Cancel, TimeElapses, queueVars
  <2> QED
    BY <1>1, <2>1, SubmitLine DEF Handlers
<1>2. CASE RunLoop
  <2>1. CASE \/ DrainDone \/ ExpireDone \/ PlanPrefill \/ PlanDecode \/ PlanEmpty
             \/ Idle \/ GpuStep
    BY <2>1, QuietLine
  <2>2. CASE Recv \/ JoinStart \/ Defer \/ BindFails \/ JoinDone
    BY <2>2, RecvLine, JoinStartLine, DeferLine, BindFailsLine, JoinDoneLine
  <2>3. CASE EvictCancelled \/ GpuFails \/ GpuPanics \/ EvictFinished
    BY <2>3, EvictCancelledLine, GpuFailsLine, GpuPanicsLine, EvictFinishedLine
  <2>4. CASE \E i \in DOMAIN waiting : ExpireOne(i)
    BY <2>4, ExpireOneLine
  <2>5. CASE \E s \in Slots, r \in Reqs : Bind(s, r) \/ VisionFails(s, r)
    BY <2>5, BindLine, VisionFailsLine
  <2> QED
    BY <1>2, <2>1, <2>2, <2>3, <2>4, <2>5 DEF RunLoop, VisionFails
<1>3. CASE UNCHANGED vars
  BY <1>3, OutsideLine DEF vars
<1> QED
  BY <1>1, <1>2, <1>3 DEF Next

\* Initially the line and the slots are empty.
LEMMA LineInit == Init => LineInv
<1> SUFFICES ASSUME Init PROVE LineInv
  OBVIOUS
<1>1. TypeOK
  BY TypeInit
<1>2. PickedReqs = <<>> /\ \A r : ~Queued(r)
  BY DEF Init, PickedReqs, Queued
<1>3. QueueOrder
  BY <1>2 DEF Init, QueueOrder, Sorted, AllBefore
<1>4. \A r \in Reqs : ~Running(r)
  BY ReqsAssumption DEF Init, Running, Vacant
<1>5. OneHome
  BY <1>2, <1>4 DEF Init, OneHome, IsActive, Vacant
<1>6. TicketInv
  <2>1. Issued = {} /\ Cardinality(Issued) = 0
    <3>1. Issued = {}
      BY DEF Init, Issued
    <3> QED
      BY <3>1, FS_EmptySet
  <2> QED
    BY <2>1 DEF Init, TicketInv
<1>7. PassInv
  BY DEF Init, PassInv
<1> QED
  BY <1>1, <1>3, <1>5, <1>6, <1>7 DEF LineInv

\* The inductive invariant holds throughout.
LEMMA LineCorrect == Spec => []LineInv
BY LineInit, LineInductive, PTL DEF Spec

\* For any number of slots and requests, the deferrals of join_waiting, the
\* expiry of queued requests and the drain of the channel never let a waiting
\* request pass an older one.
THEOREM QueueOrderCorrect == Spec => []QueueOrder
<1>1. LineInv => QueueOrder
  BY DEF LineInv
<1> QED
  BY <1>1, LineCorrect, PTL

\* For any number of slots and requests, a request is in the line or in one
\* slot exactly as long as it is unanswered: none is dropped without an answer,
\* run in two slots, or decoded after its terminal event.
THEOREM OneHomeCorrect == Spec => []OneHome
<1>1. LineInv => OneHome
  BY DEF LineInv
<1> QED
  BY <1>1, LineCorrect, PTL

-----------------------------------------------------------------------------
(* The inductive invariant of the slots.                                    *)

\* The cells of a running slot are the positions it counts, and no pressure
\* release takes them; a prompt that is
\* being prefilled is not complete; a generation that goes on is one token
\* ahead of its cells, and one that is over has at most the rejected drafts
\* more than it emitted.
Runs(sl) ==
  /\ sl.kv = sl.nPast /\ ~sl.retained
  /\ sl.phase \in {"Prefilling", "Decoding"}
  /\ sl.phase = "Prefilling" =>
       sl.nGen = 0 /\ sl.finish = "none" /\ sl.nPast < PromptLen[sl.req]
  /\ sl.phase = "Decoding" /\ sl.finish = "none" =>
       sl.pending /\ sl.nPast = PromptLen[sl.req] + sl.nGen - 1
  /\ sl.finish # "none" => sl.nPast <= PromptLen[sl.req] + sl.nGen + SpecNMax

\* A bind may leave a generation that is over with its last token pending: one
\* decode more is taken before it is evicted, and no second one.
Unstepped(sl) ==
  sl.finish # "none" /\ sl.pending => sl.nPast < PromptLen[sl.req] + sl.nGen

SlotsRun ==
  \A s \in Slots :
    IF IsActive(slot[s])
    THEN Runs(slot[s]) /\ (pc # "settle" => Unstepped(slot[s]))
    ELSE slot[s].phase = "Empty"

\* A plan prefills within the prompt, or decodes what is pending.
PlanInv ==
  pc = "gpu" =>
    \A s \in Slots : plan[s] > 0 =>
      \/ slot[s].phase = "Prefilling" /\ slot[s].nPast + plan[s] <= PromptLen[slot[s].req]
      \/ slot[s].phase = "Decoding" /\ slot[s].pending

SlotInv == LineInv /\ SlotsRun /\ PlanInv

-----------------------------------------------------------------------------
(* The slot operators and the invariant.                                    *)

\* The fields the invariant is about.
SameJob(x, sl) ==
  /\ x.req = sl.req /\ x.phase = sl.phase /\ x.nPast = sl.nPast /\ x.nGen = sl.nGen
  /\ x.pending = sl.pending /\ x.finish = sl.finish /\ x.kv = sl.kv
  /\ x.prefixLen = sl.prefixLen /\ x.retained = sl.retained

\* The constants the slots are measured in.
LEMMA SlotNumbers ==
  /\ SpecNMax \in Nat
  /\ \A r \in Reqs : PromptLen[r] \in Nat
BY SizeAssumption, RequestAssumption, MaxU32Assumption DEF U32

LEMMA SameJobRuns ==
  ASSUME NEW x, NEW sl, SameJob(x, sl)
  PROVE  /\ Runs(sl) => Runs(x)
         /\ Unstepped(sl) => Unstepped(x)
         /\ IsActive(x) <=> IsActive(sl)
BY DEF SameJob, Runs, Unstepped, IsActive

\* recompute_slot_caps changes caps and limits only.
LEMMA RecomputeSameJob ==
  ASSUME NEW sts \in [Slots -> SlotRec], NEW s \in Slots
  PROVE  SameJob(RecomputeSlotCaps(sts)[s], sts[s])
<1>1. ASSUME NEW cap PROVE SameJob(WithCap(sts[s], cap), sts[s])
  BY DEF WithCap, SameJob, SlotRec
<1>2. SameJob(sts[s], sts[s])
  BY DEF SameJob
<1> QED
  BY <1>1, <1>2, RecomputeType

\* fill_drafts_sync changes the drafts only.
LEMMA WithDraftsSameJob ==
  ASSUME NEW sl \in SlotRec, NEW x \in WithDrafts(sl)
  PROVE  SameJob(x, sl)
<1>1. SameJob(sl, sl)
  BY DEF SameJob
<1>2. ASSUME NEW d PROVE SameJob([sl EXCEPT !.drafts = d], sl)
  BY DEF SameJob, SlotRec
<1> QED
  BY <1>1, <1>2 DEF WithDrafts

\* push_token: the accepted tokens are all pushed unless the generation ends,
\* and a token that is pending was pushed, or was pending before.
LEMMA EmittedSlot ==
  ASSUME NEW sl \in SlotRec, NEW accepted \in Nat \ {0}, NEW x \in Emitted(sl, accepted)
  PROVE  /\ x \in SlotRec
         /\ x.req = sl.req /\ x.phase = "Decoding" /\ x.kv = sl.kv /\ x.nPast = sl.nPast
         /\ x.retained = sl.retained
         /\ x.nGen >= sl.nGen
         /\ x.finish = "none" => x.pending /\ x.nGen = sl.nGen + accepted
         /\ x.pending => sl.pending \/ x.nGen > sl.nGen
<1> DEFINE lim == PushLimit(sl, accepted)
           ByLength(k) == sl.nGen + k >= sl.maxTok
           cut == IF ByLength(lim) \/ sl.nPast + 1 > sl.ctxCap THEN "Length" ELSE "none"
           Pushed(k, fin, pend) ==
             [sl EXCEPT !.phase = "Decoding", !.nGen = @ + k, !.pending = pend,
                        !.finish = fin]
<1>1. lim \in Nat \ {0}
  BY PushLimitType
<1>2. x \in SlotRec /\ x.req = sl.req
  BY EmittedType DEF SameRequest
<1>3. \/ x = Pushed(lim, cut, TRUE)
      \/ \E k \in 0 .. (lim - 1) : x = Pushed(k, "Stop", FALSE)
      \/ \E k \in {i \in 1 .. lim : ~ByLength(i)} : x = Pushed(k, "Stop", TRUE)
      \/ \E k \in 0 .. (lim - 1) : x = Pushed(k, "Failed", sl.pending \/ k > 0)
  BY DEF Emitted
<1>4. cut = "none" => lim = accepted
  BY DEF PushLimit, Smaller, Larger, SatSub, SlotRec
<1>5. sl.nGen \in Nat
  BY DEF SlotRec
<1>7. cut \in {"none", "Length"}
  OBVIOUS
<1> HIDE DEF lim, cut, Pushed
<1>8. CASE x = Pushed(lim, cut, TRUE)
  <2>1. /\ x.phase = "Decoding" /\ x.kv = sl.kv /\ x.nPast = sl.nPast
        /\ x.retained = sl.retained
        /\ x.nGen = sl.nGen + lim /\ x.pending = TRUE /\ x.finish = cut
    BY <1>1, <1>7, <1>8 DEF Pushed, SlotRec
  <2> QED
    BY <1>1, <1>2, <1>4, <1>5, <2>1
<1>9. CASE \E k \in 0 .. (lim - 1) : x = Pushed(k, "Stop", FALSE)
  <2>1. PICK k \in 0 .. (lim - 1) : x = Pushed(k, "Stop", FALSE)
    BY <1>9
  <2>2. k \in Nat
    BY <1>1, <2>1
  <2> QED
    BY <1>2, <1>5, <2>1, <2>2 DEF Pushed, SlotRec
<1>10. CASE \E k \in {i \in 1 .. lim : ~ByLength(i)} : x = Pushed(k, "Stop", TRUE)
  <2>1. PICK k \in {i \in 1 .. lim : ~ByLength(i)} : x = Pushed(k, "Stop", TRUE)
    BY <1>10
  <2>2. k \in Nat \ {0}
    BY <1>1, <2>1
  <2> QED
    BY <1>2, <1>5, <2>1, <2>2 DEF Pushed, SlotRec
<1>11. CASE \E k \in 0 .. (lim - 1) : x = Pushed(k, "Failed", sl.pending \/ k > 0)
  <2>1. PICK k \in 0 .. (lim - 1) : x = Pushed(k, "Failed", sl.pending \/ k > 0)
    BY <1>11
  <2>2. k \in Nat
    BY <1>1, <2>1
  <2>3. /\ x.phase = "Decoding" /\ x.kv = sl.kv /\ x.nPast = sl.nPast
        /\ x.retained = sl.retained
        /\ x.nGen = sl.nGen + k /\ x.finish = "Failed"
    BY <2>1 DEF Pushed, SlotRec
  <2>4. x.pending => sl.pending \/ k > 0
    BY <2>1, Zenon DEF Pushed, SlotRec
  <2>5. k > 0 => x.nGen > sl.nGen
    BY <1>5, <2>2, <2>3
  <2> QED
    BY <1>2, <1>5, <2>2, <2>3, <2>4, <2>5
<1> QED
  BY <1>3, <1>8, <1>9, <1>10, <1>11

\* Verification keeps one cell per accepted token, and a rejected draft that
\* cannot be rolled back changes no counter.
LEMMA VerifiedRuns ==
  ASSUME NEW sl \in SlotRec, sl.req \in Reqs, Runs(sl), Unstepped(sl),
         sl.phase = "Decoding", sl.pending,
         NEW m \in 0 .. sl.drafts, NEW x \in Verified(sl, m)
  PROVE  Runs(x)
<1> USE SlotNumbers
<1> DEFINE keep == [sl EXCEPT !.nPast = @ + 1 + m, !.kv = @ + 1 + m,
                              !.drafts = 0, !.replay = FALSE]
<1>1. m \in 0 .. SpecNMax /\ sl.nPast \in Nat /\ sl.nGen \in Nat /\ PromptLen[sl.req] \in Nat
  BY DEF SlotRec
<1>2. /\ keep.req = sl.req /\ keep.phase = "Decoding" /\ keep.nGen = sl.nGen
      /\ keep.nPast = sl.nPast + 1 + m /\ keep.kv = sl.kv + 1 + m
      /\ keep.finish = sl.finish /\ keep.pending /\ keep.retained = sl.retained
  BY DEF SlotRec
<1>3. keep \in SlotRec
  <2> DEFINE p == sl.nPast + 1 + m
             c == sl.kv + 1 + m
  <2>1. p \in Nat /\ c \in Nat /\ 0 \in 0 .. SpecNMax
    BY <1>1 DEF SlotRec
  <2>2. keep = [sl EXCEPT !.nPast = p, !.kv = c, !.drafts = 0, !.replay = FALSE]
    BY DEF SlotRec
  <2> HIDE DEF p, c, keep
  <2> QED
    BY <2>1, <2>2 DEF SlotRec
<1>4. CASE sl.finish # "none"
  <2>1. x = keep
    BY <1>4 DEF Verified
  <2> HIDE DEF keep
  <2> QED
    BY <1>1, <1>2, <1>4, <2>1 DEF Runs, Unstepped
<1>5. CASE sl.finish = "none" /\ m < sl.drafts /\ sl.drafts > NRsSeq
  <2>1. x = [sl EXCEPT !.drafts = m + 1, !.replay = TRUE]
    BY <1>5 DEF Verified
  <2>2. SameJob(x, sl)
    BY <2>1 DEF SameJob, SlotRec
  <2> QED
    BY <2>2, SameJobRuns
<1>6. CASE sl.finish = "none" /\ ~(m < sl.drafts /\ sl.drafts > NRsSeq)
  <2>1. x \in Emitted(keep, m + 1)
    BY <1>6 DEF Verified
  <2>2. m + 1 \in Nat \ {0}
    BY <1>1
  <2> HIDE DEF keep
  <2>3. /\ x \in SlotRec /\ x.req = keep.req /\ x.phase = "Decoding" /\ x.kv = keep.kv
        /\ x.retained = keep.retained /\ x.nPast = keep.nPast /\ x.nGen >= keep.nGen
        /\ x.finish = "none" => x.pending /\ x.nGen = keep.nGen + (m + 1)
    BY <1>3, <2>1, <2>2, EmittedSlot
  <2>4. x.nGen \in Nat /\ x.nPast = PromptLen[sl.req] + sl.nGen + m /\ x.kv = x.nPast
    BY <1>1, <1>2, <1>6, <2>3 DEF Runs, SlotRec
  <2> QED
    BY <1>1, <1>2, <2>3, <2>4 DEF Runs
<1> QED
  BY <1>4, <1>5, <1>6

\* Prefilling within the prompt, and the first token when it is complete.
LEMMA PrefilledRuns ==
  ASSUME NEW sl \in SlotRec, sl.req \in Reqs, Runs(sl), sl.phase = "Prefilling",
         NEW take \in Nat, sl.nPast + take <= PromptLen[sl.req],
         NEW x \in Prefilled(sl, take)
  PROVE  Runs(x)
<1> USE SlotNumbers
<1> DEFINE p == sl.nPast + take
           c == sl.kv + take
           sl1 == [sl EXCEPT !.nPast = p, !.kv = c]
<1>1. sl.nPast \in Nat /\ sl.kv \in Nat /\ sl.nGen = 0 /\ PromptLen[sl.req] \in Nat
  BY DEF SlotRec, Runs
<1>2. p \in Nat /\ c \in Nat /\ p <= PromptLen[sl.req] /\ c = p
  BY <1>1 DEF Runs
<1>3. x \in IF sl1.nPast < PromptLen[sl.req] THEN {sl1} ELSE Emitted(sl1, 1)
  BY DEF Prefilled, SlotRec
<1> HIDE DEF p, c
<1>4. /\ sl1 \in SlotRec /\ sl1.req = sl.req /\ sl1.nPast = p /\ sl1.kv = c
      /\ sl1.nGen = sl.nGen /\ sl1.phase = sl.phase /\ sl1.finish = sl.finish
      /\ sl1.retained = sl.retained
  BY <1>2 DEF SlotRec
<1> HIDE DEF sl1
<1>5. CASE p < PromptLen[sl.req]
  BY <1>2, <1>3, <1>4, <1>5 DEF Runs
<1>6. CASE ~(p < PromptLen[sl.req])
  <2>1. x \in Emitted(sl1, 1)
    BY <1>3, <1>4, <1>6
  <2>2. /\ x \in SlotRec /\ x.req = sl.req /\ x.phase = "Decoding" /\ x.kv = c
        /\ x.nPast = p /\ x.retained = sl.retained
        /\ x.finish = "none" => x.pending /\ x.nGen = 0 + 1
    BY <1>1, <1>4, <2>1, EmittedSlot
  <2>3. p = PromptLen[sl.req] /\ x.nGen \in Nat
    BY <1>1, <1>2, <1>6, <2>2 DEF SlotRec
  <2> QED
    BY <1>1, <1>2, <2>2, <2>3 DEF Runs
<1> QED
  BY <1>5, <1>6

\* What a plan may ask of a slot.
Planned(sl, take) ==
  take > 0 => \/ sl.phase = "Prefilling" /\ sl.nPast + take <= PromptLen[sl.req]
              \/ sl.phase = "Decoding" /\ sl.pending

\* llama_decode, sampling and drafting keep a running slot running, and leave an
\* idle one alone.
LEMMA AfterGpuRuns ==
  ASSUME NEW sl \in SlotRec, NEW take \in Nat, Planned(sl, take),
         NEW x \in AfterGpu(sl, take)
  PROVE  /\ IsActive(sl) /\ Runs(sl) /\ Unstepped(sl) => Runs(x)
         /\ ~IsActive(sl) /\ sl.phase = "Empty" => x = sl
<1> DEFINE Stepped == IF take = 0 THEN {sl}
                      ELSE IF sl.phase = "Prefilling" THEN Prefilled(sl, take)
                      ELSE UNION { Verified(sl, m) : m \in 0 .. sl.drafts }
<1>1. PICK y \in Stepped : x \in WithDrafts(y)
  BY DEF AfterGpu
<1>2. y \in SlotRec
  BY PrefilledType, VerifiedType DEF SameRequest
<1>3. ASSUME IsActive(sl), Runs(sl), Unstepped(sl) PROVE Runs(y)
  <2>1. sl.req \in Reqs
    BY <1>3 DEF IsActive, SlotRec
  <2>2. CASE take = 0
    BY <1>3, <2>2
  <2>3. CASE take # 0 /\ sl.phase = "Prefilling"
    BY <1>3, <2>1, <2>3, PrefilledRuns DEF Planned
  <2>4. CASE take # 0 /\ sl.phase # "Prefilling"
    <3>1. sl.phase = "Decoding" /\ sl.pending
      BY <2>4 DEF Planned
    <3>2. PICK m \in 0 .. sl.drafts : y \in Verified(sl, m)
      BY <2>4
    <3> QED
      BY <1>3, <2>1, <3>1, <3>2, VerifiedRuns
  <2> QED
    BY <2>2, <2>3, <2>4
<1>4. Runs(y) => Runs(x)
  BY <1>1, <1>2, WithDraftsSameJob, SameJobRuns
<1>5. ASSUME ~IsActive(sl), sl.phase = "Empty" PROVE x = sl
  <2>1. take = 0
    BY <1>5 DEF Planned
  <2>2. y = sl
    BY <1>1, <2>1
  <2> QED
    BY <1>1, <1>5, <2>2 DEF WithDrafts
<1> QED
  BY <1>3, <1>4, <1>5

\* A job that takes a slot has generated nothing.
LEMMA OccupiedSlot ==
  ASSUME TypeOK, NEW r \in Reqs, NEW past \in Nat,
         NEW phase \in {"Prefilling", "Decoding"}
  PROVE  LET o == Occupied(r, phase, past)
         IN  /\ o.phase = phase /\ o.nPast = past /\ o.kv = past /\ o.nGen = 0
             /\ o.finish = "none" /\ ~o.retained /\ ~o.pending
BY DEF Occupied, WithCap, Vacant

\* A bind leaves a slot that runs, or an image answer that is over at its first
\* token.
LEMMA BoundRuns ==
  ASSUME TypeOK, NEW r \in Reqs, PromptLen[r] > 0, NEW sl \in BoundSlots(r)
  PROVE  Runs(sl) /\ Unstepped(sl)
<1> USE SlotNumbers
<1>1. CASE r \in Vision
  <2> DEFINE occ == Occupied(r, "Decoding", PromptLen[r])
  <2>1. /\ occ \in SlotRec /\ occ.req = r /\ occ.nPast = PromptLen[r]
        /\ occ.kv = PromptLen[r] /\ occ.nGen = 0 /\ ~occ.retained /\ ~occ.pending
    BY OccupiedType, OccupiedSlot
  <2>2. PICK x \in Emitted(occ, 1) : sl \in WithDrafts(x)
    BY <1>1 DEF BoundSlots
  <2> HIDE DEF occ
  <2>3. /\ x \in SlotRec /\ x.req = r /\ x.phase = "Decoding" /\ x.kv = PromptLen[r]
        /\ x.nPast = PromptLen[r] /\ ~x.retained
        /\ x.finish = "none" => x.pending /\ x.nGen = 0 + 1
        /\ x.pending => x.nGen > 0
    BY <2>1, <2>2, EmittedSlot
  <2>4. x.nGen \in Nat
    BY <2>3 DEF SlotRec
  <2>5. Runs(x) /\ Unstepped(x)
    BY <2>3, <2>4 DEF Runs, Unstepped
  <2> QED
    BY <2>2, <2>3, <2>5, WithDraftsSameJob, SameJobRuns
<1>2. CASE r \notin Vision
  <2>1. PICK n \in 0 .. (PromptLen[r] - 1) : sl = Occupied(r, "Prefilling", n)
    BY <1>2 DEF BoundSlots
  <2>2. n \in Nat /\ n < PromptLen[r]
    BY <2>1
  <2>3. /\ sl.req = r /\ sl.phase = "Prefilling" /\ sl.nPast = n /\ sl.kv = n
        /\ sl.nGen = 0 /\ sl.finish = "none" /\ ~sl.retained
    BY <2>1, <2>2, OccupiedType, OccupiedSlot
  <2> QED
    BY <2>2, <2>3 DEF Runs, Unstepped
<1> QED
  BY <1>1, <1>2

\* finish_slot: an idle slot that remembers what it held.
LEMMA FinishedSlot ==
  ASSUME NEW sl
  PROVE  LET f == FinishSlot(sl)
         IN  /\ f.req = NoReq /\ f.phase = "Empty" /\ f.kv = sl.kv /\ f.retained
             /\ f.prefixLen = Smaller(sl.nPast, PromptLen[sl.req] + sl.nGen)
BY DEF FinishSlot, Vacant

\* Pressure release takes the cells of retained slots and nothing else.
LEMMA ReleasedSlot ==
  ASSUME NEW sts \in [Slots -> SlotRec], NEW s \in Slots
  PROVE  LET x == ReleaseRetained(sts)[s]
         IN  /\ x.phase = sts[s].phase /\ x.req = sts[s].req
             /\ \/ x = sts[s]
                \/ sts[s].retained /\ x.kv = 0 /\ ~x.retained
<1>1. LET f == [sts[s] EXCEPT !.kv = 0, !.prefixLen = 0, !.retained = FALSE]
      IN  f.phase = sts[s].phase /\ f.req = sts[s].req /\ f.kv = 0 /\ ~f.retained
  BY DEF SlotRec
<1> QED
  BY <1>1 DEF ReleaseRetained

\* The cells past the tokens of a running slot are at most rejected drafts.
LEMMA RunsBound ==
  ASSUME NEW sl \in SlotRec, sl.req \in Reqs, Runs(sl)
  PROVE  sl.nPast <= PromptLen[sl.req] + sl.nGen + SpecNMax
BY SlotNumbers DEF Runs, SlotRec

-----------------------------------------------------------------------------
(* Every step keeps the slots running.                                      *)

\* A slot whose job is the same, before or after the GPU step.
LEMMA SameJobsRun ==
  ASSUME SlotsRun, \A s \in Slots : SameJob(slot'[s], slot[s]),
         pc' # "settle" => pc # "settle"
  PROVE  SlotsRun'
<1> SUFFICES ASSUME NEW s \in Slots
             PROVE  IF IsActive(slot'[s])
                    THEN Runs(slot'[s]) /\ (pc' # "settle" => Unstepped(slot'[s]))
                    ELSE slot'[s].phase = "Empty"
  BY DEF SlotsRun, Runs, Unstepped, IsActive
<1>1. /\ Runs(slot[s]) => Runs(slot'[s])
      /\ Unstepped(slot[s]) => Unstepped(slot'[s])
      /\ IsActive(slot'[s]) <=> IsActive(slot[s])
      /\ slot'[s].phase = slot[s].phase
  BY SameJobRuns DEF SameJob
<1> QED
  BY <1>1 DEF SlotsRun

\* Steps that leave the slots alone.
LEMMA SlotsKept ==
  ASSUME SlotsRun, UNCHANGED slot, pc' # "settle" => pc # "settle"
  PROVE  SlotsRun'
<1>1. \A s \in Slots : SameJob(slot'[s], slot[s])
  BY DEF SameJob
<1> QED
  BY <1>1, SameJobsRun

\* A bind puts a running job into one slot and gives the others new caps.
LEMMA BindSlots ==
  ASSUME SlotInv, NEW s \in Slots, NEW r \in Reqs, Bind(s, r)
  PROVE  SlotsRun'
<1> USE TypesOfLine DEF SlotInv, LineInv
<1>1. PICK sl \in BoundSlots(r) : slot' = RecomputeSlotCaps([slot EXCEPT ![s] = sl])
  BY DEF Bind
<1>2. PromptLen[r] > 0 /\ pc = "bind" /\ pc' = "bind"
  BY DEF Bind, Bindable
<1>3. sl \in SlotRec /\ sl.req = r /\ Runs(sl) /\ Unstepped(sl)
  BY <1>2, BoundSlotsType, BoundRuns
<1> DEFINE sts == [slot EXCEPT ![s] = sl]
<1>4. sts \in [Slots -> SlotRec] /\ sts[s] = sl /\ \A t \in Slots : t # s => sts[t] = slot[t]
  BY <1>3
<1>5. slot' = RecomputeSlotCaps(sts)
  BY <1>1
<1> HIDE DEF sts
<1>6. ASSUME NEW t \in Slots
      PROVE  IF IsActive(slot'[t]) THEN Runs(slot'[t]) /\ Unstepped(slot'[t])
                                   ELSE slot'[t].phase = "Empty"
  <2>1. SameJob(slot'[t], sts[t])
    BY <1>4, <1>5, RecomputeSameJob
  <2>2. IF IsActive(sts[t]) THEN Runs(sts[t]) /\ Unstepped(sts[t])
                            ELSE sts[t].phase = "Empty"
    <3>1. CASE t = s
      BY <1>3, <1>4, <3>1, ReqsAssumption DEF IsActive
    <3>2. CASE t # s
      BY <1>2, <1>4, <3>2 DEF SlotsRun
    <3> QED
      BY <3>1, <3>2
  <2> QED
    BY <2>1, <2>2, SameJobRuns DEF SameJob
<1> QED
  BY <1>6 DEF SlotsRun, Runs, Unstepped, IsActive

\* A bind of an image request that fails leaves the slot idle.
LEMMA VisionFailsSlots ==
  ASSUME SlotInv, NEW s \in Slots, NEW r \in Reqs, VisionFails(s, r)
  PROVE  SlotsRun'
<1>1. /\ ~IsActive(slot[s]) /\ pc = "bind" /\ pc' = "bind"
      /\ slot[s].phase = "Empty" => slot'[s].phase = "Empty"
      /\ slot'[s].req = slot[s].req
      /\ \A t \in Slots \ {s} : slot'[t] = slot[t]
  BY VisionFailsKeeps DEF SlotInv
<1>2. ASSUME NEW t \in Slots
      PROVE  IF IsActive(slot'[t]) THEN Runs(slot'[t]) /\ Unstepped(slot'[t])
                                   ELSE slot'[t].phase = "Empty"
  <2>1. CASE t = s
    BY <1>1, <2>1 DEF SlotInv, SlotsRun, IsActive
  <2>2. CASE t # s
    BY <1>1, <2>2 DEF SlotInv, SlotsRun
  <2> QED
    BY <2>1, <2>2
<1> QED
  BY <1>2 DEF SlotsRun, Runs, Unstepped, IsActive

\* Slots that are given up become idle; the pressure release and the new caps
\* leave every running slot alone.
LEMMA GiveUpSlots ==
  ASSUME SlotInv, NEW gone \in SUBSET {s \in Slots : IsActive(slot[s])}
  PROVE  LET left == [s \in Slots |-> IF s \in gone THEN FinishSlot(slot[s]) ELSE slot[s]]
             kept == ReleaseRetained(left)
         IN  /\ left \in [Slots -> SlotRec] /\ kept \in [Slots -> SlotRec]
             /\ \A s \in Slots :
                  IF IsActive(kept[s])
                  THEN s \notin gone /\ kept[s] = slot[s] /\ Runs(slot[s])
                  ELSE kept[s].phase = "Empty"
<1> USE TypesOfLine DEF SlotInv, LineInv
<1> DEFINE left == [s \in Slots |-> IF s \in gone THEN FinishSlot(slot[s]) ELSE slot[s]]
           kept == ReleaseRetained(left)
<1>1. left \in [Slots -> SlotRec]
  BY FinishSlotType DEF IsActive, SlotRec
<1>2. \A s \in Slots : left[s] = IF s \in gone THEN FinishSlot(slot[s]) ELSE slot[s]
  OBVIOUS
<1> HIDE DEF left
<1>3. kept \in [Slots -> SlotRec]
  BY <1>1, ReleaseRetainedType
<1>4. ASSUME NEW s \in Slots
      PROVE  IF IsActive(kept[s])
             THEN s \notin gone /\ kept[s] = slot[s] /\ Runs(slot[s])
             ELSE kept[s].phase = "Empty"
  <2>1. /\ kept[s].phase = left[s].phase /\ kept[s].req = left[s].req
        /\ kept[s] = left[s] \/ left[s].retained
    BY <1>1, ReleasedSlot
  <2>2. CASE s \in gone
    BY <1>2, <2>1, <2>2, FinishedSlot DEF IsActive
  <2>3. CASE s \notin gone
    BY <1>2, <2>1, <2>3 DEF SlotsRun, Runs, IsActive
  <2> QED
    BY <2>2, <2>3
<1> QED
  BY <1>1, <1>3, <1>4 DEF left

\* Cancelled and overdue requests leave; the others run on.
LEMMA EvictCancelledSlots ==
  ASSUME SlotInv, EvictCancelled
  PROVE  SlotsRun'
<1> DEFINE gone == {s \in Slots : ToEvict(slot[s])}
           left == [s \in Slots |-> IF s \in gone THEN FinishSlot(slot[s]) ELSE slot[s]]
<1>1. slot' = ReleaseRetained(left) /\ pc = "evict" /\ pc' = "join"
  BY DEF EvictCancelled, Goto
<1>2. gone \in SUBSET {s \in Slots : IsActive(slot[s])}
  BY DEF ToEvict
<1>3. \A s \in Slots : IF IsActive(slot'[s]) THEN slot'[s] = slot[s] /\ Runs(slot[s])
                                              ELSE slot'[s].phase = "Empty"
  <2> HIDE DEF gone
  <2> QED
    BY <1>1, <1>2, GiveUpSlots
<1> QED
  BY <1>1, <1>3 DEF SlotInv, SlotsRun, Runs, Unstepped, IsActive

\* Finished requests leave, and with them the only slots a decode more may have
\* run ahead.
LEMMA EvictFinishedSlots ==
  ASSUME SlotInv, EvictFinished
  PROVE  SlotsRun'
<1> DEFINE gone == {s \in Slots : IsFinished(slot[s])}
           left == [s \in Slots |-> IF s \in gone THEN FinishSlot(slot[s]) ELSE slot[s]]
           kept == ReleaseRetained(left)
<1>1. slot' = RecomputeSlotCaps(kept) /\ pc = "settle" /\ pc' = "drain"
  BY DEF EvictFinished, Goto
<1>2. gone \in SUBSET {s \in Slots : IsActive(slot[s])}
  BY DEF IsFinished
<1>3. /\ kept \in [Slots -> SlotRec]
      /\ \A s \in Slots :
           IF IsActive(kept[s]) THEN s \notin gone /\ kept[s] = slot[s] /\ Runs(slot[s])
                                ELSE kept[s].phase = "Empty"
  <2> HIDE DEF gone
  <2> QED
    BY <1>2, GiveUpSlots
<1> HIDE DEF kept
<1>4. ASSUME NEW s \in Slots
      PROVE  IF IsActive(slot'[s]) THEN Runs(slot'[s]) /\ Unstepped(slot'[s])
                                   ELSE slot'[s].phase = "Empty"
  <2>1. SameJob(slot'[s], kept[s])
    BY <1>1, <1>3, RecomputeSameJob
  <2>2. IsActive(kept[s]) => Runs(kept[s]) /\ Unstepped(kept[s])
    BY <1>3 DEF IsFinished, Unstepped
  <2> QED
    BY <1>3, <2>1, <2>2, SameJobRuns DEF SameJob
<1> QED
  BY <1>4 DEF SlotsRun, Runs, Unstepped, IsActive

\* The GPU step.
LEMMA GpuStepSlots ==
  ASSUME SlotInv, GpuStep
  PROVE  /\ SlotsRun'
         /\ \A s \in Slots : ~IsActive(slot[s]) => slot'[s] = slot[s]
<1>1. PICK f \in [Slots -> UNION {AfterGpu(slot[s], plan[s]) : s \in Slots}] :
        slot' = f /\ \A s \in Slots : f[s] \in AfterGpu(slot[s], plan[s])
  BY DEF GpuStep
<1>2. ASSUME NEW s \in Slots
      PROVE  /\ slot'[s].req = slot[s].req
             /\ IF IsActive(slot[s]) THEN Runs(slot'[s]) ELSE slot'[s] = slot[s]
  <2>1. Planned(slot[s], plan[s]) /\ slot[s] \in SlotRec /\ plan[s] \in Nat
    BY DEF SlotInv, LineInv, TypeOK, PlanInv, Planned, GpuStep, Goto
  <2>2. slot'[s] \in AfterGpu(slot[s], plan[s])
    BY <1>1
  <2>3. IF IsActive(slot[s]) THEN Runs(slot[s]) /\ Unstepped(slot[s])
                             ELSE slot[s].phase = "Empty"
    BY DEF SlotInv, SlotsRun, GpuStep, Goto
  <2> QED
    BY <2>1, <2>2, <2>3, AfterGpuRuns, AfterGpuType DEF SameRequest
<1>3. pc' = "settle"
  BY DEF GpuStep, Goto
<1> QED
  BY <1>2, <1>3 DEF SlotInv, SlotsRun, Runs, Unstepped, IsActive

\* Failed and panicked decodes leave no running slot.
LEMMA GpuLostSlots ==
  ASSUME SlotInv, GpuFails \/ GpuPanics
  PROVE  SlotsRun'
<1>1. \A c : [Vacant EXCEPT !.kv = c].req = NoReq /\ [Vacant EXCEPT !.kv = c].phase = "Empty"
  BY DEF Vacant
<1>2. Vacant.req = NoReq /\ Vacant.phase = "Empty"
  BY DEF Vacant
<1>3. CASE GpuFails
  <2>1. slot' = [s \in Slots |-> IF IsActive(slot[s]) THEN Vacant ELSE slot[s]]
    BY <1>3 DEF GpuFails
  <2> QED
    BY <1>2, <2>1 DEF SlotInv, SlotsRun, IsActive
<1>4. CASE GpuPanics
  <2>1. PICK decoded \in BOOLEAN :
          slot' = [s \in Slots |->
            [Vacant EXCEPT !.kv = slot[s].kv + IF decoded THEN plan[s] ELSE 0]]
    BY <1>4 DEF GpuPanics
  <2> QED
    BY <1>1, <2>1 DEF SlotsRun, IsActive
<1> QED
  BY <1>3, <1>4

\* A plan prefills within the prompt, or decodes what is pending.
LEMMA PlansHold ==
  ASSUME SlotInv, PlanPrefill \/ PlanDecode
  PROVE  PlanInv'
<1> USE TypesOfLine DEF SlotInv, LineInv
<1>1. CASE PlanPrefill
  <2>1. /\ \A s \in Slots : plan'[s] <= Remaining(slot[s])
        /\ slot' = slot
    BY <1>1 DEF PlanPrefill, PrefillPlans
  <2>2. ASSUME NEW s \in Slots, plan'[s] > 0
        PROVE  slot[s].phase = "Prefilling" /\ slot[s].nPast + plan'[s] <= PromptLen[slot[s].req]
    <3>1. plan'[s] \in Nat
      BY <1>1 DEF PlanPrefill, PrefillPlans
    <3>2. slot[s].phase = "Prefilling" /\ plan'[s] <= PromptLen[slot[s].req] - slot[s].nPast
      BY <2>1, <2>2, <3>1 DEF Remaining
    <3>3. slot[s].req \in Reqs
      BY <3>2 DEF SlotsRun, SlotRec, IsActive
    <3>4. PromptLen[slot[s].req] \in Nat /\ slot[s].nPast \in Nat
      BY <3>3, SlotNumbers DEF SlotRec
    <3> QED
      BY <3>1, <3>2, <3>4
  <2> QED
    BY <2>1, <2>2 DEF PlanInv
<1>2. CASE PlanDecode
  <2>1. slot' = slot /\ plan' = DecodePlan
    BY <1>2 DEF PlanDecode
  <2>2. \A s \in Slots : plan'[s] > 0 => slot[s].phase = "Decoding" /\ slot[s].pending
    BY <2>1 DEF DecodePlan, PendingSlots
  <2> QED
    BY <2>1, <2>2 DEF PlanInv
<1> QED
  BY <1>1, <1>2

\* SlotInv is inductive: draft acceptance, rollback, replay, chunked prefill,
\* binds, evictions and failures all leave each slot's counters and cells in step.
THEOREM SlotInductive == SlotInv /\ [Next]_vars => SlotInv'
<1> SUFFICES ASSUME SlotInv, [Next]_vars PROVE SlotsRun' /\ PlanInv'
  BY LineInductive DEF SlotInv
<1> USE DEF Goto, envVars, queueVars
<1>1. CASE Handlers \/ UNCHANGED vars
  <2>1. UNCHANGED <<slot, plan, pc>>
    BY <1>1 DEF Handlers, Submit, Cancel, TimeElapses, vars
  <2>2. PlanInv'
    BY <2>1 DEF SlotInv, PlanInv
  <2> QED
    BY <2>1, <2>2, SlotsKept DEF SlotInv
<1>2. CASE RunLoop
  <2>1. CASE PlanPrefill \/ PlanDecode
    BY <2>1, PlansHold, SlotsKept DEF SlotInv, PlanPrefill, PlanDecode
  <2>2. ASSUME ~(PlanPrefill \/ PlanDecode) PROVE PlanInv'
    <3>1. pc' # "gpu"
      <4>1. CASE \E s \in Slots, r \in Reqs : VisionFails(s, r)
        BY <4>1, VisionFailsKeeps DEF SlotInv
      <4>2. CASE \E s \in Slots, r \in Reqs : Bind(s, r)
        BY <4>2 DEF Bind, Bindable
      <4>3. CASE ~(\E s \in Slots, r \in Reqs : Bind(s, r) \/ VisionFails(s, r))
        BY <1>2, <2>2, <4>3 DEF RunLoop, VisionFails, Recv, DrainDone, ExpireOne, ExpireDone,
           EvictCancelled, JoinStart, Defer, BindFails, JoinDone, PlanEmpty, Idle, GpuStep,
           GpuFails, GpuPanics, EvictFinished
      <4> QED
        BY <4>1, <4>2, <4>3
    <3> QED
      BY <3>1 DEF PlanInv
  <2>3. CASE \/ Recv \/ DrainDone \/ (\E i \in DOMAIN waiting : ExpireOne(i))
             \/ ExpireDone \/ JoinStart \/ Defer \/ BindFails \/ PlanEmpty \/ Idle
    <3>1. UNCHANGED slot /\ (pc' # "settle" => pc # "settle")
      BY <2>3 DEF Recv, DrainDone, ExpireOne, ExpireDone, JoinStart, Defer, BindFails,
                  PlanEmpty, Idle
    <3> QED
      BY <2>1, <2>2, <3>1, SlotsKept DEF SlotInv
  <2>4. CASE JoinDone
    <3>1. /\ slot' = RecomputeSlotCaps(slot) /\ slot \in [Slots -> SlotRec]
          /\ pc' = "plan" /\ pc = "bind"
      BY <2>4 DEF JoinDone, SlotInv, LineInv, TypeOK
    <3> QED
      BY <2>1, <2>2, <3>1, RecomputeSameJob, SameJobsRun DEF SlotInv
  <2>5. CASE \E s \in Slots, r \in Reqs : Bind(s, r) \/ VisionFails(s, r)
    BY <2>1, <2>2, <2>5, BindSlots, VisionFailsSlots
  <2>6. CASE EvictCancelled \/ EvictFinished \/ GpuStep \/ GpuFails \/ GpuPanics
    BY <2>1, <2>2, <2>6, EvictCancelledSlots, EvictFinishedSlots, GpuStepSlots, GpuLostSlots
  <2> QED
    BY <1>2, <2>1, <2>3, <2>4, <2>5, <2>6 DEF RunLoop, VisionFails
<1> QED
  BY <1>1, <1>2 DEF Next

\* Initially every slot is idle.
LEMMA SlotInit == Init => SlotInv
<1> SUFFICES ASSUME Init PROVE SlotInv
  OBVIOUS
<1>1. Vacant.req = NoReq /\ Vacant.phase = "Empty"
  BY DEF Vacant
<1> QED
  BY <1>1, LineInit DEF Init, SlotInv, SlotsRun, PlanInv, IsActive

\* The slots are in step throughout.
LEMMA SlotCorrect == Spec => []SlotInv
BY SlotInit, SlotInductive, PTL DEF Spec

\* For any number of slots, any draft length and any rollback limit, a running
\* generation is exactly one token ahead of its cells: nothing the verify, the
\* rollback or the snapshot restore does loses or repeats a position.
THEOREM OnePendingCorrect == Spec => []OnePending
<1>1. SlotInv => OnePending
  <2> SUFFICES ASSUME SlotInv, NEW s \in Slots, slot[s].phase = "Decoding",
                      slot[s].finish = "none"
               PROVE  /\ slot[s].pending
                      /\ slot[s].nPast = PromptLen[slot[s].req] + slot[s].nGen - 1
                      /\ slot[s].kv = slot[s].nPast
    BY DEF OnePending
  <2>1. IsActive(slot[s]) /\ Runs(slot[s])
    BY DEF SlotInv, SlotsRun
  <2> QED
    BY <2>1 DEF Runs
<1> QED
  BY <1>1, SlotCorrect, PTL

-----------------------------------------------------------------------------
(* The cells of idle slots.                                                 *)

IdleOK(sl) == sl.kv <= IF sl.retained THEN sl.prefixLen + SpecNMax ELSE 0

\* finish_slot accounts for the cells of a running slot.
LEMMA FinishAccounts ==
  ASSUME NEW sl \in SlotRec, sl.req \in Reqs, Runs(sl)
  PROVE  IdleOK(FinishSlot(sl))
<1>1. /\ sl.nPast \in Nat /\ sl.nGen \in Nat /\ PromptLen[sl.req] \in Nat /\ SpecNMax \in Nat
      /\ sl.kv = sl.nPast
  BY SlotNumbers DEF SlotRec, Runs
<1>2. sl.nPast <= PromptLen[sl.req] + sl.nGen + SpecNMax
  BY RunsBound
<1>3. sl.kv <= Smaller(sl.nPast, PromptLen[sl.req] + sl.nGen) + SpecNMax
  BY <1>1, <1>2 DEF Smaller
<1> QED
  BY <1>3, FinishedSlot DEF IdleOK

\* Given up or not, what is idle after the pressure release is accounted for.
LEMMA GiveUpAccounts ==
  ASSUME SlotInv, IdleCellsAccounted, NEW gone \in SUBSET {s \in Slots : IsActive(slot[s])}
  PROVE  LET left == [s \in Slots |-> IF s \in gone THEN FinishSlot(slot[s]) ELSE slot[s]]
             kept == ReleaseRetained(left)
         IN  \A s \in Slots : ~IsActive(kept[s]) => IdleOK(kept[s])
<1> USE TypesOfLine DEF SlotInv, LineInv
<1> DEFINE left == [s \in Slots |-> IF s \in gone THEN FinishSlot(slot[s]) ELSE slot[s]]
           kept == ReleaseRetained(left)
<1>1. left \in [Slots -> SlotRec]
  BY GiveUpSlots
<1>2. ASSUME NEW s \in Slots, ~IsActive(left[s]) PROVE IdleOK(left[s])
  <2>1. CASE s \in gone
    <3>1. slot[s].req \in Reqs /\ Runs(slot[s]) /\ left[s] = FinishSlot(slot[s])
      BY <2>1 DEF SlotsRun, IsActive, SlotRec
    <3> QED
      BY <3>1, FinishAccounts
  <2>2. CASE s \notin gone
    BY <1>2, <2>2 DEF IdleCellsAccounted, IdleOK
  <2> QED
    BY <2>1, <2>2
<1> HIDE DEF left
<1>3. ASSUME NEW s \in Slots, ~IsActive(kept[s]) PROVE IdleOK(kept[s])
  <2>1. /\ kept[s].req = left[s].req
        /\ \/ kept[s] = left[s]
           \/ kept[s].kv = 0 /\ ~kept[s].retained
    BY <1>1, ReleasedSlot
  <2> QED
    BY <1>2, <1>3, <2>1 DEF IdleOK, IsActive
<1> QED
  BY <1>3 DEF left

\* A slot whose job is the same holds the same cells.
LEMMA SameJobsAccounted ==
  ASSUME NEW x, NEW sl, SameJob(x, sl)
  PROVE  (IdleOK(x) <=> IdleOK(sl)) /\ (IsActive(x) <=> IsActive(sl))
BY DEF SameJob, IdleOK, IsActive

\* No other step of the scheduler than a panic of the GPU worker and two failed
\* binds of image requests forgets cells.
LEMMA IdleStep ==
  ASSUME SlotInv, IdleCellsAccounted, [Next]_vars, [~GpuPanics /\ ~CellsLeft]_vars
  PROVE  IdleCellsAccounted'
<1> USE TypesOfLine DEF SlotInv, LineInv
<1> SUFFICES ASSUME NEW s \in Slots, ~IsActive(slot'[s]) PROVE IdleOK(slot'[s])
  BY DEF IdleCellsAccounted, IdleOK, IsActive
<1>1. ~IsActive(slot[s]) => IdleOK(slot[s])
  BY DEF IdleCellsAccounted, IdleOK
<1>2. ASSUME UNCHANGED slot PROVE IdleOK(slot'[s])
  BY <1>1, <1>2
<1>3. CASE \/ Handlers \/ UNCHANGED vars
           \/ Recv \/ DrainDone \/ (\E i \in DOMAIN waiting : ExpireOne(i)) \/ ExpireDone
           \/ JoinStart \/ Defer \/ BindFails \/ PlanPrefill \/ PlanDecode \/ PlanEmpty
           \/ Idle
  BY <1>2, <1>3 DEF Handlers, Submit, Cancel, TimeElapses, vars, Recv, DrainDone,
     ExpireOne, ExpireDone, JoinStart, Defer, BindFails, PlanPrefill, PlanDecode,
     PlanEmpty, Idle
<1>4. CASE JoinDone
  <2>1. SameJob(slot'[s], slot[s])
    BY <1>4, RecomputeSameJob DEF JoinDone
  <2> QED
    BY <1>1, <2>1, SameJobsAccounted
<1>5. ASSUME NEW t \in Slots, NEW r \in Reqs, Bind(t, r) PROVE IdleOK(slot'[s])
  <2>1. slot'[t].req = r
    BY <1>5, BindTakes
  <2>2. s # t
    BY <2>1, ReqsAssumption DEF IsActive
  <2>3. PICK sl \in BoundSlots(r) : slot' = RecomputeSlotCaps([slot EXCEPT ![t] = sl])
    BY <1>5 DEF Bind
  <2>4. /\ [slot EXCEPT ![t] = sl] \in [Slots -> SlotRec]
        /\ [slot EXCEPT ![t] = sl][s] = slot[s]
    BY <2>2, <2>3, BoundSlotsType
  <2>5. SameJob(slot'[s], slot[s])
    BY <2>3, <2>4, RecomputeSameJob
  <2> QED
    BY <1>1, <2>5, SameJobsAccounted
<1>6. ASSUME NEW t \in Slots, NEW r \in Reqs, VisionEvalFails(t, r) PROVE IdleOK(slot'[s])
  <2>1. /\ slot'[t] = [slot[t] EXCEPT !.kv = 0, !.prefixLen = 0]
        /\ \A u \in Slots : u # t => slot'[u] = slot[u]
    BY <1>6 DEF VisionEvalFails, VisionBindFails
  <2>2. CASE s = t
    <3>1. slot'[s].kv = 0 /\ slot'[s].prefixLen = 0
      <4>1. \A sl \in SlotRec : LET x == [sl EXCEPT !.kv = 0, !.prefixLen = 0]
                               IN  x.kv = 0 /\ x.prefixLen = 0
        BY DEF SlotRec
      <4>2. slot[t] \in SlotRec
        OBVIOUS
      <4> QED
        BY <2>1, <2>2, <4>1, <4>2
    <3>2. 0 <= 0 + SpecNMax /\ 0 <= 0
      BY SlotNumbers
    <3>3. CASE slot'[s].retained
      BY <3>1, <3>2, <3>3 DEF IdleOK
    <3>4. CASE ~slot'[s].retained
      BY <3>1, <3>2, <3>4 DEF IdleOK
    <3> QED
      BY <3>3, <3>4
  <2> QED
    BY <1>1, <2>1, <2>2
<1>7. CASE EvictCancelled
  <2> DEFINE gone == {x \in Slots : ToEvict(slot[x])}
             left == [x \in Slots |-> IF x \in gone THEN FinishSlot(slot[x]) ELSE slot[x]]
  <2>1. slot' = ReleaseRetained(left)
    BY <1>7 DEF EvictCancelled
  <2>2. gone \in SUBSET {x \in Slots : IsActive(slot[x])}
    BY DEF ToEvict
  <2> HIDE DEF gone
  <2> QED
    BY <2>1, <2>2, GiveUpAccounts
<1>8. CASE EvictFinished
  <2> DEFINE gone == {x \in Slots : IsFinished(slot[x])}
             left == [x \in Slots |-> IF x \in gone THEN FinishSlot(slot[x]) ELSE slot[x]]
             kept == ReleaseRetained(left)
  <2>1. slot' = RecomputeSlotCaps(kept)
    BY <1>8 DEF EvictFinished
  <2>2. gone \in SUBSET {x \in Slots : IsActive(slot[x])}
    BY DEF IsFinished
  <2> HIDE DEF gone
  <2>3. kept \in [Slots -> SlotRec] /\ (~IsActive(kept[s]) => IdleOK(kept[s]))
    BY <2>2, GiveUpAccounts, GiveUpSlots
  <2> HIDE DEF kept
  <2>4. SameJob(slot'[s], kept[s])
    BY <2>1, <2>3, RecomputeSameJob
  <2> QED
    BY <2>3, <2>4, SameJobsAccounted
<1>9. CASE GpuStep
  BY <1>1, <1>9, GpuStepSlots, GpuStepKeeps DEF IsActive
<1>10. CASE GpuFails
  <2>1. slot'[s] = IF IsActive(slot[s]) THEN Vacant ELSE slot[s]
    BY <1>10 DEF GpuFails
  <2>2. IdleOK(Vacant)
    BY SlotNumbers DEF IdleOK, Vacant
  <2> QED
    BY <1>1, <2>1, <2>2
<1>11. CASE GpuPanics \/ CellsLeft
  BY <1>2, <1>11 DEF vars
<1> QED
  BY <1>3, <1>4, <1>5, <1>6, <1>7, <1>8, <1>9, <1>10, <1>11 DEF Next, RunLoop, CellsLeft

\* The slots remember the cells they leave on the GPU up to the unused tail of one
\* verify step, so pressure release can take them all back, in every run without
\* the three steps that forget cells: a panic of the blocking worker replaces the
\* slots and leaves theirs, and a bind of an image request that overflows its cap
\* or cannot sample its first token leaves the image's in an idle slot.
THEOREM IdleCellsCorrect ==
  Spec /\ [][~GpuPanics /\ ~CellsLeft]_vars => []IdleCellsAccounted
<1>1. Init => IdleCellsAccounted
  BY SlotNumbers DEF Init, IdleCellsAccounted, Vacant
<1>2. SlotInv /\ IdleCellsAccounted /\ [Next]_vars /\ [~GpuPanics /\ ~CellsLeft]_vars
        => IdleCellsAccounted'
  BY IdleStep
<1> QED
  BY <1>1, <1>2, SlotCorrect, PTL DEF Spec

-----------------------------------------------------------------------------
(* Who is deferred, and who overtakes whom.                                 *)

\* With no slot running, a joiner's cap is what it would be alone.
LEMMA SoloCap ==
  ASSUME ActiveSlots(slot) = {}
  PROVE  HeadCap = CapForJoin(0, 1, Pool, SoloMax, SpecNMax)
<1> DEFINE used == [s \in Slots |-> UsedForCap(slot[s])]
<1>1. Cardinality(ActiveSlots(slot)) + 1 = 1
  BY FS_EmptySet
<1>2. \A s \in Slots : used[s] = 0
  BY DEF ActiveSlots, UsedForCap
<1>3. Total(slot, UsedForCap) = CellCount(used)
  BY DEF Total
<1> HIDE DEF used
<1>4. UNION { {s} \X (1 .. used[s]) : s \in Slots } = {}
  <2>1. \A s \in Slots : {s} \X (1 .. used[s]) = {}
    BY <1>2
  <2> QED
    BY <2>1
<1>5. CellCount(used) = 0
  BY <1>4, FS_EmptySet DEF CellCount
<1> QED
  BY <1>1, <1>3, <1>5 DEF HeadCap

\* So it is admitted, or clamped for good: never told to wait.
LEMMA NobodyWaitsAlone ==
  ASSUME TypeOK, NEW r \in Reqs, HeadDecision(r) = "Defer"
  PROVE  ActiveSlots(slot) # {}
<1> SUFFICES ASSUME ActiveSlots(slot) = {} PROVE FALSE
  OBVIOUS
<1> DEFINE solo == CapForJoin(0, 1, Pool, SoloMax, SpecNMax)
           prompt == IF r \in Vision THEN 0 ELSE PromptLen[r]
           need == NeededCells(prompt, MaxTokens[r])
<1>1. HeadCap = solo
  BY SoloCap
<1>2. solo \in Nat
  BY <1>1, HeadCapType
<1>3. need \in Nat
  <2>1. prompt \in Nat /\ MaxTokens[r] \in Nat
    BY SlotNumbers, RequestAssumption, MaxU32Assumption DEF U32
  <2> QED
    BY <2>1, MaxU32Assumption DEF NeededCells, SatAdd, Smaller, Larger
<1>4. ~(solo >= need) /\ ~(need > solo)
  BY <1>1 DEF HeadDecision, AdmissionDecision
<1> HIDE DEF solo, need
<1> QED
  BY <1>2, <1>3, <1>4

\* Steps that defer nobody and end no pass leave a running slot running.
LEMMA DeferStep ==
  ASSUME LineInv, DeferredBehindARunner, [Next]_vars
  PROVE  DeferredBehindARunner'
<1> USE TypesOfLine DEF LineInv
<1> SUFFICES ASSUME rejected' # <<>> PROVE \E s \in Slots : slot'[s].req # NoReq
  BY DEF DeferredBehindARunner, ActiveSlots, IsActive
<1>1. CASE Defer
  <2>1. PickedReq \in Reqs /\ UNCHANGED slot /\ HeadDecision(PickedReq) = "Defer"
    BY <1>1, HeadQueued DEF Defer
  <2> QED
    BY <2>1, NobodyWaitsAlone DEF ActiveSlots, IsActive
<1>2. CASE ~Defer
  <2>1. rejected' = rejected
    <3>1. CASE \E s \in Slots, r \in Reqs : VisionFails(s, r)
      BY <3>1, VisionFailsKeeps
    <3>2. CASE ~(\E s \in Slots, r \in Reqs : VisionFails(s, r))
      BY <1>2, <3>2 DEF VisionFails, Next, Handlers, RunLoop, Submit, Cancel, TimeElapses,
         vars, Recv, DrainDone, ExpireOne, ExpireDone, EvictCancelled, JoinStart, BindFails,
         Bind, JoinDone, PlanPrefill, PlanDecode, PlanEmpty, Idle, GpuStep, GpuFails,
         GpuPanics, EvictFinished, queueVars
    <3> QED
      BY <3>1, <3>2
  <2>2. pc = "bind" /\ \E s \in Slots : slot[s].req # NoReq
    BY <2>1 DEF PassInv, DeferredBehindARunner, ActiveSlots, IsActive
  <2>3. CASE \E s \in Slots, r \in Reqs : Bind(s, r)
    BY <2>2, <2>3, BindTakes
  <2>4. CASE \E s \in Slots, r \in Reqs : VisionFails(s, r)
    BY <2>2, <2>4, VisionFailsKeeps
  <2>5. ASSUME ~(\E s \in Slots, r \in Reqs : Bind(s, r) \/ VisionFails(s, r))
        PROVE  UNCHANGED slot
    <3>1. ~JoinDone
      BY <2>1 DEF JoinDone
    <3> QED
      BY <1>2, <2>2, <2>5, <3>1 DEF VisionFails, Next, Handlers, RunLoop, Submit, Cancel, TimeElapses,
         vars, Recv, DrainDone, ExpireOne, ExpireDone, EvictCancelled, JoinStart,
         BindFails, PlanPrefill, PlanDecode, PlanEmpty, Idle, GpuStep, GpuFails,
         GpuPanics, EvictFinished, Goto
  <2> QED
    BY <2>2, <2>3, <2>4, <2>5
<1> QED
  BY <1>1, <1>2

\* For every pool, cap and speculation setting, admission never holds a request
\* back when no other runs: what it waits for is always a slot that will end.
THEOREM DeferredCorrect == Spec => []DeferredBehindARunner
<1>1. Init => DeferredBehindARunner
  BY DEF Init, DeferredBehindARunner
<1>2. LineInv /\ DeferredBehindARunner /\ [Next]_vars => DeferredBehindARunner'
  BY DeferStep
<1> QED
  BY <1>1, <1>2, LineCorrect, PTL DEF Spec

\* Only a bind puts another request into a slot.
LEMMA OnlyBindTakes ==
  ASSUME LineInv, [Next]_vars, NEW s \in Slots,
         slot'[s].req # slot[s].req, slot'[s].req # NoReq
  PROVE  Bind(s, slot'[s].req) /\ slot'[s].req \in Reqs
<1> USE TypesOfLine DEF LineInv
<1>1. CASE \/ Handlers \/ UNCHANGED vars
           \/ Recv \/ DrainDone \/ (\E i \in DOMAIN waiting : ExpireOne(i)) \/ ExpireDone
           \/ JoinStart \/ Defer \/ BindFails \/ PlanPrefill \/ PlanDecode \/ PlanEmpty
           \/ Idle
  <2>1. UNCHANGED slot
    BY <1>1 DEF Handlers, Submit, Cancel, TimeElapses, vars, Recv, DrainDone,
       ExpireOne, ExpireDone, JoinStart, Defer, BindFails, PlanPrefill, PlanDecode,
       PlanEmpty, Idle
  <2> QED
    BY <2>1
<1>2. CASE JoinDone
  BY <1>2, RecomputeReq DEF JoinDone
<1>3. CASE EvictCancelled \/ EvictFinished \/ GpuFails \/ GpuPanics
  <2>1. \E gone \in SUBSET Slots : GivenUp(gone)
    <3>1. /\ {t \in Slots : ToEvict(slot[t])} \in SUBSET Slots
          /\ {t \in Slots : IsFinished(slot[t])} \in SUBSET Slots
          /\ {t \in Slots : IsActive(slot[t])} \in SUBSET Slots
      OBVIOUS
    <3> QED
      BY <1>3, <3>1, EvictCancelledGivesUp, EvictFinishedGivesUp, GpuFailsGivesUp,
         GpuPanicsGivesUp
  <2> QED
    BY <2>1 DEF GivenUp
<1>4. CASE GpuStep
  BY <1>4, GpuStepKeeps
<1>5. ASSUME NEW t \in Slots, NEW r \in Reqs, VisionFails(t, r) PROVE FALSE
  BY <1>5, VisionFailsKeeps
<1>6. ASSUME NEW t \in Slots, NEW r \in Reqs, Bind(t, r)
      PROVE  t = s /\ r = slot'[s].req
  BY <1>6, BindTakes
<1> QED
  BY <1>1, <1>2, <1>3, <1>4, <1>5, <1>6 DEF Next, RunLoop, VisionFails

\* The newcomer is older than whatever is left in the line, except requests
\* deferred in this very pass.
LEMMA BindOvertakes ==
  ASSUME LineInv, NEW s \in Slots, NEW r \in Reqs, Bind(s, r),
         NEW q \in Reqs, Queued(q)'
  PROVE  ticket[q] > ticket[r] \/ In(rejected, q)
<1> USE TypesOfLine DEF LineInv
<1>1. /\ picks # <<>> /\ picks' = Tail(picks) /\ PickedReq = r
      /\ UNCHANGED <<chan, waiting, rejected>>
  BY DEF Bind, Bindable, PickedReq
<1>2. /\ In(PickedReqs, r)
      /\ \A x : In(PickedReqs', x) => ticket[r] < ticket[x]
  BY <1>1, HeadTaken
<1>3. /\ \A x : In(waiting, x) => ticket[r] < ticket[x]
      /\ \A x : In(chan, x) => ticket[r] < ticket[x]
  BY <1>2, BeforeIn DEF QueueOrder
<1>4. In(rejected, q) \/ In(PickedReqs', q) \/ In(waiting, q) \/ In(chan, q)
  BY <1>1, QueuedNext
<1>5. ticket[r] < ticket[q] \/ In(rejected, q)
  BY <1>2, <1>3, <1>4
<1>6. ticket[r] \in Nat /\ ticket[q] \in Nat
  OBVIOUS
<1> QED
  BY <1>5, <1>6

\* When a request takes a slot, only requests deferred in this pass are older.
OnlyDeferredWait ==
  [][\A s \in Slots :
       LET r == slot'[s].req
       IN  r # slot[s].req /\ r # NoReq =>
             \A q \in Reqs : Queued(q)' => ticket[q] > ticket[r] \/ In(rejected, q)]_vars

\* For any number of slots, arrival order is kept but for the requests that
\* admission deferred in the same pass, which a smaller newcomer may pass.
THEOREM OnlyDeferredWaitCorrect == Spec => OnlyDeferredWait
<1>1. LineInv /\ [Next]_vars =>
        [\A s \in Slots :
           LET r == slot'[s].req
           IN  r # slot[s].req /\ r # NoReq =>
                 \A q \in Reqs : Queued(q)' => ticket[q] > ticket[r] \/ In(rejected, q)]_vars
  BY OnlyBindTakes, BindOvertakes
<1> QED
  BY <1>1, LineCorrect, PTL DEF Spec, OnlyDeferredWait

-----------------------------------------------------------------------------
(* Two slots are too few for anyone to be overtaken.                        *)

\* A pass takes no more requests than there are idle slots.
PassFits ==
  Len(rejected) + Len(picks) + Cardinality(ActiveSlots(slot)) <= Cardinality(Slots)

\* The counts of a pass.
LEMMA PassCounts ==
  ASSUME TypeOK
  PROVE  /\ Len(rejected) \in Nat /\ Len(picks) \in Nat
         /\ Cardinality(Slots) \in Nat
         /\ Cardinality(ActiveSlots(slot)) \in Nat
         /\ Cardinality(ActiveSlots(slot)) <= Cardinality(Slots)
         /\ Cardinality(Slots \ ActiveSlots(slot))
              = Cardinality(Slots) - Cardinality(ActiveSlots(slot))
<1>1. ActiveSlots(slot) \subseteq Slots
  BY DEF ActiveSlots
<1>2. Slots \cap ActiveSlots(slot) = ActiveSlots(slot)
  BY <1>1
<1>3. /\ Cardinality(Slots) \in Nat
      /\ Cardinality(ActiveSlots(slot)) \in Nat
      /\ Cardinality(ActiveSlots(slot)) <= Cardinality(Slots)
  BY <1>1, SlotsAssumption, FS_Subset, FS_CardinalityType
<1>4. Cardinality(Slots \ ActiveSlots(slot))
        = Cardinality(Slots) - Cardinality(Slots \cap ActiveSlots(slot))
  BY <1>1, SlotsAssumption, FS_Subset, FS_Difference
<1> QED
  BY <1>2, <1>3, <1>4, LenProperties DEF TypeOK

\* Each step of a pass takes one pair off and adds at most one request to the
\* deferred or one slot to the active.
LEMMA PassStep ==
  ASSUME LineInv, PassFits, [Next]_vars
  PROVE  PassFits'
<1> USE TypesOfLine DEF LineInv
<1> DEFINE n == Cardinality(Slots)
           active == Cardinality(ActiveSlots(slot))
<1>1. /\ Len(rejected) \in Nat /\ Len(picks) \in Nat /\ n \in Nat /\ active \in Nat
      /\ Len(rejected) + Len(picks) + active <= n
  BY PassCounts DEF PassFits
<1>2. TypeOK'
  BY TypeInductive
<1>3. Cardinality(ActiveSlots(slot)') \in Nat /\ Cardinality(ActiveSlots(slot)') <= n
  <2>1. ActiveSlots(slot)' \subseteq Slots
    BY DEF ActiveSlots
  <2> QED
    BY <2>1, SlotsAssumption, FS_Subset, FS_CardinalityType
<1>4. ASSUME picks' = <<>>, rejected' = <<>> PROVE PassFits'
  <2>1. Len(picks') = 0 /\ Len(rejected') = 0
    BY <1>4
  <2> QED
    BY <1>3, <2>1 DEF PassFits
<1>5. ASSUME UNCHANGED <<picks, rejected, slot>> PROVE PassFits'
  BY <1>5 DEF PassFits, ActiveSlots
<1>6. CASE Handlers \/ UNCHANGED vars
  BY <1>5, <1>6 DEF Handlers, Submit, Cancel, TimeElapses, vars, queueVars
<1>7. CASE JoinStart
  <2> DEFINE idle == Slots \ ActiveSlots(slot)
             k == Smaller(Cardinality(idle), Len(waiting))
  <2>1. PICK f \in Injection(1 .. k, idle) :
          picks' = [i \in 1 .. k |-> [slot |-> f[i], req |-> waiting[i]]]
    BY <1>7 DEF JoinStart
  <2>2. UNCHANGED <<rejected, slot>> /\ rejected = <<>>
    BY <1>7 DEF JoinStart, Goto, PassInv
  <2>3. Cardinality(idle) = n - active /\ Len(waiting) \in Nat
    BY PassCounts, LenProperties
  <2>4. k \in Nat /\ k <= n - active
    BY <1>1, <2>3 DEF Smaller
  <2> HIDE DEF k
  <2>5. Len(picks') = k
    BY <2>1, <2>4
  <2>6. ActiveSlots(slot)' = ActiveSlots(slot) /\ Len(rejected') = 0
    BY <2>2 DEF ActiveSlots
  <2> QED
    BY <1>1, <2>4, <2>5, <2>6 DEF PassFits
<1>8. ASSUME picks # <<>>, picks' = Tail(picks)
      PROVE  Len(picks) > 0 /\ Len(picks') = Len(picks) - 1
  BY <1>1, <1>8, HeadTailProperties, EmptySeq
<1>9. CASE Defer
  <2>1. PickedReq \in Reqs
    BY <1>9, HeadQueued DEF Defer
  <2>2. Len(rejected') = Len(rejected) + 1
    BY <1>9, <2>1, AppendProperties DEF Defer
  <2>3. ActiveSlots(slot)' = ActiveSlots(slot) /\ Len(picks') = Len(picks) - 1
    BY <1>8, <1>9 DEF Defer, ActiveSlots
  <2> QED
    BY <1>1, <2>2, <2>3 DEF PassFits
<1>10. ASSUME BindFails \/ \E s \in Slots, r \in Reqs : VisionFails(s, r)
       PROVE  PassFits'
  <2>1. /\ \A s \in Slots : slot'[s].req = slot[s].req
        /\ picks # <<>> /\ picks' = Tail(picks) /\ rejected' = rejected
    BY <1>10, VisionFailsKeeps DEF BindFails
  <2>2. ActiveSlots(slot)' = ActiveSlots(slot)
    BY <2>1 DEF ActiveSlots, IsActive
  <2>3. Len(picks') = Len(picks) - 1
    BY <1>8, <2>1
  <2> QED
    BY <1>1, <2>1, <2>2, <2>3 DEF PassFits
<1>11. ASSUME NEW s \in Slots, NEW r \in Reqs, Bind(s, r) PROVE PassFits'
  <2>1. ActiveSlots(slot)' = ActiveSlots(slot) \cup {s}
    BY <1>11, BindTakes, ReqsAssumption DEF ActiveSlots, IsActive
  <2>2. s \notin ActiveSlots(slot)
    BY <1>11, BindTakes DEF ActiveSlots, IsActive
  <2>3. Cardinality(ActiveSlots(slot)') = active + 1
    <3>1. IsFiniteSet(ActiveSlots(slot))
      BY SlotsAssumption, FS_Subset DEF ActiveSlots
    <3> QED
      BY <2>1, <2>2, <3>1, FS_AddElement
  <2>4. picks # <<>> /\ picks' = Tail(picks) /\ rejected' = rejected
    BY <1>11 DEF Bind, Bindable
  <2>5. Len(picks') = Len(picks) - 1
    BY <1>8, <2>4
  <2> QED
    BY <1>1, <2>3, <2>4, <2>5 DEF PassFits
<1>12. CASE JoinDone
  BY <1>4, <1>12 DEF JoinDone
<1>13. CASE \/ Recv \/ DrainDone \/ (\E i \in DOMAIN waiting : ExpireOne(i)) \/ ExpireDone
            \/ EvictCancelled \/ PlanPrefill \/ PlanDecode \/ PlanEmpty \/ Idle
            \/ GpuStep \/ GpuFails \/ GpuPanics \/ EvictFinished
  <2>1. pc # "bind" /\ UNCHANGED <<picks, rejected>>
    BY <1>13 DEF Recv, DrainDone, ExpireOne, ExpireDone, EvictCancelled, PlanPrefill,
       PlanDecode, PlanEmpty, Idle, GpuStep, GpuFails, GpuPanics, EvictFinished, Goto,
       queueVars
  <2> QED
    BY <1>4, <2>1 DEF PassInv
<1> QED
  BY <1>6, <1>7, <1>9, <1>10, <1>11, <1>12, <1>13 DEF Next, RunLoop, VisionFails

\* A pass takes no more requests than there are idle slots, throughout.
LEMMA PassCorrect == Spec => []PassFits
<1>1. Init => PassFits
  <2> SUFFICES ASSUME Init PROVE PassFits
    OBVIOUS
  <2>1. TypeOK
    BY TypeInit
  <2>2. Len(rejected) = 0 /\ Len(picks) = 0
    BY DEF Init
  <2> QED
    BY <2>1, <2>2, PassCounts DEF PassFits
<1>2. LineInv /\ PassFits /\ [Next]_vars => PassFits'
  BY PassStep
<1> QED
  BY <1>1, <1>2, LineCorrect, PTL DEF Spec

\* With one or two slots, requests are bound strictly in arrival order: the one
\* slot beside a runner cannot both defer a request and take a later one.  (Three
\* slots can: SchedThree.)
THEOREM ArrivalOrderCorrect ==
  ASSUME Cardinality(Slots) <= 2
  PROVE  Spec => ArrivalOrder
<1>1. ASSUME LineInv, DeferredBehindARunner, PassFits,
             NEW s \in Slots, NEW r \in Reqs, Bind(s, r)
      PROVE  rejected = <<>>
  <2> SUFFICES ASSUME rejected # <<>> PROVE FALSE
    OBVIOUS
  <2>1. Len(rejected) \in Nat \ {0} /\ Len(picks) \in Nat \ {0}
    BY <1>1, TypesOfLine, EmptySeq, LenProperties DEF LineInv, Bind, Bindable
  <2>2. Cardinality(ActiveSlots(slot)) # 0
    <3>1. IsFiniteSet(ActiveSlots(slot)) /\ ActiveSlots(slot) # {}
      BY <1>1, SlotsAssumption, FS_Subset DEF ActiveSlots, DeferredBehindARunner
    <3> QED
      BY <3>1, FS_EmptySet
  <2> QED
    BY <1>1, <2>1, <2>2, PassCounts DEF LineInv, PassFits
<1>2. LineInv /\ DeferredBehindARunner /\ PassFits /\ [Next]_vars =>
        [\A s \in Slots :
           LET r == slot'[s].req
           IN  r # slot[s].req /\ r # NoReq =>
                 \A q \in Reqs : Queued(q)' => ticket[q] > ticket[r]]_vars
  <2> SUFFICES ASSUME LineInv, DeferredBehindARunner, PassFits, [Next]_vars,
                      NEW s \in Slots, slot'[s].req # slot[s].req, slot'[s].req # NoReq,
                      NEW q \in Reqs, Queued(q)'
               PROVE  ticket[q] > ticket[slot'[s].req]
    OBVIOUS
  <2>1. Bind(s, slot'[s].req) /\ slot'[s].req \in Reqs
    BY OnlyBindTakes
  <2>2. rejected = <<>>
    BY <1>1, <2>1
  <2> QED
    BY <2>1, <2>2, BindOvertakes DEF In
<1> QED
  BY <1>2, LineCorrect, DeferredCorrect, PassCorrect, PTL DEF Spec, ArrivalOrder

-----------------------------------------------------------------------------
(* What has been told stays told.                                           *)

\* A step answers a new request or an open one, and no other.
LEMMA AnswerStep ==
  ASSUME LineInv, [Next]_vars, NEW r \in Reqs, answer[r] # "new"
  PROVE  answer'[r] = answer[r] \/ (answer[r] = "open" /\ answer'[r] \notin {"new", "open"})
<1> USE TypesOfLine DEF LineInv
<1>1. Queued(r) \/ (\E s \in Slots : slot[s].req = r) => answer[r] = "open"
  BY DEF OneHome, Running
<1>2. ASSUME NEW q \in Reqs, Submit(q) PROVE answer'[r] = answer[r]
  BY <1>2 DEF Submit, TypeOK
<1>3. ASSUME NEW q \in Reqs, Cancel(q) \/ TimeElapses(q) PROVE answer'[r] = answer[r]
  BY <1>3 DEF Cancel, TimeElapses
<1>4. ASSUME NEW i \in DOMAIN waiting, ExpireOne(i)
      PROVE  answer'[r] = answer[r] \/ (answer[r] = "open" /\ answer'[r] = "Timeout")
  <2>1. waiting[i] = r => answer[r] = "open"
    BY <1>1, QueuedIn DEF In
  <2> QED
    BY <1>4, <2>1 DEF ExpireOne, TypeOK
<1>5. CASE EvictCancelled \/ EvictFinished \/ GpuFails \/ GpuPanics
  <2>1. PICK gone \in SUBSET Slots : GivenUp(gone)
    BY <1>5, EvictCancelledGivesUp, EvictFinishedGivesUp, GpuFailsGivesUp, GpuPanicsGivesUp
  <2> QED
    BY <1>1, <2>1 DEF GivenUp, Ended
<1>6. ASSUME picks # <<>> PROVE PickedReq = r => answer[r] = "open"
  BY <1>1, <1>6, HeadQueued
<1>7. CASE BindFails
  BY <1>6, <1>7 DEF BindFails, TypeOK
<1>8. ASSUME NEW s \in Slots, NEW q \in Reqs, VisionFails(s, q)
      PROVE  answer'[r] = answer[r] \/ (answer[r] = "open" /\ answer'[r] = "Failed")
  <2>1. /\ picks # <<>> /\ PickedReq = q
        /\ answer' = [answer EXCEPT ![q] = "Failed"]
    BY <1>8, VisionFailsKeeps
  <2> QED
    BY <1>6, <2>1 DEF TypeOK
<1>9. ASSUME NEW s \in Slots, NEW q \in Reqs, Bind(s, q) PROVE answer'[r] = answer[r]
  BY <1>9 DEF Bind
<1>10. CASE \/ Recv \/ DrainDone \/ ExpireDone \/ JoinStart \/ Defer \/ JoinDone
            \/ PlanPrefill \/ PlanDecode \/ PlanEmpty \/ Idle \/ GpuStep
  BY <1>10 DEF Recv, DrainDone, ExpireDone, JoinStart, Defer, JoinDone, PlanPrefill,
               PlanDecode, PlanEmpty, Idle, GpuStep
<1>11. CASE UNCHANGED vars
  BY <1>11 DEF vars
<1> QED
  BY <1>2, <1>3, <1>4, <1>5, <1>7, <1>8, <1>9, <1>10, <1>11
  DEF Next, Handlers, RunLoop, VisionFails

\* A slot is taken from a request only with an answer.
LEMMA StaysUntilAnswered ==
  ASSUME LineInv, [Next]_vars, NEW s \in Slots, slot[s].req \in Reqs,
         answer'[slot[s].req] = "open"
  PROVE  slot'[s].req = slot[s].req
<1> USE TypesOfLine DEF LineInv
<1>1. CASE EvictCancelled \/ EvictFinished \/ GpuFails \/ GpuPanics
  <2>1. PICK gone \in SUBSET Slots : GivenUp(gone)
    BY <1>1, EvictCancelledGivesUp, EvictFinishedGivesUp, GpuFailsGivesUp, GpuPanicsGivesUp
  <2> QED
    BY <2>1 DEF GivenUp, Ended
<1>2. ASSUME NEW t \in Slots, NEW q \in Reqs, Bind(t, q) PROVE slot'[s].req = slot[s].req
  BY <1>2, BindTakes, ReqsAssumption
<1>3. ASSUME NEW t \in Slots, NEW q \in Reqs, VisionFails(t, q)
      PROVE  slot'[s].req = slot[s].req
  BY <1>3, VisionFailsKeeps
<1>4. CASE GpuStep
  BY <1>4, GpuStepKeeps
<1>5. CASE JoinDone
  BY <1>5, RecomputeReq DEF JoinDone
<1>6. CASE \/ Handlers \/ UNCHANGED vars
           \/ Recv \/ DrainDone \/ (\E i \in DOMAIN waiting : ExpireOne(i)) \/ ExpireDone
           \/ JoinStart \/ Defer \/ BindFails \/ PlanPrefill \/ PlanDecode \/ PlanEmpty
           \/ Idle
  <2>1. UNCHANGED slot
    BY <1>6 DEF Handlers, Submit, Cancel, TimeElapses, vars, Recv, DrainDone,
       ExpireOne, ExpireDone, JoinStart, Defer, BindFails, PlanPrefill, PlanDecode,
       PlanEmpty, Idle
  <2> QED
    BY <2>1
<1> QED
  BY <1>1, <1>2, <1>3, <1>4, <1>5, <1>6 DEF Next, RunLoop, VisionFails

\* A slot whose request push_token has sent Failed to.
FailedSlot(sl) == IsActive(sl) /\ sl.finish = "Failed"

\* The slots' requests that have been told Failed are in `failed', and a failed
\* request that still waits for its last event is in a slot that has failed.
FailedInv ==
  /\ \A r \in failed : answer[r] # "new"
  /\ \A s \in Slots : FailedSlot(slot[s]) => slot[s].req \in failed
  /\ \A r \in failed :
       answer[r] = "open" => \E s \in Slots : slot[s].req = r /\ slot[s].finish = "Failed"

ToldInv == SlotInv /\ FailedInv

\* What a step may not do to a job that goes on.
SameTelling(x, sl) == x.req = sl.req /\ x.finish = sl.finish /\ x.nGen = sl.nGen

\* Only the GPU step and a bind tell a request anything before its end.
LEMMA OnlyTheseTell ==
  ASSUME SlotInv, [Next]_vars, ~GpuStep, ~(\E t \in Slots, q \in Reqs : Bind(t, q))
  PROVE  /\ failed' = failed
         /\ \A s \in Slots : IsActive(slot'[s]) => SameTelling(slot'[s], slot[s])
<1> USE TypesOfLine DEF SlotInv, LineInv
<1>1. CASE \/ Handlers \/ UNCHANGED vars
           \/ Recv \/ DrainDone \/ (\E i \in DOMAIN waiting : ExpireOne(i)) \/ ExpireDone
           \/ JoinStart \/ Defer \/ BindFails \/ PlanPrefill \/ PlanDecode \/ PlanEmpty
           \/ Idle
  <2>1. UNCHANGED <<slot, failed>>
    BY <1>1 DEF Handlers, Submit, Cancel, TimeElapses, vars, Recv, DrainDone,
       ExpireOne, ExpireDone, JoinStart, Defer, BindFails, PlanPrefill, PlanDecode,
       PlanEmpty, Idle, envVars
  <2> QED
    BY <2>1 DEF SameTelling
<1>2. CASE JoinDone
  <2>1. slot' = RecomputeSlotCaps(slot) /\ failed' = failed
    BY <1>2 DEF JoinDone, envVars
  <2> QED
    BY <2>1, RecomputeSameJob DEF SameJob, SameTelling
<1>3. ASSUME NEW t \in Slots, NEW q \in Reqs, VisionFails(t, q)
      PROVE  /\ failed' = failed
             /\ \A s \in Slots : IsActive(slot'[s]) => SameTelling(slot'[s], slot[s])
  <2>1. /\ failed' = failed /\ ~IsActive(slot[t]) /\ slot'[t].req = slot[t].req
        /\ \A s \in Slots \ {t} : slot'[s] = slot[s]
    BY <1>3, VisionFailsKeeps
  <2> QED
    BY <2>1 DEF SameTelling, IsActive
<1>4. CASE EvictCancelled
  <2> DEFINE gone == {x \in Slots : ToEvict(slot[x])}
             left == [x \in Slots |-> IF x \in gone THEN FinishSlot(slot[x]) ELSE slot[x]]
  <2>1. slot' = ReleaseRetained(left) /\ failed' = failed
    BY <1>4 DEF EvictCancelled, envVars
  <2>2. gone \in SUBSET {x \in Slots : IsActive(slot[x])}
    BY DEF ToEvict
  <2> HIDE DEF gone
  <2> QED
    BY <2>1, <2>2, GiveUpSlots DEF SameTelling
<1>5. CASE EvictFinished
  <2> DEFINE gone == {x \in Slots : IsFinished(slot[x])}
             left == [x \in Slots |-> IF x \in gone THEN FinishSlot(slot[x]) ELSE slot[x]]
             kept == ReleaseRetained(left)
  <2>1. slot' = RecomputeSlotCaps(kept) /\ failed' = failed
    BY <1>5 DEF EvictFinished, envVars
  <2>2. gone \in SUBSET {x \in Slots : IsActive(slot[x])}
    BY DEF IsFinished
  <2> HIDE DEF gone
  <2>3. /\ kept \in [Slots -> SlotRec]
        /\ \A s \in Slots : IsActive(kept[s]) => kept[s] = slot[s]
    BY <2>2, GiveUpSlots
  <2> HIDE DEF kept
  <2>4. ASSUME NEW s \in Slots, IsActive(slot'[s]) PROVE SameTelling(slot'[s], slot[s])
    <3>1. SameJob(slot'[s], kept[s])
      BY <2>1, <2>3, RecomputeSameJob
    <3>2. kept[s] = slot[s]
      BY <2>3, <2>4, <3>1 DEF SameJob, IsActive
    <3> QED
      BY <3>1, <3>2 DEF SameJob, SameTelling
  <2> QED
    BY <2>1, <2>4
<1>6. CASE GpuFails
  <2>1. /\ slot' = [s \in Slots |-> IF IsActive(slot[s]) THEN Vacant ELSE slot[s]]
        /\ failed' = failed
    BY <1>6 DEF GpuFails, envVars
  <2>2. ~IsActive(Vacant)
    BY DEF IsActive, Vacant
  <2> QED
    BY <2>1, <2>2
<1>7. CASE GpuPanics
  <2>1. PICK decoded \in BOOLEAN :
          slot' = [s \in Slots |->
            [Vacant EXCEPT !.kv = slot[s].kv + IF decoded THEN plan[s] ELSE 0]]
    BY <1>7 DEF GpuPanics
  <2>2. \A c : ~IsActive([Vacant EXCEPT !.kv = c])
    BY DEF IsActive, Vacant
  <2>3. failed' = failed
    BY <1>7 DEF GpuPanics, envVars
  <2> QED
    BY <2>1, <2>2, <2>3
<1> QED
  BY <1>1, <1>2, <1>3, <1>4, <1>5, <1>6, <1>7 DEF Next, RunLoop, VisionFails

\* A decode step of a slot that is over tells nothing.
LEMMA AfterGpuTells ==
  ASSUME NEW sl \in SlotRec, NEW take \in Nat, NEW x \in AfterGpu(sl, take),
         sl.phase # "Prefilling", sl.finish # "none"
  PROVE  SameTelling(x, sl)
<1> DEFINE Stepped == IF take = 0 THEN {sl}
                      ELSE UNION { Verified(sl, m) : m \in 0 .. sl.drafts }
<1>1. PICK y \in Stepped : x \in WithDrafts(y)
  BY DEF AfterGpu
<1>2. y \in SlotRec /\ SameTelling(y, sl)
  <2>1. CASE take = 0
    BY <1>1, <2>1 DEF SameTelling
  <2>2. CASE take # 0
    <3>1. PICK m \in 0 .. sl.drafts : y \in Verified(sl, m)
      BY <1>1, <2>2
    <3>2. y = [sl EXCEPT !.nPast = @ + 1 + m, !.kv = @ + 1 + m, !.drafts = 0,
                         !.replay = FALSE]
      BY <3>1 DEF Verified
    <3>3. y.req = sl.req /\ y.finish = sl.finish /\ y.nGen = sl.nGen
      BY <3>2 DEF SlotRec
    <3> QED
      BY <3>1, <3>3, VerifiedType DEF SameRequest, SameTelling
  <2> QED
    BY <2>1, <2>2
<1> QED
  BY <1>1, <1>2, WithDraftsSameJob DEF SameJob, SameTelling

\* The GPU step tells a slot that has failed nothing.
LEMMA GpuStepTells ==
  ASSUME SlotInv, GpuStep, NEW s \in Slots, FailedSlot(slot[s])
  PROVE  SameTelling(slot'[s], slot[s])
<1>1. PICK f \in [Slots -> UNION {AfterGpu(slot[t], plan[t]) : t \in Slots}] :
        slot' = f /\ \A t \in Slots : f[t] \in AfterGpu(slot[t], plan[t])
  BY DEF GpuStep
<1>2. slot'[s] \in AfterGpu(slot[s], plan[s]) /\ slot[s] \in SlotRec /\ plan[s] \in Nat
  BY <1>1 DEF SlotInv, LineInv, TypeOK
<1>3. slot[s].phase # "Prefilling" /\ slot[s].finish # "none"
  BY DEF SlotInv, SlotsRun, Runs, FailedSlot
<1> QED
  BY <1>2, <1>3, AfterGpuTells

\* A bind changes nothing in the slots that run.
LEMMA BindTells ==
  ASSUME SlotInv, NEW t \in Slots, NEW q \in Reqs, Bind(t, q)
  PROVE  \A s \in Slots \ {t} : SameTelling(slot'[s], slot[s])
<1> USE TypesOfLine DEF SlotInv, LineInv
<1>1. PICK sl \in BoundSlots(q) : slot' = RecomputeSlotCaps([slot EXCEPT ![t] = sl])
  BY DEF Bind
<1>2. [slot EXCEPT ![t] = sl] \in [Slots -> SlotRec]
  BY BoundSlotsType
<1>3. ASSUME NEW s \in Slots \ {t} PROVE SameTelling(slot'[s], slot[s])
  <2>1. [slot EXCEPT ![t] = sl][s] = slot[s]
    OBVIOUS
  <2> QED
    BY <1>1, <1>2, <2>1, RecomputeSameJob DEF SameJob, SameTelling
<1> QED
  BY <1>3

\* A slot that has failed tells nothing more, in any step.
LEMMA FailedSlotsStay ==
  ASSUME SlotInv, [Next]_vars, NEW s \in Slots, FailedSlot(slot[s]),
         slot'[s].req = slot[s].req
  PROVE  SameTelling(slot'[s], slot[s])
<1>1. CASE GpuStep
  BY <1>1, GpuStepTells
<1>2. ASSUME NEW t \in Slots, NEW q \in Reqs, Bind(t, q)
      PROVE  SameTelling(slot'[s], slot[s])
  <2>1. s # t
    BY <1>2, BindTakes DEF SlotInv, FailedSlot, IsActive
  <2> QED
    BY <1>2, <2>1, BindTells
<1>3. IsActive(slot'[s])
  BY DEF FailedSlot, IsActive
<1> QED
  BY <1>1, <1>2, <1>3, OnlyTheseTell

\* A request that is told Failed in a step runs after it.
LEMMA FailedStep ==
  ASSUME SlotInv, LineInv', [Next]_vars
  PROVE  /\ failed \subseteq failed'
         /\ \A r \in failed' \ failed :
              /\ GpuStep \/ \E t \in Slots, q \in Reqs : Bind(t, q)
              /\ r \in Reqs /\ answer'[r] = "open"
              /\ \E s \in Slots : slot'[s].req = r /\ slot'[s].finish = "Failed"
<1>1. CASE GpuStep \/ \E t \in Slots, q \in Reqs : Bind(t, q)
  <2>1. failed' = failed \cup FailedIn(slot')
    BY <1>1 DEF GpuStep, Bind
  <2>2. ASSUME NEW r \in FailedIn(slot')
        PROVE  /\ r \in Reqs /\ answer'[r] = "open"
               /\ \E s \in Slots : slot'[s].req = r /\ slot'[s].finish = "Failed"
    <3>1. PICK s \in Slots : IsActive(slot'[s]) /\ slot'[s].finish = "Failed"
                             /\ r = slot'[s].req
      BY <2>2 DEF FailedIn, ActiveSlots
    <3>2. r \in Reqs
      BY <3>1 DEF LineInv, TypeOK, SlotRec, IsActive
    <3>3. Running(r)'
      BY <3>1 DEF Running
    <3> QED
      BY <3>1, <3>2, <3>3 DEF LineInv, OneHome
  <2> QED
    BY <1>1, <2>1, <2>2
<1>2. CASE ~(GpuStep \/ \E t \in Slots, q \in Reqs : Bind(t, q))
  BY <1>2, OnlyTheseTell
<1> QED
  BY <1>1, <1>2

\* Every step keeps the account of who has been told Failed.
THEOREM FailedInductive == ToldInv /\ [Next]_vars => ToldInv'
<1> SUFFICES ASSUME ToldInv, [Next]_vars PROVE FailedInv'
  BY SlotInductive DEF ToldInv
<1>1. SlotInv /\ SlotInv' /\ LineInv /\ LineInv'
  BY SlotInductive DEF ToldInv, SlotInv
<1>2. ASSUME NEW r \in failed' PROVE answer'[r] # "new"
  <2>1. CASE r \in failed
    <3>1. r \in Reqs /\ answer[r] # "new"
      BY <1>1, <2>1 DEF ToldInv, FailedInv, LineInv, TypeOK
    <3> QED
      BY <1>1, <3>1, AnswerStep
  <2>2. CASE r \notin failed
    BY <1>1, <1>2, <2>2, FailedStep
  <2> QED
    BY <2>1, <2>2
<1>3. ASSUME NEW s \in Slots, FailedSlot(slot'[s]) PROVE slot'[s].req \in failed'
  <2>1. CASE GpuStep \/ \E t \in Slots, q \in Reqs : Bind(t, q)
    <3>1. failed' = failed \cup FailedIn(slot')
      BY <2>1 DEF GpuStep, Bind
    <3> QED
      BY <1>3, <3>1 DEF FailedIn, FailedSlot, ActiveSlots
  <2>2. CASE ~(GpuStep \/ \E t \in Slots, q \in Reqs : Bind(t, q))
    <3>1. failed' = failed /\ SameTelling(slot'[s], slot[s])
      BY <1>1, <1>3, <2>2, OnlyTheseTell DEF FailedSlot
    <3>2. FailedSlot(slot[s]) /\ slot'[s].req = slot[s].req
      BY <1>3, <3>1 DEF SameTelling, FailedSlot, IsActive
    <3> QED
      BY <3>1, <3>2 DEF ToldInv, FailedInv
  <2> QED
    BY <2>1, <2>2
<1>4. ASSUME NEW r \in failed', answer'[r] = "open"
      PROVE  \E s \in Slots : slot'[s].req = r /\ slot'[s].finish = "Failed"
  <2>1. CASE r \notin failed
    BY <1>1, <1>4, <2>1, FailedStep
  <2>2. CASE r \in failed
    <3>1. r \in Reqs /\ answer[r] # "new"
      BY <1>1, <2>2 DEF ToldInv, FailedInv, LineInv, TypeOK
    <3>2. answer[r] = "open"
      BY <1>1, <1>4, <3>1, AnswerStep
    <3>3. PICK s \in Slots : slot[s].req = r /\ slot[s].finish = "Failed"
      BY <2>2, <3>2 DEF ToldInv, FailedInv
    <3>4. slot'[s].req = r
      BY <1>1, <1>4, <3>1, <3>3, StaysUntilAnswered
    <3>5. FailedSlot(slot[s])
      BY <3>1, <3>3, ReqsAssumption DEF FailedSlot, IsActive
    <3> QED
      BY <1>1, <3>3, <3>4, <3>5, FailedSlotsStay DEF SameTelling
  <2> QED
    BY <2>1, <2>2
<1> QED
  BY <1>2, <1>3, <1>4 DEF FailedInv, FailedSlot, IsActive

\* The account of who has been told Failed is right throughout.
LEMMA FailedCorrect == Spec => []ToldInv
<1>1. Init => ToldInv
  <2> SUFFICES ASSUME Init PROVE ToldInv
    OBVIOUS
  <2>1. ~IsActive(Vacant)
    BY DEF IsActive, Vacant
  <2> QED
    BY <2>1, SlotInit DEF Init, ToldInv, FailedInv, FailedSlot
<1> QED
  BY <1>1, FailedInductive, PTL DEF Spec

\* A request told Failed by push_token whose slot is still busy gets no more text.
LEMMA NoTextAfterFailed ==
  ASSUME ToldInv, [Next]_vars, NEW r \in failed, NEW s \in Slots,
         slot[s].req = r, slot'[s].req = r
  PROVE  slot'[s].nGen = slot[s].nGen
<1>1. r \in Reqs /\ SlotInv /\ LineInv
  BY DEF ToldInv, SlotInv, LineInv, TypeOK
<1>2. answer[r] = "open"
  BY <1>1 DEF LineInv, OneHome, Running
<1>3. PICK t \in Slots : slot[t].req = r /\ slot[t].finish = "Failed"
  BY <1>2 DEF ToldInv, FailedInv
<1>4. t = s
  BY <1>1, <1>3, ReqsAssumption DEF LineInv, OneHome, IsActive
<1>5. FailedSlot(slot[s])
  BY <1>1, <1>3, <1>4, ReqsAssumption DEF FailedSlot, IsActive
<1> QED
  BY <1>1, <1>5, FailedSlotsStay DEF SameTelling

\* For any number of slots and requests, no event follows the one a request has
\* left the worker with, whichever of a slot, the queue timeout, a failed decode,
\* a failed bind or a panic it came from.  A token without text has its request
\* told Failed while the slot is busy: that is never taken back, nothing is
\* generated after it, and only the slot's own end follows.
THEOREM NothingAfterTheEndCorrect == Spec => NothingAfterTheEnd
<1>1. ToldInv /\ ToldInv' /\ [Next]_vars =>
        [\A r \in Reqs :
           /\ answer[r] \notin {"new", "open"} =>
                answer'[r] = answer[r] /\ (r \in failed' <=> r \in failed)
           /\ r \in failed =>
                /\ r \in failed'
                /\ \A s \in Slots :
                     slot[s].req = r /\ slot'[s].req = r => slot'[s].nGen = slot[s].nGen]_vars
  <2> SUFFICES ASSUME ToldInv, ToldInv', [Next]_vars, NEW r \in Reqs
               PROVE  /\ answer[r] \notin {"new", "open"} =>
                           answer'[r] = answer[r] /\ (r \in failed' <=> r \in failed)
                      /\ r \in failed =>
                           /\ r \in failed'
                           /\ \A s \in Slots : slot[s].req = r /\ slot'[s].req = r
                                                 => slot'[s].nGen = slot[s].nGen
    OBVIOUS
  <2>1. SlotInv /\ LineInv /\ LineInv'
    BY DEF ToldInv, SlotInv
  <2>2. r \in failed => r \in failed'
    BY <2>1, FailedStep
  <2>3. ASSUME answer[r] \notin {"new", "open"}
        PROVE  answer'[r] = answer[r] /\ (r \in failed' <=> r \in failed)
    <3>1. answer'[r] = answer[r]
      BY <2>1, <2>3, AnswerStep
    <3> QED
      BY <2>1, <2>2, <2>3, <3>1, FailedStep
  <2> QED
    BY <2>2, <2>3, NoTextAfterFailed
<1> QED
  BY <1>1, FailedCorrect, PTL DEF Spec, NothingAfterTheEnd

-----------------------------------------------------------------------------
(* The scheduler implements RequestSpec: what happens to one request, seen  *)
(* from its handler, is a path of the abstract life of a request.           *)

(* The stage of a request under the refinement mapping.                     *)

Stage(r) == IF r \in failed THEN "Failed"
            ELSE IF answer[r] # "open" THEN answer[r]
            ELSE IF Running(r) THEN "running" ELSE "queued"

stageOf == [r \in Reqs |-> Stage(r)]

\* A request that is told nothing and changes no place keeps its stage.
LEMMA StageKept ==
  ASSUME NEW r \in Reqs, answer'[r] = answer[r], Running(r)' <=> Running(r),
         r \in failed' <=> r \in failed
  PROVE  stageOf'[r] = stageOf[r]
BY DEF stageOf, Stage

\* So does one that has failed, whatever its slot ends with.
LEMMA StageFailed ==
  ASSUME NEW r \in Reqs, r \in failed, r \in failed'
  PROVE  stageOf'[r] = stageOf[r]
BY DEF stageOf, Stage

\* A request in the line has not been told anything.
LEMMA StageQueued ==
  ASSUME ToldInv, NEW r \in Reqs, Queued(r)
  PROVE  stageOf[r] = "queued" /\ r \notin failed
<1>1. answer[r] = "open" /\ ~Running(r)
  BY DEF ToldInv, SlotInv, LineInv, OneHome
<1>2. r \notin failed
  BY <1>1 DEF ToldInv, FailedInv, Running
<1> QED
  BY <1>1, <1>2 DEF stageOf, Stage

\* The stage of an open request that runs in a slot.
LEMMA StageRunning ==
  ASSUME LineInv, NEW r \in Reqs, Running(r), r \notin failed
  PROVE  stageOf[r] = "running"
BY DEF LineInv, OneHome, stageOf, Stage

\* The stage of an answered request is its answer.
LEMMA StageAnswered ==
  ASSUME NEW r \in Reqs, answer'[r] # "open", r \notin failed'
  PROVE  stageOf'[r] = answer'[r]
BY DEF stageOf, Stage

\* The mapped stage is a stage of RequestSpec.
LEMMA StagesType ==
  ASSUME TypeOK
  PROVE  stageOf \in [Reqs -> Promise!Stages]
BY DEF TypeOK, stageOf, Stage, Answers, Promise!Stages, Promise!Answers, Promise!Completed

\* What a step of the scheduler may do to the stage of one request.
Moves(r) ==
  \/ stageOf[r] = "new" /\ stageOf'[r] \in {"queued", "refused"}
  \/ stageOf[r] = "queued" /\ stageOf'[r] = "running"
  \/ stageOf[r] = "queued" /\ stageOf'[r] = "Failed"
  \/ stageOf[r] = "queued" /\ stageOf'[r] = "Timeout" /\ r \in elapsed
  \/ stageOf[r] = "running" /\ stageOf'[r] \in {"Stop", "Length", "Failed", "Lost"}
  \/ stageOf[r] = "running" /\ stageOf'[r] = "Cancelled" /\ r \in cancelled
  \/ stageOf[r] = "running" /\ stageOf'[r] = "Timeout" /\ r \in elapsed

Started == {r \in Reqs : stageOf[r] = "queued" /\ stageOf'[r] = "running"}

\* Such steps are steps of the abstract worker, if only a request that leaves the
\* queue gets a fresh timer, and one that starts does.
LEMMA ProgressStep ==
  ASSUME TypeOK', \A r \in Reqs : stageOf'[r] = stageOf[r] \/ Moves(r),
         cancelled' = cancelled, elapsed' \subseteq elapsed,
         \A r \in Started : r \notin elapsed',
         \A r \in elapsed \ elapsed' :
           r \in Reqs /\ stageOf[r] = "queued" /\ stageOf'[r] \in {"running", "Failed"}
  PROVE  Promise!Progress
<1>1. stageOf' \in [Reqs -> Promise!Stages]
  <2>1. (TypeOK => stageOf \in [Reqs -> Promise!Stages])'
    BY StagesType, PTL
  <2> QED
    BY <2>1 DEF Promise!Stages, Promise!Answers, Promise!Completed
<1>2. ASSUME NEW r \in Reqs
      PROVE  \/ stageOf'[r] = stageOf[r]
             \/ Promise!Arrives(r) \/ Promise!Starts(r)
             \/ Promise!FailsQueued(r) \/ Promise!EndsRunning(r)
  BY DEF Moves, stageOf, Stage, Promise!Arrives, Promise!Starts, Promise!FailsQueued,
         Promise!EndsRunning, Promise!Completed
<1>3. \A r \in Reqs : Promise!Starts(r) => r \notin elapsed'
  BY DEF Started, Promise!Starts, stageOf, Stage
<1>4. ASSUME NEW r \in elapsed \ elapsed'
      PROVE  r \in Reqs /\ stageOf[r] = "queued" /\ stageOf'[r] \in {"running", "Failed"}
  BY <1>4
<1> QED
  BY <1>1, <1>2, <1>3, <1>4 DEF Promise!Progress, stageOf, Stage

-----------------------------------------------------------------------------
(* The steps of the scheduler.                                              *)

\* A step that answers no one and moves no request is a stutter.
LEMMA NoMove ==
  ASSUME UNCHANGED <<answer, cancelled, elapsed, failed>>,
         \A s \in Slots : slot'[s].req = slot[s].req
  PROVE  UNCHANGED <<stageOf, cancelled, elapsed>>
<1>1. \A r \in Reqs : Running(r)' <=> Running(r)
  BY DEF Running
<1>2. \A r \in Reqs : stageOf'[r] = stageOf[r]
  BY <1>1, StageKept
<1> QED
  BY <1>2 DEF stageOf

\* One request changes its stage.
LEMMA OneMove ==
  ASSUME TypeOK', NEW r \in Reqs, Moves(r), ~(stageOf[r] = "queued" /\ stageOf'[r] = "running"),
         UNCHANGED <<cancelled, elapsed, failed>>,
         \A q \in Reqs \ {r} : answer'[q] = answer[q],
         \A s \in Slots : slot'[s].req = slot[s].req
  PROVE  Promise!Progress
<1>1. \A q \in Reqs : Running(q)' <=> Running(q)
  BY DEF Running
<1>2. \A q \in Reqs \ {r} : stageOf'[q] = stageOf[q]
  BY <1>1, StageKept
<1>3. Started = {}
  BY <1>2 DEF Started
<1>4. elapsed' \subseteq elapsed /\ elapsed \ elapsed' = {}
  OBVIOUS
<1> QED
  BY <1>2, <1>3, <1>4, ProgressStep

\* Submit is an arrival.
LEMMA SubmitPromise ==
  ASSUME ToldInv, LineInv', NEW r \in Reqs, Submit(r)
  PROVE  Promise!Progress
<1> USE DEF ToldInv, SlotInv
<1>1. /\ answer[r] = "new" /\ UNCHANGED <<slot, cancelled, elapsed, failed>>
      /\ answer'[r] \in {"open", "refused"}
      /\ \A q \in Reqs \ {r} : answer'[q] = answer[q]
  BY DEF Submit, LineInv, TypeOK
<1>2. r \notin failed
  BY <1>1 DEF FailedInv
<1>3. ~Running(r)' /\ stageOf[r] = "new"
  BY <1>1, <1>2 DEF LineInv, OneHome, Running, stageOf, Stage
<1>4. stageOf'[r] \in {"queued", "refused"}
  BY <1>1, <1>2, <1>3 DEF stageOf, Stage
<1>5. Moves(r)
  BY <1>3, <1>4 DEF Moves
<1> QED
  BY <1>1, <1>3, <1>5, OneMove DEF LineInv

\* A waiting request whose timer ran out fails in the queue.
LEMMA ExpireOnePromise ==
  ASSUME ToldInv, LineInv', NEW i \in DOMAIN waiting, ExpireOne(i)
  PROVE  Promise!Progress
<1> DEFINE r == waiting[i]
<1>1. In(waiting, r) /\ r \in Reqs
  BY TypesOfLine, InReqs DEF In, ToldInv, SlotInv, LineInv
<1>2. Queued(r)
  BY <1>1, QueuedIn
<1>3. /\ r \in elapsed /\ answer'[r] = "Timeout"
      /\ \A q \in Reqs \ {r} : answer'[q] = answer[q]
      /\ UNCHANGED <<slot, cancelled, elapsed, failed>>
  BY <1>1 DEF ExpireOne, ToldInv, SlotInv, LineInv, TypeOK, envVars
<1> HIDE DEF r
<1>4. stageOf[r] = "queued" /\ stageOf'[r] = "Timeout"
  BY <1>1, <1>2, <1>3, StageQueued, StageAnswered
<1>5. Moves(r)
  BY <1>3, <1>4 DEF Moves
<1> QED
  BY <1>1, <1>3, <1>4, <1>5, OneMove DEF LineInv

\* The request at the head of the pass fails.
LEMMA HeadFailsPromise ==
  ASSUME ToldInv, LineInv', picks # <<>>,
         answer' = [answer EXCEPT ![PickedReq] = "Failed"],
         UNCHANGED <<cancelled, elapsed, failed>>,
         \A s \in Slots : slot'[s].req = slot[s].req
  PROVE  Promise!Progress
<1> DEFINE r == PickedReq
<1>1. r \in Reqs /\ Queued(r)
  BY HeadQueued DEF ToldInv, SlotInv
<1>2. answer'[r] = "Failed" /\ \A q \in Reqs \ {r} : answer'[q] = answer[q]
  BY <1>1 DEF ToldInv, SlotInv, LineInv, TypeOK
<1> HIDE DEF r
<1>3. stageOf[r] = "queued" /\ stageOf'[r] = "Failed"
  BY <1>1, <1>2, StageQueued, StageAnswered
<1>4. Moves(r)
  BY <1>3 DEF Moves
<1> QED
  BY <1>1, <1>2, <1>3, <1>4, OneMove DEF LineInv

\* Bind is the start of a request, with a fresh timer; an image request may fail
\* at its first token.
LEMMA BindPromise ==
  ASSUME ToldInv, LineInv', [Next]_vars, NEW s \in Slots, NEW r \in Reqs, Bind(s, r)
  PROVE  Promise!Progress
<1> USE DEF ToldInv, SlotInv
<1>1. /\ slot'[s].req = r /\ slot[s].req = NoReq
      /\ \A t \in Slots : t # s => slot'[t].req = slot[t].req
  BY BindTakes
<1>2. UNCHANGED <<answer, cancelled>> /\ elapsed' = elapsed \ {r}
  BY DEF Bind, RestartTimer
<1>3. Queued(r)
  BY HeadQueued DEF Bind, Bindable, PickedReq
<1>4. answer[r] = "open" /\ r # NoReq
  BY <1>3, ReqsAssumption DEF LineInv, OneHome
<1>5. stageOf[r] = "queued" /\ stageOf'[r] \in {"running", "Failed"}
  <2>1. Running(r)'
    BY <1>1 DEF Running
  <2> QED
    BY <1>2, <1>3, <1>4, <2>1, StageQueued DEF stageOf, Stage
<1>6. ASSUME NEW q \in Reqs, q # r PROVE stageOf'[q] = stageOf[q]
  <2>1. Running(q)' <=> Running(q)
    BY <1>1, <1>6, ReqsAssumption DEF Running
  <2>2. ASSUME q \in failed' PROVE q \in failed
    <3>1. q \in failed \/ \E t \in Slots : slot'[t].req = q /\ slot'[t].finish = "Failed"
      BY <2>2, FailedStep
    <3>2. ASSUME NEW t \in Slots, slot'[t].req = q, slot'[t].finish = "Failed"
          PROVE  q \in failed
      <4>1. t # s
        BY <1>1, <1>6, <3>2
      <4>2. SameTelling(slot'[t], slot[t])
        BY <4>1, BindTells
      <4>3. FailedSlot(slot[t]) /\ slot[t].req = q
        BY <3>2, <4>2, <1>6, ReqsAssumption DEF SameTelling, FailedSlot, IsActive
      <4> QED
        BY <4>3 DEF FailedInv
    <3> QED
      BY <3>1, <3>2
  <2>3. q \in failed => q \in failed'
    BY FailedStep
  <2> QED
    BY <1>2, <2>1, <2>2, <2>3, StageKept
<1>7. Moves(r)
  BY <1>5 DEF Moves
<1>8. /\ elapsed' \subseteq elapsed /\ \A q \in Started : q \notin elapsed'
      /\ \A q \in elapsed \ elapsed' : q = r
  BY <1>2, <1>6 DEF Started
<1> QED
  BY <1>2, <1>5, <1>6, <1>7, <1>8, ProgressStep DEF LineInv

\* Slots are given up with an answer their requests may get.
LEMMA GivenUpPromise ==
  ASSUME ToldInv, LineInv', NEW gone \in SUBSET Slots, GivenUp(gone),
         UNCHANGED <<cancelled, elapsed, failed>>
  PROVE  Promise!Progress
<1>1. ASSUME NEW r \in Reqs, \E s \in gone : slot[s].req = r, r \notin failed
      PROVE  Moves(r) /\ stageOf'[r] # "running"
  <2>1. Ended(r) /\ Running(r)
    BY <1>1 DEF GivenUp, Running
  <2>2. stageOf[r] = "running" /\ stageOf'[r] = answer'[r]
    BY <1>1, <2>1, StageRunning, StageAnswered DEF Ended, ToldInv, SlotInv
  <2> QED
    BY <2>1, <2>2 DEF Ended, Moves
<1>2. ASSUME NEW r \in Reqs, r \in failed \/ ~\E s \in gone : slot[s].req = r
      PROVE  stageOf'[r] = stageOf[r]
  <2>1. CASE r \in failed
    BY <2>1, StageFailed
  <2>2. CASE ~\E s \in gone : slot[s].req = r
    <3>1. answer'[r] = answer[r]
      BY <2>2 DEF GivenUp
    <3>2. Running(r)' <=> Running(r)
      BY <2>2, ReqsAssumption DEF GivenUp, Running
    <3> QED
      BY <3>1, <3>2, StageKept
  <2> QED
    BY <1>2, <2>1, <2>2
<1>3. Started = {}
  BY <1>1, <1>2 DEF Started
<1>4. elapsed' \subseteq elapsed /\ elapsed \ elapsed' = {}
  OBVIOUS
<1> QED
  BY <1>1, <1>2, <1>3, <1>4, ProgressStep DEF LineInv

\* The GPU step fails the requests whose tokens have no text.
LEMMA GpuStepPromise ==
  ASSUME ToldInv, LineInv', [Next]_vars, GpuStep
  PROVE  Promise!Progress
<1> USE DEF ToldInv, SlotInv
<1>1. UNCHANGED <<answer, cancelled, elapsed>>
  BY DEF GpuStep
<1>2. \A s \in Slots : slot'[s].req = slot[s].req
  BY GpuStepKeeps
<1>3. \A r \in Reqs : Running(r)' <=> Running(r)
  BY <1>2 DEF Running
<1>4. ASSUME NEW r \in Reqs, r \in failed' \ failed
      PROVE  Moves(r) /\ stageOf'[r] # "running"
  <2>1. Running(r)
    BY <1>3, <1>4, FailedStep DEF Running
  <2>2. stageOf[r] = "running" /\ stageOf'[r] = "Failed"
    BY <1>4, <2>1, StageRunning DEF stageOf, Stage
  <2> QED
    BY <2>2 DEF Moves
<1>5. ASSUME NEW r \in Reqs, r \notin failed' \ failed
      PROVE  stageOf'[r] = stageOf[r]
  <2>1. r \in failed' <=> r \in failed
    BY <1>5, FailedStep
  <2> QED
    BY <1>1, <1>3, <2>1, StageKept
<1>6. Started = {}
  BY <1>4, <1>5 DEF Started
<1>7. elapsed' \subseteq elapsed /\ elapsed \ elapsed' = {}
  BY <1>1
<1> QED
  BY <1>1, <1>4, <1>5, <1>6, <1>7, ProgressStep DEF LineInv

-----------------------------------------------------------------------------

\* The initial states of the scheduler are initial states of RequestSpec.
LEMMA PromiseInit == Init => Promise!Init
<1> SUFFICES ASSUME Init PROVE Promise!Init
  OBVIOUS
<1>1. answer = [r \in Reqs |-> "new"] /\ cancelled = {} /\ elapsed = {} /\ failed = {}
  BY DEF Init
<1> QED
  BY <1>1 DEF Promise!Init

\* Every step of the handlers and of run_loop is a step of RequestSpec or leaves
\* all it speaks of unchanged.
LEMMA PromiseStep ==
  ASSUME ToldInv, LineInv', [Next]_vars
  PROVE  Promise!Next \/ UNCHANGED <<stageOf, cancelled, elapsed>>
<1>0. LineInv
  BY DEF ToldInv, SlotInv
<1> USE DEF envVars, queueVars
<1>1. ASSUME NEW r \in Reqs, Submit(r) PROVE Promise!Next
  BY <1>1, SubmitPromise DEF Promise!Next
<1>2. ASSUME NEW r \in Reqs, Cancel(r) PROVE Promise!Next
  <2>1. stageOf[r] \in Promise!Waits /\ stageOf' = stageOf
    BY <1>2 DEF Cancel, stageOf, Stage, Running, Promise!Waits
  <2>2. Promise!GoesAway(r)
    BY <1>2, <2>1 DEF Cancel, Promise!GoesAway, Promise!Waits, stageOf, Stage
  <2> QED
    BY <2>2 DEF Promise!Next
<1>3. ASSUME NEW r \in Reqs, TimeElapses(r) PROVE Promise!Next
  <2>1. stageOf[r] \in Promise!Waits /\ stageOf' = stageOf
    BY <1>3 DEF TimeElapses, stageOf, Stage, Running, Promise!Waits
  <2>2. Promise!RunsOut(r)
    BY <1>3, <2>1 DEF TimeElapses, Promise!RunsOut, Promise!Waits, stageOf, Stage
  <2> QED
    BY <2>2 DEF Promise!Next
<1>4. ASSUME NEW i \in DOMAIN waiting, ExpireOne(i) PROVE Promise!Next
  BY <1>4, ExpireOnePromise DEF Promise!Next
<1>5. CASE EvictCancelled \/ EvictFinished \/ GpuFails \/ GpuPanics
  <2>1. PICK gone \in SUBSET Slots : GivenUp(gone)
    BY <1>0, <1>5, EvictCancelledGivesUp, EvictFinishedGivesUp, GpuFailsGivesUp,
       GpuPanicsGivesUp
  <2>2. UNCHANGED <<cancelled, elapsed, failed>>
    BY <1>5 DEF EvictCancelled, EvictFinished, GpuFails, GpuPanics
  <2> QED
    BY <2>1, <2>2, GivenUpPromise DEF Promise!Next
<1>6. CASE BindFails
  BY <1>6, HeadFailsPromise DEF BindFails, Promise!Next
<1>7. ASSUME NEW s \in Slots, NEW r \in Reqs, VisionFails(s, r) PROVE Promise!Next
  <2>1. /\ picks # <<>> /\ PickedReq = r
        /\ answer' = [answer EXCEPT ![r] = "Failed"]
        /\ UNCHANGED <<cancelled, elapsed, failed>>
        /\ \A t \in Slots : slot'[t].req = slot[t].req
    BY <1>0, <1>7, VisionFailsKeeps
  <2> QED
    BY <2>1, HeadFailsPromise DEF Promise!Next
<1>8. ASSUME NEW s \in Slots, NEW r \in Reqs, Bind(s, r) PROVE Promise!Next
  BY <1>8, BindPromise DEF Promise!Next
<1>9. CASE JoinDone
  <2>1. \A s \in Slots : slot'[s].req = slot[s].req
    BY <1>0, <1>9, RecomputeReq, TypesOfLine DEF JoinDone, LineInv
  <2> QED
    BY <1>9, <2>1, NoMove DEF JoinDone
<1>10. CASE GpuStep
  BY <1>10, GpuStepPromise DEF Promise!Next
<1>11. CASE \/ Recv \/ DrainDone \/ ExpireDone \/ JoinStart \/ Defer \/ PlanPrefill
            \/ PlanDecode \/ PlanEmpty \/ Idle
  <2>1. UNCHANGED <<answer, cancelled, elapsed, failed, slot>>
    BY <1>11 DEF Recv, DrainDone, ExpireDone, JoinStart, Defer, PlanPrefill, PlanDecode,
                 PlanEmpty, Idle
  <2> QED
    BY <2>1, NoMove
<1>12. CASE UNCHANGED vars
  BY <1>12, NoMove DEF vars
<1> QED
  BY <1>1, <1>2, <1>3, <1>4, <1>5, <1>6, <1>7, <1>8, <1>9, <1>10, <1>11, <1>12
  DEF Next, Handlers, RunLoop, VisionFails

\* The life of every request, as its handler sees it, is one RequestSpec allows:
\* it starts at most once, its first terminal event is allowed where it stands and
\* is never replaced, it is told Cancelled only if its client left and Timeout
\* only if the timer of its current phase ran out.
THEOREM PromiseKept == Spec => KeepsPromise
<1>1. ToldInv /\ LineInv' /\ [Next]_vars => [Promise!Next]_<<stageOf, cancelled, elapsed>>
  BY PromiseStep
<1>2. ToldInv => LineInv
  BY DEF ToldInv, SlotInv
<1> QED
  BY <1>1, <1>2, PromiseInit, FailedCorrect, PTL
  DEF Spec, KeepsPromise, Promise!Spec, stageOf, Stage
=============================================================================
