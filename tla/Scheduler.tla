------------------------------ MODULE Scheduler ------------------------------
(***************************************************************************)
(* The continuous-batching loop of golbang-core/src/scheduler.rs: one      *)
(* worker task (run_loop) that owns the slots, and the HTTP handlers that  *)
(* submit requests through a bounded channel, cancel them, or let their    *)
(* timeout elapse while the worker is anywhere in its iteration.           *)
(*                                                                         *)
(* Data kept: token and cell COUNTS.  A prompt is its length, a sampled    *)
(* token is "a token", "end of generation" or "completes a stop string",   *)
(* a bind's prefix reuse is any length the prefix tiers could return.      *)
(***************************************************************************)
EXTENDS CtxCap, Integers, Sequences, FiniteSets, Functions

CONSTANTS
  Slots,          \* --n-parallel sequences
  Reqs, NoReq,    \* requests; NoReq marks an idle slot
  PromptLen,      \* prompt cells per request; 0: nothing to encode
  MaxTokens,      \* max_tokens as requested
  Vision,         \* requests that carry images
  Timed,          \* requests with a timeout
  Leavers,        \* requests whose client may go away
  QueueSize,      \* --queue-size
  Pool,           \* cells of the shared KV pool (n_ctx)
  SingleMaxCtx,   \* --single-max-ctx
  SpecNMax,       \* verify_n_max(); 0: speculation off
  NRsSeq,         \* longest draft rolled back without a snapshot
  NBatch,         \* tokens per llama_decode
  PrefillMax, YieldEvery, YieldMax,   \* IterationBudget
  WatermarkPct,   \* RETAINED_WATERMARK, in percent
  Faults          \* failures the engine may produce: "decode", "panic", "eval"
                  \* (an image evaluation), "overflow" (it is longer than the
                  \* tokenizer said), "sample" (the first token after it),
                  \* "piece" (the text of a sampled token)

ASSUME SlotsAssumption == IsFiniteSet(Slots) /\ Slots # {}
ASSUME ReqsAssumption ==
  IsFiniteSet(Reqs) /\ NoReq \notin Reqs /\ {Vision, Timed, Leavers} \subseteq SUBSET Reqs
ASSUME RequestAssumption ==
  PromptLen \in [Reqs -> U32] /\ MaxTokens \in [Reqs -> U32]
ASSUME SizeAssumption ==
  /\ Pool \in U32 /\ SingleMaxCtx \in U32 /\ SpecNMax \in U32
  /\ {QueueSize, NRsSeq, NBatch, YieldEvery, YieldMax, WatermarkPct} \subseteq Nat
  /\ PrefillMax \in Nat \ {0}
\* n_batch holds a verify batch of every slot, so no draft is cut off and
\* every prefilling slot gets at least one token.
ASSUME BatchAssumption ==
  NBatch >= Cardinality(Slots) * (1 + SpecNMax)

VARIABLES
  chan,       \* the mpsc channel the handlers send into
  waiting,    \* requests the worker has taken but not bound
  picks,      \* this pass's <<slot, request>> pairs, in arrival order
  rejected,   \* deferred this pass, prepended to waiting at its end
  slot,       \* the slots
  answer,     \* where each request stands: the event it left the worker with
  ticket,     \* arrival number, 0 before submission
  cancelled, elapsed,   \* cancelled tokens; timers past their limit
  failed,     \* requests that push_token has sent Failed to
  sinceYield, \* decode-only iterations since the last prefill yield
  plan,       \* tokens each slot contributes to the next llama_decode
  pc          \* where run_loop is

queueVars == <<chan, waiting, picks, rejected>>
envVars   == <<ticket, cancelled, elapsed, failed>>
vars == <<chan, waiting, picks, rejected, slot, answer, ticket, cancelled,
          elapsed, failed, sinceYield, plan, pc>>

-----------------------------------------------------------------------------
(* Slots. `kv' is what the sequence occupies on the GPU; prefixLen and      *)
(* retained are what the idle slot remembers of it.                         *)

Vacant ==
  [req |-> NoReq, phase |-> "Empty", nPast |-> 0, nGen |-> 0, ctxCap |-> 0,
   maxTok |-> 0, pending |-> FALSE, drafts |-> 0, replay |-> FALSE,
   finish |-> "none", kv |-> 0, prefixLen |-> 0, retained |-> FALSE]

SlotRec ==
  [req : Reqs \cup {NoReq}, phase : {"Empty", "Prefilling", "Decoding"},
   nPast : Nat, nGen : Nat, ctxCap : Nat, maxTok : Nat, pending : BOOLEAN,
   drafts : 0 .. SpecNMax, replay : BOOLEAN,
   finish : {"none", "Stop", "Length", "Failed"},   \* "Failed": Stop, after Failed was sent
   kv : Nat, prefixLen : Nat, retained : BOOLEAN]

IsActive(sl) == sl.req # NoReq

ActiveSlots(sts) == {s \in Slots : IsActive(sts[s])}

\* Cells counted when caps are handed out: prefix of an idle slot is free.
UsedForCap(sl) ==
  IF IsActive(sl) THEN Larger(sl.nPast, PromptLen[sl.req]) ELSE 0

\* Cells counted against the release watermark.
Used(sl) == IF IsActive(sl) THEN UsedForCap(sl) ELSE sl.prefixLen

\* A sum over the slots, as the number of its cells.
CellCount(f) == Cardinality(UNION { {s} \X (1 .. f[s]) : s \in Slots })

Total(sts, Cells(_)) == CellCount([s \in Slots |-> Cells(sts[s])])

\* Cells the sequence really occupies.
Resident(sl) == sl.kv

SoloMax == ResolveSingleMax(SingleMaxCtx, Pool)

MaxTokensReq(r) == Larger(MaxTokens[r], 1)

\* max_tokens follows the cap, and rises again when the cap does.
WithCap(sl, cap) ==
  [sl EXCEPT !.ctxCap = cap,
             !.maxTok = Smaller(MaxTokensReq(sl.req),
                                Larger(SatSub(cap, PromptLen[sl.req]), 1))]

RecomputeSlotCaps(sts) ==
  LET n     == Cardinality(ActiveSlots(sts))
      total == Total(sts, UsedForCap)
      Cap(sl) == EffectiveCap(SlotCap(SoloMax, UsedForCap(sl), Pool, n, SpecNMax),
                              UsedForCap(sl), Pool,
                              SatSub(total, UsedForCap(sl)), SpecNMax, n)
  IN  [s \in Slots |-> IF IsActive(sts[s]) THEN WithCap(sts[s], Cap(sts[s]))
                                           ELSE sts[s]]

FinishSlotStillBusy(sl) ==
  [sl EXCEPT !.retained = TRUE, !.prefixLen = Smaller(sl.nPast, PromptLen[sl.req] + sl.nGen)]

\* The sequence stays on the GPU for the next turn; what the slot remembers
\* is cut to the cells that are really there.
FinishSlot(sl) ==
  [Vacant EXCEPT !.kv = sl.kv, !.retained = TRUE,
                 !.prefixLen = Smaller(sl.nPast, PromptLen[sl.req] + sl.nGen)]

ReleaseRetainedKeepsCells(sts) ==
  IF 100 * Total(sts, Used) > WatermarkPct * Pool
  THEN [s \in Slots |-> IF sts[s].retained
                        THEN [sts[s] EXCEPT !.prefixLen = 0, !.retained = FALSE]
                        ELSE sts[s]]
  ELSE sts

ReleaseRetainedWhenFull(sts) ==
  IF Total(sts, Used) > Pool
  THEN [s \in Slots |-> IF sts[s].retained
                        THEN [sts[s] EXCEPT !.kv = 0, !.prefixLen = 0,
                                            !.retained = FALSE]
                        ELSE sts[s]]
  ELSE sts

\* Above the watermark every retained prefix goes.
ReleaseRetained(sts) ==
  IF 100 * Total(sts, Used) > WatermarkPct * Pool
  THEN [s \in Slots |-> IF sts[s].retained
                        THEN [sts[s] EXCEPT !.kv = 0, !.prefixLen = 0,
                                            !.retained = FALSE]
                        ELSE sts[s]]
  ELSE sts

-----------------------------------------------------------------------------
(* Token emission.                                                          *)

\* How many of the accepted tokens can be pushed before Length cuts in.
PushLimit(sl, accepted) ==
  IF sl.nPast + 1 > sl.ctxCap THEN 1
  ELSE Smaller(accepted, Larger(SatSub(sl.maxTok, sl.nGen), 1))

\* push_token over the accepted tokens: all of them, or up to an end-of-
\* generation token (not emitted), a token that completes a stop string, or one
\* that has no text: Failed is sent at once and the slot ends with Stop as well.
Emitted(sl, accepted) ==
  LET lim == PushLimit(sl, accepted)
      ByLength(k) == sl.nGen + k >= sl.maxTok
  IN  { [sl EXCEPT !.phase = "Decoding", !.nGen = @ + lim, !.pending = TRUE,
                   !.finish = IF ByLength(lim) \/ sl.nPast + 1 > sl.ctxCap
                              THEN "Length" ELSE "none"] }
      \cup { [sl EXCEPT !.phase = "Decoding", !.nGen = @ + k, !.pending = FALSE,
                        !.finish = "Stop"] : k \in 0 .. (lim - 1) }
      \cup { [sl EXCEPT !.phase = "Decoding", !.nGen = @ + k, !.pending = TRUE,
                        !.finish = "Stop"] : k \in {i \in 1 .. lim : ~ByLength(i)} }
      \cup { [sl EXCEPT !.phase = "Decoding", !.nGen = @ + k, !.pending = @ \/ k > 0,
                        !.finish = "Failed"] :
              k \in {i \in 0 .. (lim - 1) : "piece" \in Faults} }

\* The requests that have been told Failed by a slot that is still theirs.
FailedIn(sts) == {sts[s].req : s \in {t \in ActiveSlots(sts) : sts[t].finish = "Failed"}}

DraftMaxUnbounded(sl) ==
  Smaller(SatSub(SatSub(sl.ctxCap, sl.nPast + 1), 1),
          SatSub(SatSub(sl.maxTok, sl.nGen), 1))

\* Never past the cap, max_tokens or the configured draft length.
DraftMax(sl) ==
  Smaller(SpecNMax, Smaller(SatSub(SatSub(sl.ctxCap, sl.nPast + 1), 1),
                            SatSub(SatSub(sl.maxTok, sl.nGen), 1)))

\* A slot that re-verifies its accepted prefix keeps it; any other running
\* slot drops its drafts and may get new ones.
WithDrafts(sl) ==
  IF ~IsActive(sl) \/ (sl.replay /\ sl.drafts > 0) THEN {sl}
  ELSE LET most == IF sl.finish = "none" /\ sl.pending THEN DraftMax(sl) ELSE 0
       IN  { [sl EXCEPT !.drafts = d] : d \in 0 .. most }

VerifiedKeepsRejected(sl, m) ==
  LET d    == sl.drafts
      keep == [sl EXCEPT !.nPast = @ + 1 + m, !.kv = @ + 1 + d,
                         !.drafts = 0, !.replay = FALSE]
  IN  IF sl.finish # "none" THEN {keep}
      ELSE IF m < d /\ d > NRsSeq THEN { [sl EXCEPT !.drafts = m + 1, !.replay = TRUE] }
      ELSE Emitted(keep, m + 1)

\* Verification of d drafts of which m match.  A mismatch in a draft too long
\* to roll back restores the snapshot and emits nothing: the accepted tokens
\* are verified again next iteration.
Verified(sl, m) ==
  LET d    == sl.drafts
      keep == [sl EXCEPT !.nPast = @ + 1 + m, !.kv = @ + 1 + m,
                         !.drafts = 0, !.replay = FALSE]
  IN  IF sl.finish # "none" THEN {keep}
      ELSE IF m < d /\ d > NRsSeq THEN { [sl EXCEPT !.drafts = m + 1, !.replay = TRUE] }
      ELSE Emitted(keep, m + 1)

Prefilled(sl, take) ==
  LET sl1 == [sl EXCEPT !.nPast = @ + take, !.kv = @ + take]
  IN  IF sl1.nPast < PromptLen[sl.req] THEN {sl1} ELSE Emitted(sl1, 1)

\* Everything one iteration's GPU step can make of a slot.
AfterGpu(sl, take) ==
  UNION { WithDrafts(x) :
          x \in IF take = 0 THEN {sl}
                ELSE IF sl.phase = "Prefilling" THEN Prefilled(sl, take)
                ELSE UNION { Verified(sl, m) : m \in 0 .. sl.drafts } }

-----------------------------------------------------------------------------
(* The handlers' side.                                                      *)

\* try_submit: never blocks; a full channel is a 503.
Submit(r) ==
  /\ answer[r] = "new"
  /\ IF Len(chan) < Larger(QueueSize, 1)
     THEN /\ chan' = Append(chan, r)
          /\ answer' = [answer EXCEPT ![r] = "open"]
          /\ ticket' = [ticket EXCEPT ![r] =
                          1 + Cardinality({q \in Reqs : ticket[q] > 0})]
     ELSE /\ answer' = [answer EXCEPT ![r] = "refused"]
          /\ UNCHANGED <<chan, ticket>>
  /\ UNCHANGED <<waiting, picks, rejected, slot, cancelled, elapsed, failed,
                 sinceYield, plan, pc>>

\* The client goes away: the handler's drop guard cancels the token.
Cancel(r) ==
  /\ r \in Leavers \ cancelled /\ answer[r] = "open"
  /\ cancelled' = cancelled \cup {r}
  /\ UNCHANGED <<queueVars, slot, answer, ticket, elapsed, failed, sinceYield, plan, pc>>

\* The timer of a queued or a running request passes its limit.
TimeElapses(r) ==
  /\ r \in Timed \ elapsed /\ answer[r] = "open"
  /\ elapsed' = elapsed \cup {r}
  /\ UNCHANGED <<queueVars, slot, answer, ticket, cancelled, failed, sinceYield, plan, pc>>

-----------------------------------------------------------------------------
(* The worker: run_loop.                                                    *)

Goto(from, to) == pc = from /\ pc' = to

Recv ==
  /\ pc = "drain" /\ chan # <<>>
  /\ waiting' = Append(waiting, Head(chan))
  /\ chan' = Tail(chan)
  /\ UNCHANGED <<picks, rejected, slot, answer, envVars, sinceYield, plan, pc>>

DrainDone ==
  /\ Goto("drain", "expire") /\ chan = <<>>
  /\ UNCHANGED <<queueVars, slot, answer, envVars, sinceYield, plan>>

\* expire_waiting_timeouts drops the expired requests and keeps the order.
ExpireOne(i) ==
  /\ pc = "expire" /\ waiting[i] \in elapsed
  /\ waiting' = [j \in 1 .. (Len(waiting) - 1) |->
                   IF j < i THEN waiting[j] ELSE waiting[j + 1]]
  /\ answer' = [answer EXCEPT ![waiting[i]] = "Timeout"]
  /\ UNCHANGED <<chan, picks, rejected, slot, envVars, sinceYield, plan, pc>>

ExpireDone ==
  /\ Goto("expire", "evict")
  /\ \A i \in DOMAIN waiting : waiting[i] \notin elapsed
  /\ UNCHANGED <<queueVars, slot, answer, envVars, sinceYield, plan>>

ToEvict(sl) == IsActive(sl) /\ sl.req \in cancelled \cup elapsed

AnsweredBy(sts, Leaves(_), Reason(_)) ==
  [r \in Reqs |->
     IF \E s \in Slots : sts[s].req = r /\ Leaves(sts[s])
     THEN Reason(sts[CHOOSE s \in Slots : sts[s].req = r /\ Leaves(sts[s])])
     ELSE answer[r]]

\* evict_cancelled, then release_retained_under_pressure.
EvictCancelled ==
  /\ Goto("evict", "join")
  /\ LET Reason(sl) == IF sl.req \in cancelled THEN "Cancelled" ELSE "Timeout"
     IN  answer' = AnsweredBy(slot, ToEvict, Reason)
  /\ slot' = ReleaseRetained([s \in Slots |->
                IF ToEvict(slot[s]) THEN FinishSlot(slot[s]) ELSE slot[s]])
  /\ UNCHANGED <<queueVars, envVars, sinceYield, plan>>

JoinStartNewestFirst ==
  /\ Goto("join", "bind")
  /\ LET idle == Slots \ ActiveSlots(slot)
         n    == Smaller(Cardinality(idle), Len(waiting))
         left == Len(waiting) - n
     IN  \E f \in Injection(1 .. n, idle) :
           /\ picks' = [i \in 1 .. n |-> [slot |-> f[i], req |-> waiting[left + i]]]
           /\ waiting' = SubSeq(waiting, 1, left)
  /\ UNCHANGED <<chan, rejected, slot, answer, envVars, sinceYield, plan>>

\* join_waiting: the first waiting requests are paired with idle slots.
\* Which slot each gets depends on prefix affinity: any of them.
JoinStart ==
  /\ Goto("join", "bind")
  /\ LET idle == Slots \ ActiveSlots(slot)
         n    == Smaller(Cardinality(idle), Len(waiting))
     IN  \E f \in Injection(1 .. n, idle) :
           /\ picks' = [i \in 1 .. n |-> [slot |-> f[i], req |-> waiting[i]]]
           /\ waiting' = SubSeq(waiting, n + 1, Len(waiting))
  /\ UNCHANGED <<chan, rejected, slot, answer, envVars, sinceYield, plan>>

HeadCapCountsPrefixes ==
  CapForJoin(Total(slot, Used), Cardinality(ActiveSlots(slot)) + 1,
             Pool, SoloMax, SpecNMax)

\* The cap a joiner would get, and the gate it must pass.  An image prompt is
\* not tokenized yet and counts 0.
HeadCap ==
  CapForJoin(Total(slot, UsedForCap), Cardinality(ActiveSlots(slot)) + 1,
             Pool, SoloMax, SpecNMax)

HeadDecision(r) ==
  AdmissionDecision(HeadCap, IF r \in Vision THEN 0 ELSE PromptLen[r],
                    MaxTokens[r], Pool, SoloMax, SpecNMax)

PickedReq == Head(picks).req

DeferForgets ==
  /\ pc = "bind" /\ picks # <<>>
  /\ HeadDecision(PickedReq) = "Defer"
  /\ picks' = Tail(picks)
  /\ UNCHANGED <<chan, waiting, rejected, slot, answer, envVars, sinceYield, plan, pc>>

Defer ==
  /\ pc = "bind" /\ picks # <<>>
  /\ HeadDecision(PickedReq) = "Defer"
  /\ rejected' = Append(rejected, PickedReq)
  /\ picks' = Tail(picks)
  /\ UNCHANGED <<chan, waiting, slot, answer, envVars, sinceYield, plan, pc>>

\* An empty prompt, or one that does not fit the cap: the request fails and
\* the slot keeps the prefix it held.
BindFails ==
  /\ pc = "bind" /\ picks # <<>>
  /\ HeadDecision(PickedReq) # "Defer"
  /\ PromptLen[PickedReq] = 0 \/ PromptLen[PickedReq] >= HeadCap
  /\ answer' = [answer EXCEPT ![PickedReq] = "Failed"]
  /\ picks' = Tail(picks)
  /\ UNCHANGED <<chan, waiting, rejected, slot, envVars, sinceYield, plan, pc>>

\* A job takes the slot with `past' cells of its prompt already resident.
Occupied(r, phase, past) ==
  WithCap([Vacant EXCEPT !.req = r, !.phase = phase, !.nPast = past, !.kv = past],
          HeadCap)

\* A text prompt reuses any proper prefix and prefills the rest; an image
\* prompt is evaluated during the bind, which also samples its first token.
BoundSlots(r) ==
  IF r \in Vision
  THEN UNION { WithDrafts(sl) : sl \in Emitted(Occupied(r, "Decoding", PromptLen[r]), 1) }
  ELSE { Occupied(r, "Prefilling", n) : n \in 0 .. (PromptLen[r] - 1) }

\* The pair at the head of the pass may be bound.
Bindable(s, r) ==
  /\ pc = "bind" /\ picks # <<>> /\ Head(picks) = [slot |-> s, req |-> r]
  /\ HeadDecision(r) # "Defer"
  /\ PromptLen[r] > 0 /\ PromptLen[r] < HeadCap

\* The image prompt fits in the cells the other sequences leave.
VisionFits(s, r) ==
  Total(slot, Resident) - slot[s].kv + PromptLen[r] <= Pool

TimerNotRestarted(r) == UNCHANGED elapsed

\* The deadline of a running request counts from its bind.
RestartTimer(r) == elapsed' = elapsed \ {r}

Bind(s, r) ==
  /\ Bindable(s, r)
  /\ r \in Vision => VisionFits(s, r)
  /\ \E sl \in BoundSlots(r) :
       slot' = RecomputeSlotCaps([slot EXCEPT ![s] = sl])
  /\ failed' = failed \cup FailedIn(slot')
  /\ RestartTimer(r)
  /\ picks' = Tail(picks)
  /\ UNCHANGED <<chan, waiting, rejected, answer, ticket, cancelled,
                 sinceYield, plan, pc>>

\* A bind of an image request that has reached the engine fails.
VisionBindFails(s, r, left) ==
  /\ Bindable(s, r) /\ r \in Vision
  /\ slot' = [slot EXCEPT ![s] = left]
  /\ answer' = [answer EXCEPT ![r] = "Failed"]
  /\ picks' = Tail(picks)
  /\ UNCHANGED <<chan, waiting, rejected, envVars, sinceYield, plan, pc>>

\* The image evaluation fails: the sequence is cleared.
VisionEvalFails(s, r) ==
  /\ "eval" \in Faults \/ ~VisionFits(s, r)
  /\ VisionBindFails(s, r, [slot[s] EXCEPT !.kv = 0, !.prefixLen = 0])

\* The engine reports more positions than the tokenizer counted, and they do
\* not fit the cap: the cells stay, and the slot remembers what it did before
\* (the images it reuses) or nothing.
VisionOverflows(s, r) ==
  /\ "overflow" \in Faults /\ Bindable(s, r)
  /\ \E n \in HeadCap .. Pool, kept \in {0, slot[s].prefixLen} :
       /\ Total(slot, Resident) - slot[s].kv + n <= Pool
       /\ VisionBindFails(s, r, [slot[s] EXCEPT !.kv = n, !.prefixLen = kept])

\* The first token cannot be sampled: the job is gone, its cells stay and the
\* slot, which occupy took out of the retained ones, remembers them.
VisionSampleFails(s, r) ==
  /\ "sample" \in Faults /\ Bindable(s, r) /\ VisionFits(s, r)
  /\ VisionBindFails(s, r, [Vacant EXCEPT !.kv = PromptLen[r], !.prefixLen = PromptLen[r]])

JoinDoneAtTheBack ==
  /\ Goto("bind", "plan") /\ picks = <<>>
  /\ waiting' = waiting \o rejected
  /\ rejected' = <<>>
  /\ slot' = RecomputeSlotCaps(slot)
  /\ UNCHANGED <<chan, picks, answer, envVars, sinceYield, plan>>

\* Deferred requests go back to the front, in arrival order.
JoinDone ==
  /\ Goto("bind", "plan") /\ picks = <<>>
  /\ waiting' = rejected \o waiting
  /\ rejected' = <<>>
  /\ slot' = RecomputeSlotCaps(slot)
  /\ UNCHANGED <<chan, picks, answer, envVars, sinceYield, plan>>

Remaining(sl) ==
  IF sl.phase = "Prefilling" THEN PromptLen[sl.req] - sl.nPast ELSE 0

PendingSlots == {s \in Slots : slot[s].phase = "Decoding" /\ slot[s].pending}
PrefillSlots == {s \in Slots : Remaining(slot[s]) > 0}

SomeRemaining(limit) == \E s \in Slots : Remaining(slot[s]) > limit

FinishThreshold == 2 * PrefillMax

\* decide_mix_mode: pause generation for a prefill-only iteration.
PrefillOnly ==
  /\ PendingSlots # {} /\ PrefillSlots # {}
  /\ \/ ~SomeRemaining(FinishThreshold)
     \/ YieldEvery > 0 /\ sinceYield >= YieldEvery

YieldChunk ==
  IF ~SomeRemaining(FinishThreshold) \/ YieldMax = 0 THEN PrefillMax ELSE YieldMax

\* Whatever split_prefill_quota hands out, and a snapshot boundary may cut a
\* chunk short: each prefilling slot gets between 1 and its share.
PrefillPlans(perSlot) ==
  { f \in [Slots -> 0 .. perSlot] :
      /\ \A s \in Slots : f[s] <= Remaining(slot[s])
      /\ \A s \in PrefillSlots : f[s] > 0
      /\ CellCount(f) <= NBatch }

DecodePlan ==
  [s \in Slots |-> IF s \in PendingSlots THEN 1 + slot[s].drafts ELSE 0]

NoPlan == [s \in Slots |-> 0]

PlanPrefill ==
  /\ Goto("plan", "gpu") /\ PrefillSlots # {}
  /\ PendingSlots # {} => PrefillOnly
  /\ plan' \in PrefillPlans(IF PendingSlots # {} THEN YieldChunk ELSE PrefillMax)
  /\ sinceYield' = 0
  /\ UNCHANGED <<queueVars, slot, answer, envVars>>

PlanDecode ==
  /\ Goto("plan", "gpu") /\ PendingSlots # {} /\ ~PrefillOnly
  /\ plan' = DecodePlan
  /\ sinceYield' = IF PrefillSlots # {} THEN Smaller(sinceYield + 1, YieldEvery) ELSE 0
  /\ UNCHANGED <<queueVars, slot, answer, envVars>>

PlanEmpty ==
  /\ Goto("plan", "idle") /\ PendingSlots = {} /\ PrefillSlots = {}
  /\ sinceYield' = 0
  /\ UNCHANGED <<queueVars, slot, answer, envVars, plan>>

\* Nothing to run: wait for a message, or 5 ms if something is held.
Idle ==
  /\ Goto("idle", "drain")
  /\ chan # <<>> \/ waiting # <<>> \/ ActiveSlots(slot) # {}
  /\ UNCHANGED <<queueVars, slot, answer, envVars, sinceYield, plan>>

PlannedKv == Total(slot, Resident) + CellCount(plan)

\* llama_decode, apply_plan, sample_and_emit and fill_drafts_sync.
GpuStep ==
  /\ Goto("gpu", "settle") /\ PlannedKv <= Pool
  /\ slot' \in { f \in [Slots -> UNION {AfterGpu(slot[s], plan[s]) : s \in Slots}] :
                   \A s \in Slots : f[s] \in AfterGpu(slot[s], plan[s]) }
  /\ failed' = failed \cup FailedIn(slot')
  /\ plan' = NoPlan
  /\ UNCHANGED <<queueVars, answer, ticket, cancelled, elapsed, sinceYield>>

\* No room in the pool, or a GPU error: every active request fails.
GpuFails ==
  /\ Goto("gpu", "drain") /\ (PlannedKv > Pool \/ "decode" \in Faults)
  /\ LET Failed(sl) == "Failed" IN answer' = AnsweredBy(slot, IsActive, Failed)
  /\ slot' = [s \in Slots |-> IF IsActive(slot[s]) THEN Vacant ELSE slot[s]]
  /\ plan' = NoPlan
  /\ UNCHANGED <<queueVars, envVars, sinceYield>>

\* The blocking worker panics: fresh slots, no event to anyone, and the
\* sequences stay on the GPU.
GpuPanics ==
  /\ Goto("gpu", "drain") /\ "panic" \in Faults
  /\ LET Lost(sl) == "Lost" IN answer' = AnsweredBy(slot, IsActive, Lost)
  /\ \E decoded \in BOOLEAN :
       slot' = [s \in Slots |->
         [Vacant EXCEPT !.kv = slot[s].kv + IF decoded THEN plan[s] ELSE 0]]
  /\ plan' = NoPlan
  /\ UNCHANGED <<queueVars, envVars, sinceYield>>

IsFinished(sl) == IsActive(sl) /\ sl.finish # "none"

EvictFinished ==
  /\ Goto("settle", "drain")
  /\ LET Reason(sl) == IF sl.finish = "Failed" THEN "Stop" ELSE sl.finish
     IN  answer' = AnsweredBy(slot, IsFinished, Reason)
  /\ slot' = RecomputeSlotCaps(ReleaseRetained([s \in Slots |->
                IF IsFinished(slot[s]) THEN FinishSlot(slot[s]) ELSE slot[s]]))
  /\ UNCHANGED <<queueVars, envVars, sinceYield, plan>>

-----------------------------------------------------------------------------

Init ==
  /\ chan = <<>> /\ waiting = <<>> /\ picks = <<>> /\ rejected = <<>>
  /\ slot = [s \in Slots |-> Vacant]
  /\ answer = [r \in Reqs |-> "new"]
  /\ ticket = [r \in Reqs |-> 0]
  /\ cancelled = {} /\ elapsed = {} /\ failed = {}
  /\ sinceYield = 0 /\ plan = NoPlan /\ pc = "drain"

Handlers == \E r \in Reqs : Submit(r) \/ Cancel(r) \/ TimeElapses(r)

RunLoop ==
  \/ Recv \/ DrainDone
  \/ (\E i \in DOMAIN waiting : ExpireOne(i)) \/ ExpireDone
  \/ EvictCancelled
  \/ JoinStart \/ Defer \/ BindFails
  \/ (\E s \in Slots, r \in Reqs :
        \/ Bind(s, r)
        \/ VisionEvalFails(s, r) \/ VisionOverflows(s, r) \/ VisionSampleFails(s, r))
  \/ JoinDone
  \/ PlanPrefill \/ PlanDecode \/ PlanEmpty \/ Idle
  \/ GpuStep \/ GpuFails \/ GpuPanics \/ EvictFinished

Next == Handlers \/ RunLoop

Spec == Init /\ [][Next]_vars

\* run_loop is one task that never blocks except on an empty channel with
\* nothing held; clients owe nothing.
FairSpec == Spec /\ WF_vars(RunLoop)

-----------------------------------------------------------------------------
(* Properties.                                                              *)

Answers == {"new", "open", "refused", "Stop", "Length", "Failed",
            "Cancelled", "Timeout", "Lost"}

\* Every variable has its type.
TypeOK ==
  /\ {chan, waiting, rejected} \subseteq Seq(Reqs)
  /\ picks \in Seq([slot : Slots, req : Reqs])
  /\ slot \in [Slots -> SlotRec]
  /\ answer \in [Reqs -> Answers]
  /\ ticket \in [Reqs -> Nat]
  /\ cancelled \subseteq Reqs /\ elapsed \subseteq Reqs /\ failed \subseteq Reqs
  /\ sinceYield \in Nat
  /\ plan \in [Slots -> Nat]
  /\ pc \in {"drain", "expire", "evict", "join", "bind", "plan", "idle",
             "gpu", "settle"}

PickedReqs == [i \in DOMAIN picks |-> picks[i].req]

Sorted(q) ==
  \A i, j \in DOMAIN q : i < j => ticket[q[i]] < ticket[q[j]]

AllBefore(p, q) ==
  \A i \in DOMAIN p, j \in DOMAIN q : ticket[p[i]] < ticket[q[j]]

\* The line of waiting requests is kept in arrival order wherever its parts
\* are: deferred this pass, being bound, waiting, still in the channel.
\* join_waiting takes requests out, defers some and puts them back.
QueueOrder ==
  /\ Sorted(rejected) /\ Sorted(PickedReqs) /\ Sorted(waiting) /\ Sorted(chan)
  /\ AllBefore(rejected, PickedReqs) /\ AllBefore(rejected, waiting)
  /\ AllBefore(rejected, chan) /\ AllBefore(PickedReqs, waiting)
  /\ AllBefore(PickedReqs, chan) /\ AllBefore(waiting, chan)

Queued(r) ==
  \E q \in {rejected, PickedReqs, waiting, chan} : \E i \in DOMAIN q : q[i] = r

Running(r) == \E s \in Slots : slot[s].req = r

\* A request the worker has not let go is in the line or in a slot, never in
\* both and never in two slots, and one that has left with its last event is in
\* neither: no request is dropped without an answer or decoded after it.
OneHome ==
  /\ \A r \in Reqs : answer[r] = "open" <=> Queued(r) \/ Running(r)
  /\ \A r \in Reqs : ~(Queued(r) /\ Running(r))
  /\ \A s, t \in Slots : IsActive(slot[s]) /\ slot[s].req = slot[t].req => s = t

\* What has been told stays told.  Nothing follows the event a request leaves
\* the worker with, from its slot or another.  When push_token fails it sends
\* Failed before the slot is given up: no token follows, and the one event that
\* the slot ends with is the second terminal event (the handler has stopped
\* listening at the first).
NothingAfterTheEnd ==
  [][\A r \in Reqs :
       /\ answer[r] \notin {"new", "open"} =>
            answer'[r] = answer[r] /\ (r \in failed' <=> r \in failed)
       /\ r \in failed =>
            /\ r \in failed'
            /\ \A s \in Slots :
                 slot[s].req = r /\ slot'[s].req = r => slot'[s].nGen = slot[s].nGen]_vars

\* Requests are bound in arrival order: when one takes a slot, no older one is
\* left behind (README, HAL-5 admission).
ArrivalOrder ==
  [][\A s \in Slots :
       LET r == slot'[s].req
       IN  r # slot[s].req /\ r # NoReq =>
             \A q \in Reqs : Queued(q)' => ticket[q] > ticket[r]]_vars

\* A request is deferred only behind a running one, whose end frees the cells
\* it waits for: admission never holds back a request that could run alone.
DeferredBehindARunner == rejected # <<>> => ActiveSlots(slot) # {}

\* The next llama_decode fits the pool, retained prefixes included: a decode
\* that does not fit fails every active request.
PoolFits == pc = "gpu" => PlannedKv <= Pool

\* A running generation is one token ahead of its KV: prompt and all emitted
\* tokens but the pending one are resident, at consecutive positions, through
\* draft acceptance, rollback and snapshot restore.
OnePending ==
  \A s \in Slots :
    slot[s].phase = "Decoding" /\ slot[s].finish = "none" =>
      /\ slot[s].pending
      /\ slot[s].nPast = PromptLen[slot[s].req] + slot[s].nGen - 1
      /\ slot[s].kv = slot[s].nPast

\* An idle slot that does not count as retained holds no cells, and a retained
\* one holds at most the unused tail of a verify step more than it remembers:
\* "A retained slot still holds prefix KV, but that is released under pressure".
\* A panic and a failed bind of an image request (CellsLeft) break it.
IdleCellsAccounted ==
  \A s \in Slots : ~IsActive(slot[s]) =>
    slot[s].kv <= IF slot[s].retained THEN slot[s].prefixLen + SpecNMax ELSE 0

\* The steps of a bind that leave cells behind in an idle slot.
CellsLeft ==
  \E s \in Slots, r \in Reqs : VisionOverflows(s, r) \/ VisionSampleFails(s, r)

\* Every accepted request is eventually answered.
EventuallyAnswered == \A r \in Reqs : answer[r] = "open" ~> answer[r] # "open"

\* The scheduler keeps the promise of RequestSpec about the first terminal event
\* of a request: for one that push_token failed, that Failed.
Promise == INSTANCE RequestSpec WITH
  stage <- [r \in Reqs |-> IF r \in failed THEN "Failed"
                           ELSE IF answer[r] # "open" THEN answer[r]
                           ELSE IF Running(r) THEN "running" ELSE "queued"],
  gone <- cancelled,
  overdue <- elapsed

KeepsPromise == Promise!Spec
=============================================================================
