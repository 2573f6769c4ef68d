------------------------------ MODULE Planning ------------------------------
(***************************************************************************)
(* Which tokens go into the llama_batch of an iteration: the mode          *)
(* (decide_mix_mode), the decode pass and the prefill pass of plan_ex in   *)
(* golbang-core/src/batch.rs, the budget they follow (policy.rs,           *)
(* resolve_budget in scheduler.rs) and what apply_plan makes of them, over *)
(* iterations in which requests come and go.  Scheduler has the same       *)
(* decisions by counts only and takes any split of the prefill tokens.     *)
(*                                                                         *)
(* Data kept: a prompt is its length, a token of the plan its sequence,    *)
(* position and whether its logits are wanted.                             *)
(***************************************************************************)
EXTENDS PrefillQuota, Sequences, SequencesExt

CONSTANTS
  NBatchOf, NUbatch,    \* of the llama context
  Asked,                \* budgets that may be asked for
  DefaultBudget,        \* IterationBudget::default()
  YieldTurns,           \* decode iterations between yields: 16
  YieldTokens,          \* tokens of a yield: 256
  Arrivals,             \* requests that are bound: records of past (what is
                        \* reused), prompt and stops (snapshot boundaries)
  DraftMost, AnswerMost, \* bounds on drafts and on the tokens of an answer
  CountMost             \* bound on the counts of iterations

BudgetType == [prefillMax : Nat, decodeMax : Nat, mixedMax : Nat, yieldEvery : Nat, yieldMax : Nat]

\* A bind leaves a token of the prompt to prefill.  A boundary that is armed
\* lies within the prompt and ahead of what is reused, but for the one before
\* the last token, which may have been reached already (pre_gen_stop).
ASSUME PlanningAssumption ==
  /\ {NBatchOf, NUbatch, YieldTokens, DraftMost, AnswerMost, CountMost} \subseteq Nat
  /\ YieldTurns \in 1 .. CountMost
  /\ DefaultBudget \in BudgetType /\ Asked \subseteq BudgetType
  /\ \A b \in Asked : b.yieldEvery <= CountMost
  /\ Arrivals \subseteq [past : Nat, prompt : Nat, stops : SUBSET Nat]
  /\ \A a \in Arrivals :
       /\ a.past < a.prompt
       /\ \A m \in a.stops : m \in a.past .. a.prompt - 1 /\ (m = a.past => m = a.prompt - 1)

VARIABLES
  budget,   \* of the process
  seat,     \* the slots, by their place in the order
  sinceYield,
  mode,     \* "join": between iterations; "auto" or "prefill": planning
  plan,
  waited,   \* iterations a prefilling slot went without a token (for properties)
  paused    \* prefill-only iterations on end, without a join (for properties)

planVars == <<quotaVars, budget, seat, sinceYield, mode, plan, waited, paused>>

NoTokens == [i \in Order |-> 0]
Vacant == [phase |-> "Empty", past |-> 0, prompt |-> 0, stops |-> {}, drafts |-> 0]

-----------------------------------------------------------------------------
(* The budget.                                                              *)

ForContext(nBatch, nUbatch, nParallel) ==
  LET ub == GreaterOf(nUbatch, 1)
      shared == nParallel > 1
  IN  [prefillMax |-> IF shared THEN ub ELSE GreaterOf(nBatch, ub),
       decodeMax  |-> GreaterOf(nParallel, 1),
       mixedMax   |-> 0,
       yieldEvery |-> IF shared THEN YieldTurns ELSE 0,
       yieldMax   |-> IF shared THEN LesserOf(YieldTokens, ub) ELSE 0]

ResolveBudget(asked) ==
  IF asked = DefaultBudget THEN ForContext(NBatchOf, NUbatch, Cardinality(Order))
  ELSE [asked EXCEPT !.prefillMax = GreaterOf(LesserOf(@, NBatchOf), 1),
                     !.decodeMax = GreaterOf(@, 1),
                     !.mixedMax = LesserOf(@, NBatchOf),
                     !.yieldMax = LesserOf(@, NBatchOf)]

FinishLimit == 2 * budget.prefillMax

YieldShare(rest) ==
  IF rest <= FinishLimit \/ budget.yieldMax = 0 THEN budget.prefillMax ELSE budget.yieldMax

-----------------------------------------------------------------------------
(* The slots.                                                               *)

Rest(i) == IF seat[i].phase = "Prefilling" THEN seat[i].prompt - seat[i].past ELSE 0
Prefillers == {i \in Order : Rest(i) > 0}
Decoders == {i \in Order : seat[i].phase = "Decoding"}
LongestRest == CHOOSE m \in {0} \cup {Rest(i) : i \in Order} : \A i \in Order : Rest(i) <= m

\* Mutant: a snapshot boundary does not end the chunk.
RestWhole(i) == Rest(i)

\* prefill_remaining_to_stop: up to the next armed boundary.
RestToStop(i) ==
  LET next == CHOOSE m \in seat[i].stops : \A k \in seat[i].stops : m <= k
  IN  IF seat[i].stops # {} /\ next > seat[i].past
      THEN LesserOf(Rest(i), next - seat[i].past) ELSE Rest(i)

\* decide_mix_mode.
MixMode ==
  LET due == budget.yieldEvery > 0 /\ sinceYield >= budget.yieldEvery
  IN  IF LongestRest > 0 /\ Decoders # {} /\ (LongestRest <= FinishLimit \/ due)
      THEN "prefill" ELSE "auto"

\* Mutant: a yield does not restart the count.
SinceYieldKept(m) ==
  IF LongestRest > 0 /\ Decoders # {} THEN LesserOf(sinceYield + 1, CountMost) ELSE 0

\* Decode iterations since the last yield, while both phases are active.
SinceYield(m) ==
  IF m = "auto" /\ LongestRest > 0 /\ Decoders # {}
  THEN LesserOf(sinceYield + 1, CountMost) ELSE 0

-----------------------------------------------------------------------------
(* plan_ex.                                                                 *)

PlanToken(i, pos, logits) == [seq |-> i, pos |-> pos, logits |-> logits]

\* The places of S from the first to the last.
InOrder(S) ==
  CHOOSE s \in [1 .. Cardinality(S) -> S] : \A j, k \in DOMAIN s : j < k => s[j] < s[k]

\* The pending token of each decoding slot and its drafts, up to n_batch
\* tokens and decode_max slots.
DecodePass ==
  LET Add(tokens, i) ==
        tokens \o [k \in 1 .. LesserOf(1 + seat[i].drafts, NBatchOf - Len(tokens)) |->
                     PlanToken(i, seat[i].past + k - 1, TRUE)]
      runners == InOrder(Decoders)
  IN  FoldLeft(Add, <<>>, SubSeq(runners, 1, LesserOf(Len(runners), budget.decodeMax)))

PrefillCap(tokens) ==
  LET room == NBatchOf - Len(tokens)
  IN  IF tokens # <<>> THEN LesserOf(room, budget.mixedMax) ELSE room

\* An iteration begins: mode, decode pass, and what the prefill pass has to
\* split.
BeginPlan ==
  /\ mode = "join" /\ Prefillers \cup Decoders # {}
  /\ LET m == MixMode
         tokens == IF m = "prefill" THEN <<>> ELSE DecodePass
         most == IF m = "prefill" THEN YieldShare(LongestRest) ELSE budget.prefillMax
     IN  /\ mode' = m
         /\ sinceYield' = SinceYield(m)
         /\ plan' = tokens
         /\ quotaCap' = PrefillCap(tokens) /\ left' = quotaCap'
         /\ want' = [i \in Order |-> LesserOf(RestToStop(i), most)]
  /\ take' = NoTokens /\ share' = 0 /\ turn' = {}
  /\ UNCHANGED <<budget, seat, waited, paused>>

SplitPrefill ==
  /\ mode # "join"
  /\ QuotaNext
  /\ UNCHANGED <<budget, seat, sinceYield, mode, plan, waited, paused>>

\* The tokens of a chunk; the prompt's last one wants logits.
Chunk(i) ==
  [k \in 1 .. take[i] |->
     PlanToken(i, seat[i].past + k - 1, seat[i].past + k = seat[i].prompt)]

WholePlan == plan \o FoldLeft(LAMBDA p, i : p \o Chunk(i), <<>>, InOrder(Prefillers))

RowsOf(i) == Cardinality({k \in 1 .. Len(plan) : plan[k].seq = i})

-----------------------------------------------------------------------------
(* What happens between two plans.                                          *)

\* Decoded: any part of the drafts is accepted, the answer may end, new
\* drafts are made.
Reached(s, p, d) == [s EXCEPT !.past = p, !.drafts = d]

AfterRows(i, rows) ==
  LET s == seat[i]
      reached == {p \in s.past + 1 .. s.past + rows : p <= s.prompt + AnswerMost}
  IN  {Vacant} \cup {Reached(s, p, d) : p \in reached, d \in 0 .. DraftMost}

\* Prefilled: a boundary that is reached is disarmed, and with the last token
\* of the prompt generation begins.
AfterChunk(i) ==
  LET past == seat[i].past + take[i]
      s == [seat[i] EXCEPT !.past = past, !.stops = {m \in @ : m > past}]
  IN  IF past < s.prompt THEN {s}
      ELSE {Vacant} \cup {[s EXCEPT !.phase = "Decoding", !.drafts = d] : d \in 0 .. DraftMost}

Outcome(i) ==
  IF take[i] > 0 THEN AfterChunk(i)
  ELSE IF RowsOf(i) > 0 THEN AfterRows(i, RowsOf(i)) ELSE {seat[i]}

\* apply_plan and sample_and_emit.
ApplyPlan ==
  /\ mode # "join" /\ QuotaDone
  /\ seat' \in {f \in [Order -> UNION {Outcome(i) : i \in Order}] :
                  \A i \in Order : f[i] \in Outcome(i)}
  /\ waited' = [i \in Order |-> IF Rest(i) > 0 /\ take[i] = 0
                                THEN LesserOf(waited[i] + 1, CountMost + 1) ELSE 0]
  /\ paused' = IF mode = "prefill" THEN paused + 1 ELSE 0
  /\ mode' = "join" /\ plan' = <<>>
  /\ quotaCap' = 0 /\ want' = NoTokens /\ take' = NoTokens
  /\ left' = 0 /\ share' = 0 /\ UNCHANGED turn
  /\ UNCHANGED <<budget, sinceYield>>

\* A request takes an idle slot; part of its prompt may be reused.
JoinSeat(i, a) ==
  /\ mode = "join" /\ seat[i] = Vacant
  /\ seat' = [seat EXCEPT ![i] = [Vacant EXCEPT !.phase = "Prefilling", !.past = a.past,
                                                !.prompt = a.prompt, !.stops = a.stops]]
  /\ paused' = 0
  /\ UNCHANGED <<quotaVars, budget, sinceYield, mode, plan, waited>>

\* Its client leaves, or its time is up.
LeaveSeat(i) ==
  /\ mode = "join" /\ seat[i] # Vacant
  /\ seat' = [seat EXCEPT ![i] = Vacant]
  /\ waited' = [waited EXCEPT ![i] = 0]
  /\ UNCHANGED <<quotaVars, budget, sinceYield, mode, plan, paused>>

PlanInit ==
  /\ budget \in {ResolveBudget(b) : b \in Asked}
  /\ seat = [i \in Order |-> Vacant]
  /\ sinceYield = 0 /\ mode = "join" /\ plan = <<>>
  /\ QuotaInit(0, NoTokens)
  /\ waited = NoTokens /\ paused = 0

PlanNext ==
  \/ BeginPlan \/ SplitPrefill \/ ApplyPlan
  \/ \E i \in Order : (\E a \in Arrivals : JoinSeat(i, a)) \/ LeaveSeat(i)

-----------------------------------------------------------------------------
\* A plan is never larger than n_batch, and uses the room it has: nothing is
\* left while a slot is hungry, and no token is given twice (plan_ex).
PlanFits ==
  mode # "join" /\ QuotaDone =>
    /\ Len(WholePlan) <= NBatchOf
    /\ Len(WholePlan) = Len(plan) + quotaCap - left

\* The prompt of each request goes on within prefill_yield_every iterations,
\* whatever is generated next to it ("so a suffix is not stuck behind a long
\* generation", policy.rs; the counter of run_loop).
PromptKeepsMoving ==
  \A i \in Order : waited[i] <= budget.yieldEvery

\* Unless new requests keep coming, generation is paused on end for one yield
\* and for what finishing the short rests takes, where the longest shrinks in
\* every iteration (decide_mix_mode; "finished immediately", policy.rs).
PauseEnds == paused <= 1 + FinishLimit

\* A chunk never runs over a boundary that is armed and not reached yet, so
\* the snapshot taken there holds exactly the prefix
\* (prefill_remaining_to_stop).
StopsAreMet ==
  mode # "join" =>
    \A i \in Order : \A m \in seat[i].stops :
      seat[i].past < m => seat[i].past + take[i] <= m

\* A plan has the size it may have, and ends where it has to (plan_ex).
PlanSound == PlanFits /\ StopsAreMet

\* Neither side starves the other: prompts go on next to answers, and answers
\* next to prompts (decide_mix_mode and the counter of run_loop).
BothGoOn == PromptKeepsMoving /\ PauseEnds
=============================================================================
