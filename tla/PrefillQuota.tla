---------------------------- MODULE PrefillQuota ----------------------------
(***************************************************************************)
(* How the prompt tokens of one iteration are split between the slots that *)
(* still prefill (split_prefill_quota in golbang-core/src/batch.rs): rounds *)
(* of equal shares, until the tokens or the hunger ends.  A slot is known  *)
(* by its place in the order of the plan; want is what it may take, the    *)
(* smaller of its rest and the maximum of one slot.                        *)
(***************************************************************************)
EXTENDS Naturals, FiniteSets

CONSTANTS Order  \* the places of the slots that may be given tokens

ASSUME OrderAssumption == Order \subseteq Nat /\ IsFiniteSet(Order)

VARIABLES
  quotaCap,  \* tokens there were to split
  want,
  take,      \* tokens given so far
  left,      \* tokens not given yet
  share,     \* of this round
  turn       \* slots that have not had their turn in this round

quotaVars == <<quotaCap, want, take, left, share, turn>>

LesserOf(a, b) == IF a < b THEN a ELSE b
GreaterOf(a, b) == IF a < b THEN b ELSE a

Hungry == {i \in Order : take[i] < want[i]}

QuotaInit(cap, wants) ==
  /\ quotaCap = cap /\ want = wants
  /\ take = [i \in Order |-> 0]
  /\ left = cap /\ share = 0 /\ turn = {}

\* Mutant: the first slot is offered everything.
ShareOfAll(tokens, slots) == tokens
Share(tokens, slots) == GreaterOf(tokens \div Cardinality(slots), 1)

\* A round begins.
Round ==
  /\ turn = {} /\ Hungry # {} /\ left > 0
  /\ turn' = Hungry
  /\ share' = Share(left, Hungry)
  /\ UNCHANGED <<quotaCap, want, take, left>>

Given(i) == LesserOf(LesserOf(want[i] - take[i], share), left)

\* The next hungry slot has its turn.
Grant(i) ==
  /\ i \in turn /\ left > 0 /\ \A j \in turn : i <= j
  /\ take' = [take EXCEPT ![i] = @ + Given(i)]
  /\ left' = left - Given(i)
  /\ turn' = turn \ {i}
  /\ UNCHANGED <<quotaCap, want, share>>

\* Nothing is left for the rest of the round.
OutOfTokens ==
  /\ turn # {} /\ left = 0
  /\ turn' = {}
  /\ UNCHANGED <<quotaCap, want, take, left, share>>

QuotaNext == Round \/ (\E i \in Order : Grant(i)) \/ OutOfTokens

QuotaSpec ==
  /\ \E cap \in Nat, wants \in [Order -> Nat] : QuotaInit(cap, wants)
  /\ [][QuotaNext]_quotaVars

QuotaDone == turn = {} /\ (Hungry = {} \/ left = 0)

-----------------------------------------------------------------------------
\* With a token for each slot that still has prompt left, each of them is
\* given one: no slot's prompt stands still behind the others'
\* (split_prefill_quota; a slot that kept n_tokens = 0 was issue #33).
EveryoneServed ==
  QuotaDone /\ quotaCap >= Cardinality({i \in Order : want[i] > 0})
    => \A i \in Order : want[i] > 0 => take[i] > 0
=============================================================================
