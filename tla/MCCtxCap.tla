------------------------------ MODULE MCCtxCap ------------------------------
(***************************************************************************)
(* CtxCap asked with every input up to Bound: a state is one question, and *)
(* a step raises one of its inputs, so an action property compares the     *)
(* answers to neighbouring questions.                                      *)
(***************************************************************************)
EXTENDS CtxCap

CONSTANTS Bound, ActiveBound, SpecBound

VARIABLE q

InputLimit == [pool |-> Bound, single |-> Bound, spec |-> SpecBound,
          n |-> ActiveBound, others |-> Bound, prompt |-> Bound, max |-> MaxU32]

CapsInit == q = [pool |-> 0, single |-> 0, spec |-> 0, n |-> 1, others |-> 0,
                 prompt |-> 0, max |-> 0]

Raise(f) == q[f] < InputLimit[f] /\ q' = [q EXCEPT ![f] = @ + 1]

CapsNext == \E f \in DOMAIN q : Raise(f)

-----------------------------------------------------------------------------

JoinCap(x) == CapForJoin(x.others, x.n, x.pool, x.single, x.spec)

Decision(x) ==
  AdmissionDecision(JoinCap(x), x.prompt, x.max, x.pool, x.single, x.spec)

\* A joiner that gets any cells gets them beside the others and the verify
\* cells of every active slot, and never more than --single-max-ctx, also
\* where the sums saturate (cap_for_join).
JoinRoom ==
  LET cap == JoinCap(q)
  IN  cap > 0 => /\ cap + q.others + SpecReserve(q.spec, q.n) <= q.pool
                 /\ q.single > 0 => cap <= q.single

\* More company never enlarges a cap: raising what the others use, how many
\* run, or the draft length gives the same cap or a smaller one, so a cap a
\* request was admitted with is the best it will have while neighbours come.
CompanyCosts ==
  [][(q'.others > q.others \/ q'.n > q.n \/ q'.spec > q.spec)
       => JoinCap(q') <= JoinCap(q)]_q

\* Waiting helps whoever is told to wait: a deferred request is admitted with
\* its whole prompt + max_tokens once it is alone, and one that no wait can
\* help is not deferred (admission_decision).
DeferIsTemporary ==
  LET alone == [q EXCEPT !.others = 0, !.n = 1]
      whole == NeededCells(q.prompt, q.max) <= JoinCap(alone)
  IN  Decision(q) = "Defer" => whole /\ Decision(alone) = "Admit"

\* Two slots that leave the verify reserve free may both grow to their caps
\* and still leave it free, whoever grew first and however unevenly
\* (slot_cap freezes the larger one, effective_cap gives the other the rest).
TwoSlotsFit ==
  LET u == q.others  w == q.prompt
      reserve == SpecReserve(q.spec, 2)
      Room(mine, other) ==
        EffectiveCap(SlotCap(q.single, mine, q.pool, 2, q.spec),
                         mine, q.pool, other, q.spec, 2)
  IN  u + w + reserve <= q.pool => Room(u, w) + Room(w, u) + reserve <= q.pool

\* The caps leave room: a joiner's for those who run, those of two slots for each
\* other (effective_cap, cap_for_join).
CapsFit == JoinRoom /\ TwoSlotsFit
=============================================================================
