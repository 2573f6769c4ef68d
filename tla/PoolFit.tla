------------------------------- MODULE PoolFit -------------------------------
(***************************************************************************)
(* The start of the server with --kv-pool-fit: when the model does not     *)
(* load, smaller pools are tried down a ladder (pool_fit_ladder in         *)
(* golbang-core/src/ctx_cap.rs, load_with_pool_fit in                      *)
(* golbang-server/src/main.rs) and what was loaded in the end is reported. *)
(***************************************************************************)
EXTENDS Naturals, Sequences, SequencesExt

CONSTANTS
  MinCtx, MinUbatch, MaxSteps,  \* of pool_fit_ladder
  FitAsked  \* command lines: records of ctx, batch, ubatch (0: not given) and fit

VARIABLES
  cli,    \* the command line
  tried,  \* pools that were asked of llama.cpp, in order
  pool    \* PoolFit: what is reported once a load has succeeded

fitVars == <<cli, tried, pool>>

ASSUME FitAssumption ==
  /\ {MinCtx, MinUbatch, MaxSteps} \subseteq Nat \ {0} /\ MinUbatch <= MinCtx
  /\ FitAsked \subseteq [ctx : Nat, batch : Nat, ubatch : Nat, fit : BOOLEAN]

NoPool == [ctx |-> 0, ubatch |-> 0, downgrades |-> 0]

Halved(n, floor) == Max({n \div 2, floor})

\* Mutant: a value below its floor is lowered to the floor.
BelowUnguarded(c, step) ==
  IF step % 2 = 1 THEN [c EXCEPT !.ubatch = Halved(@, MinUbatch)]
                  ELSE [c EXCEPT !.ctx = Halved(@, MinCtx)]

\* The candidate after c: odd steps halve the ubatch and even ones the
\* context, each the other one when its own is at the floor.
Below(c, step) ==
  LET ubatchFirst == step % 2 = 1
  IN  IF c.ubatch > MinUbatch /\ (ubatchFirst \/ c.ctx <= MinCtx)
      THEN [c EXCEPT !.ubatch = Halved(@, MinUbatch)]
      ELSE IF c.ctx > MinCtx THEN [c EXCEPT !.ctx = Halved(@, MinCtx)] ELSE c

\* pool_fit_ladder: the candidates, the requested pool first.
Ladder(ctx, ubatch) ==
  LET Down(l, step) == LET c == Below(Last(l), step)
                       IN  IF c = Last(l) THEN l ELSE Append(l, c)
  IN  FoldLeft(Down, <<[ctx |-> Max({ctx, 1}), ubatch |-> Max({ubatch, 1})]>>,
               [k \in 1 .. MaxSteps - 1 |-> k])

EffectiveUbatch(ctx, batch, ubatch) ==
  IF ubatch > 0 THEN ubatch ELSE IF batch > 0 THEN batch ELSE Max({ctx, 1})

\* What Model::load makes of its parameters.
Physical(p) ==
  LET ctx == Max({p.ctx, 1})
      batch == IF p.batch = 0 THEN ctx ELSE p.batch
  IN  [ctx |-> ctx, batch |-> batch,
       ubatch |-> IF p.ubatch = 0 THEN batch ELSE Min({p.ubatch, batch})]

Candidates == Ladder(cli.ctx, EffectiveUbatch(cli.ctx, cli.batch, cli.ubatch))

\* The parameters of attempt i: the first one is as asked.
LoadParams(i) ==
  IF i = 1 THEN cli
  ELSE [ctx |-> Candidates[i].ctx, ubatch |-> Candidates[i].ubatch,
        batch |-> Min({cli.batch, Candidates[i].ctx})]

\* What a load that succeeds at attempt i reports: the candidate, and without
\* --kv-pool-fit the command line's own numbers.
Reported(i) ==
  IF cli.fit
  THEN [ctx |-> Candidates[i].ctx, ubatch |-> Candidates[i].ubatch, downgrades |-> i - 1]
  ELSE [ctx |-> cli.ctx, ubatch |-> EffectiveUbatch(cli.ctx, cli.batch, cli.ubatch),
        downgrades |-> 0]

\* The next attempt, which llama.cpp may refuse.
TryLoad ==
  LET i == Len(tried) + 1
  IN  /\ pool = NoPool /\ i <= IF cli.fit THEN Len(Candidates) ELSE 1
      /\ tried' = Append(tried, Physical(LoadParams(i)))
      /\ pool' \in {NoPool, Reported(i)}
      /\ UNCHANGED cli

FitInit == cli \in FitAsked /\ tried = <<>> /\ pool = NoPool

FitNext == TryLoad

-----------------------------------------------------------------------------
\* No attempt is wasted: each retry asks llama.cpp for a smaller pool than the
\* one that was refused, and for no more of anything, also when the request
\* is below a floor or leaves batch sizes to their defaults (pool_fit_ladder,
\* the clamp of n_batch).
RetriesShrink ==
  \A i \in 2 .. Len(tried) :
    /\ tried[i].ctx <= tried[i - 1].ctx /\ tried[i].batch <= tried[i - 1].batch
    /\ tried[i].ubatch <= tried[i - 1].ubatch
    /\ tried[i].ctx < tried[i - 1].ctx \/ tried[i].ubatch < tried[i - 1].ubatch

\* The pool that is reported is the one that was loaded, although the defaults
\* are resolved once for the report and once for the load ("effective_* are
\* what actually loaded", PoolFit).
GaugeIsTrue ==
  pool # NoPool =>
    /\ pool.ctx = Last(tried).ctx /\ pool.ubatch = Last(tried).ubatch
    /\ pool.downgrades = Len(tried) - 1

\* The walk down the ladder asks for less each time, and reports where it ended
\* (load_with_pool_fit).
FitSound == RetriesShrink /\ GaugeIsTrue
=============================================================================
