---------------------------- MODULE MCScheduler ----------------------------
(***************************************************************************)
(* Small instances of Scheduler for TLC: which requests there are and how  *)
(* long their prompts and budgets are.                                     *)
(***************************************************************************)
EXTENDS Scheduler, TLC

CONSTANTS s1, s2, s3, a, b, c

SlotSymmetry == Permutations(Slots)

\* A long request, a short one, and one without a limit.
MixedPrompts == Restrict((a :> 2 @@ b :> 1 @@ c :> 3), Reqs)
MixedBudgets == Restrict((a :> 3 @@ b :> 2 @@ c :> MaxU32), Reqs)

\* Short prompts without a limit: they grow into whatever cap they are given.
ShortPrompts == Restrict((a :> 1 @@ b :> 1 @@ c :> 1), Reqs)
LongBudgets == Restrict((a :> MaxU32 @@ b :> MaxU32 @@ c :> MaxU32), Reqs)

\* Small enough for liveness; a must wait while another request runs.
LivePrompts == Restrict((a :> 2 @@ b :> 1 @@ c :> 1), Reqs)
LiveBudgets == Restrict((a :> 3 @@ b :> 2 @@ c :> 1), Reqs)
=============================================================================
