----------------------------- MODULE JoinPolicy -----------------------------
(***************************************************************************)
(* Which idle slot each waiting request gets (FifoPolicy in                *)
(* golbang-core/src/policy.rs, prefix_aware_join): a session should come   *)
(* back to the slot that still holds its prefix.  A state is one question: *)
(* the idle slots as the policy sees them and the requests in line.        *)
(* Scheduler allows any choice of slots.                                   *)
(***************************************************************************)
EXTENDS Naturals, Sequences, SequencesExt, Functions

CONSTANTS
  Views,   \* idle slots: records of prefix (tokens), len (prefix_len), ckpt (ckpt_n)
  Lines,   \* prompts of the waiting requests, in arrival order
  SlotMost \* bound on the idle slots

VARIABLES idle, line

joinVars == <<idle, line>>

Shared(view, prompt) == Len(LongestCommonPrefix({view.prefix, prompt}))

ResidentCells(view) == Max({Len(view.prefix), view.len, view.ckpt})

\* Mutant: the bar includes what was generated after the checkpoint.
AffinityBarResident(view) == ResidentCells(view)

\* The cells a continuation must share to restore: up to the checkpoint, not
\* the thoughts generated after it.
AffinityBar(view) == IF view.ckpt > 0 THEN view.ckpt ELSE ResidentCells(view)

IsPrefixAffinity(lcp, bar) == lcp > 0 /\ lcp + 1 >= bar

\* pick_empty_slot: of the slots of the same session the one that shares
\* most, else the smallest resident prefix; the first of equals.
PickSlot(taken, prompt) ==
  LET free == {i \in DOMAIN idle : i \notin taken}
      same == {i \in free : IsPrefixAffinity(Shared(idle[i], prompt), AffinityBar(idle[i]))}
      Best(S, Better(_, _)) ==
        CHOOSE i \in S : \A k \in S : ~Better(k, i) /\ (~Better(i, k) => i <= k)
      More(k, i) == Shared(idle[k], prompt) > Shared(idle[i], prompt)
      Smaller(k, i) == ResidentCells(idle[k]) < ResidentCells(idle[i])
  IN  IF same # {} THEN Best(same, More) ELSE Best(free, Smaller)

\* prefix_aware_join: the slot of each of the first requests in line.
PrefixAwareJoin ==
  LET n == Min({Len(idle), Len(line)})
      Pick(picks, prompt) == Append(picks, PickSlot(ToSet(picks), prompt))
  IN  FoldLeft(Pick, <<>>, SubSeq(line, 1, n))

JoinInit == line \in Lines /\ idle \in UNION {[1 .. n -> Views] : n \in 1 .. SlotMost}

-----------------------------------------------------------------------------
\* The prompt goes on where the slot's checkpoint ends, up to the one token
\* that may be tokenised differently.
Continues(prompt, view) ==
  /\ view.ckpt > 1
  /\ IsPrefix(SubSeq(view.prefix, 1, view.ckpt - 1), prompt)

\* Sessions that take turns all keep their slots: when each of the requests
\* that are joined continues the checkpoint of one slot and has nothing in
\* common with the others, each gets its own, in whatever order they came and
\* however much was generated after the checkpoints (affinity_bar).
SessionsKeepTheirSlots ==
  LET picks == PrefixAwareJoin
  IN  \A own \in Injection(DOMAIN picks, DOMAIN idle) :
        (\A j \in DOMAIN picks : \A i \in DOMAIN idle :
           IF own[j] = i THEN Continues(line[j], idle[i])
           ELSE Shared(idle[i], line[j]) = 0)
        => \A j \in DOMAIN picks : picks[j] = own[j]
=============================================================================
