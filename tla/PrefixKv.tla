------------------------------- MODULE PrefixKv -------------------------------
(***************************************************************************)
(* What the KV cells of a sequence hold: the prefix reuse at bind          *)
(* (settle_prefix_kv, restore_host_snapshot in                             *)
(* golbang-core/src/scheduler.rs), the snapshots taken during prefill      *)
(* (apply_plan) and the tiers they go to: the slot's own chain of anchors, *)
(* the shared store in RAM and the disk.  A wrong cell is silent: the      *)
(* model just answers a prompt that nobody sent.                           *)
(*                                                                         *)
(* Data kept: the token each cell was computed from.  A snapshot is the    *)
(* tokens of the cells it was taken from, under the length or the key it   *)
(* is filed under.  The store is bounded by its number of entries, its     *)
(* byte cap is not reached; the disk, whose order of eviction PrefixDisk   *)
(* has, loses any entry over its bound.                                    *)
(***************************************************************************)
EXTENDS Integers, FiniteSets, SequencesExt

CONSTANTS
  Slots,
  Prompts, Gen,   \* prompts that arrive, tokens that are sampled
  MaxGen,         \* bound on the tokens of one answer
  Archs,          \* models: has recurrent memory, cells seq_rm can take back
  StubLens,       \* is_host_stub_boundary
  LastStub,       \* is_last_host_stub
  Window,         \* is_store_stub_len
  ChainMax,       \* CHAIN_MAX_ANCHORS
  StoreMax,       \* DEFAULT_MAX_ENTRIES
  DiskMax,        \* entries the disk tier has room for
  Pressure,       \* whether retained cells are ever released
  Faults          \* "restore": a snapshot does not load, "dump", "decode", "panic", "kill"

ASSUME PromptsAssumption == Prompts \subseteq Seq(Nat) \ {<<>>} /\ Gen \subseteq Nat
ASSUME ArchsAssumption == Archs \subseteq [recurrent : BOOLEAN, back : Nat]
ASSUME StubAssumption == LastStub \in StubLens /\ StubLens \subseteq Window /\ Window \subseteq Nat

VARIABLES
  arch,   \* the loaded model
  gpu,    \* cells of each sequence
  mem,    \* prefix_cache.tokens
  chain,  \* prefix_ckpts: length to snapshot
  job,    \* the running job
  kept,   \* slots whose idle cells are retained (retained_at)
  store,  \* the host store: key to snapshot
  disk    \* the disk tier: key to snapshot

vars == <<arch, gpu, mem, chain, job, kept, store, disk>>

NoJob == [prompt |-> <<>>, n |-> 0, gen |-> <<>>, stop |-> 0, pre |-> 0]
NoFun == [x \in {} |-> 0]
Idle(s) == job[s] = NoJob
Put(f, x, v) == [y \in DOMAIN f \cup {x} |-> IF y = x THEN v ELSE f[y]]
Common(a, b) == Len(LongestCommonPrefix({a, b}))
Upto(q, n) == SubSeq(q, 1, n)
Longest(keys) == CHOOSE k \in keys : \A l \in keys : Len(l) <= Len(k)
Least(S) == CHOOSE m \in S : \A l \in S : m <= l
Most(S) == CHOOSE m \in S : \A l \in S : l <= m

-----------------------------------------------------------------------------
(* Bind: how many cells stay, and where they come from.                     *)

LatestAnchor(s) == Most({0} \cup DOMAIN chain[s])

\* At least one token is left to prefill, and no more is promised than the
\* sequence or its newest anchor covers.
ReuseForBind(s, p) ==
  Least({Common(mem[s], p), Len(p) - 1, Most({Len(gpu[s]), LatestAnchor(s)})})

\* seq_rm takes back only so many cells of some models.
Trims(cells, n) == n <= Len(cells) /\ Len(cells) - n <= arch.back

\* Mutant: anchors of the previous session stay.
PruneNone(anchors, n) == anchors

\* prune_chain_beyond_reuse.
Prune(anchors, n) == Restrict(anchors, {m \in DOMAIN anchors : m <= n + 1})

Settled(s, cells, tokens, n) ==
  [gpu |-> cells, mem |-> tokens, chain |-> Prune(chain[s], n), n |-> n]

\* Every failure ends in a full prefill.
Cold(s) == Settled(s, <<>>, <<>>, 0)

\* A snapshot that loads, unless the engine refuses it.
Restored(s, r) == {r} \cup (IF "restore" \in Faults THEN {Cold(s)} ELSE {})

SearchLen(p, n) == IF n = 0 THEN Len(p) - 1 ELSE n
InRam(p, n) ==
  {k \in DOMAIN store : SearchLen(p, n) > 0 /\ IsPrefix(k, p) /\ Len(k) <= SearchLen(p, n) + 1}
OnDisk(p, n) == {k \in DOMAIN disk : IsPrefix(k, p) /\ Len(k) <= SearchLen(p, n)}

\* restore_host_snapshot: a sequence without cells prefers the disk, whose
\* snapshots are complete; others only when the store has nothing.
FromHost(s, p, n) ==
  LET fresh == n = 0 \/ gpu[s] = <<>>
      tokens == IF n = 0 THEN <<>> ELSE mem[s]
      ram == Longest(InRam(p, n))
      stays == Least({SearchLen(p, n), Len(ram)})
      key == Longest(OnDisk(p, n))
  IN  IF OnDisk(p, n) # {} /\ (fresh \/ InRam(p, n) = {})
      THEN Restored(s, Settled(s, disk[key], tokens, Len(key)))
      ELSE IF InRam(p, n) # {} /\ ~(arch.recurrent /\ stays < Len(ram))
                               /\ Trims(store[ram], stays)
      THEN Restored(s, Settled(s, Upto(store[ram], stays), tokens, stays))
      ELSE {Cold(s)}

\* best_chain_anchor: one token past the match is allowed where it can be
\* taken back.
FittingAnchors(s, n) ==
  {m \in DOMAIN chain[s] : m # 0 /\ m <= n + (IF arch.recurrent THEN 0 ELSE 1)}

FromAnchor(s, n) ==
  LET m == Most(FittingAnchors(s, n))
      stays == Least({n, m})
      data == chain[s][m]
  IN  IF Trims(data, stays)
      THEN Restored(s, Settled(s, Upto(data, stays), mem[s], stays))
      ELSE {Cold(s)}

\* settle_prefix_kv: trim, else restore from the chain, else from the host.
SettlePrefixKv(s, p) ==
  LET n == ReuseForBind(s, p)
  IN  IF n > 0 /\ Trims(gpu[s], n)
      THEN {Settled(s, Upto(gpu[s], n), mem[s], n)}
      ELSE IF n > 0 /\ FittingAnchors(s, n) # {} THEN FromAnchor(s, n)
      ELSE FromHost(s, p, n)

\* A boundary other sessions shared may be armed; recurrent models also stop
\* before the last token.
Bind(s, p) ==
  /\ Idle(s)
  /\ \E r \in SettlePrefixKv(s, p) : \E b \in {0} \cup (r.n + 1)..(Len(p) - 1) :
       /\ gpu' = [gpu EXCEPT ![s] = r.gpu]
       /\ mem' = [mem EXCEPT ![s] = r.mem]
       /\ chain' = [chain EXCEPT ![s] = r.chain]
       /\ job' = [job EXCEPT ![s] =
                    [prompt |-> p, n |-> r.n, gen |-> <<>>, stop |-> b,
                     pre |-> IF arch.recurrent THEN Len(p) - 1 ELSE 0]]
  /\ kept' = kept \ {s}
  /\ UNCHANGED <<arch, store, disk>>

-----------------------------------------------------------------------------
(* Prefill and what it leaves behind.                                       *)

Prefilling(s) == ~Idle(s) /\ job[s].gen = <<>>

\* prefill_remaining_to_stop.
Limit(j) ==
  LET stops == {m \in {j.stop, j.pre} : m # 0}
      left == Len(j.prompt) - j.n
  IN  IF stops # {} /\ Least(stops) > j.n THEN Least({left, Least(stops) - j.n}) ELSE left

\* push_prefix_ckpt and trim_prefix_chain: the newest anchor and those of the
\* stub window stay, the shortest of the others go.
Unprotected(anchors) == {m \in DOMAIN anchors : m # Most(DOMAIN anchors) /\ m \notin Window}
Trimmed(anchors) ==
  LET excess == Cardinality(DOMAIN anchors) - ChainMax
      shorter(m) == {u \in Unprotected(anchors) : u <= m}
  IN  Restrict(anchors, {m \in DOMAIN anchors :
                           m \in Unprotected(anchors) => Cardinality(shorter(m)) > excess})
Pushed(anchors, n, data) == Trimmed(Put(anchors, n, data))

\* put_with and evict_if_over_cap; which entry goes (evict_score: without a
\* session, no observed boundary, longest, oldest) is left open, and it may
\* be the new one.
Bounded(f, max) ==
  IF Cardinality(DOMAIN f) <= max THEN {f}
  ELSE {Restrict(f, DOMAIN f \ {v}) : v \in DOMAIN f}

\* Mutant: a snapshot is filed under the whole prompt.
SnapshotKeyWhole(p, n) == p
SnapshotKey(p, n) == Upto(p, n)

\* One chunk of a prompt is decoded; apply_plan takes the snapshots that the
\* position calls for; with the last chunk the first token is sampled.
Prefill(s, take) ==
  LET j == job[s]
      n == j.n + take
      cells == gpu[s] \o SubSeq(j.prompt, j.n + 1, n)
      done == n = Len(j.prompt)
      demand == j.stop # 0 /\ n >= j.stop
      atPre == j.pre # 0 /\ n >= j.pre
      stub == n \in StubLens \/ demand
      anchor == done \/ (stub /\ n = LastStub /\ ~demand) \/ (~stub /\ atPre)
      key == SnapshotKey(j.prompt, n)
      others == IF stub /\ n \in Window
                THEN Restrict(chain[s], {m \in DOMAIN chain[s] : m \notin Window \/ m = n})
                ELSE chain[s]
  IN  /\ Prefilling(s) /\ take <= Limit(j)
      /\ gpu' = [gpu EXCEPT ![s] = cells]
      /\ \E t \in Gen :
           job' = [job EXCEPT ![s] =
                     [prompt |-> j.prompt, n |-> n, gen |-> IF done THEN <<t>> ELSE <<>>,
                      stop |-> IF demand THEN 0 ELSE j.stop,
                      pre |-> IF atPre THEN 0 ELSE j.pre]]
      /\ \/ /\ anchor \/ stub
            /\ chain' = IF anchor THEN [chain EXCEPT ![s] = Pushed(others, n, cells)]
                        ELSE chain
            /\ IF stub THEN store' \in Bounded(Put(store, key, cells), StoreMax)
                       ELSE UNCHANGED store
            /\ \/ /\ done \/ stub
                  /\ disk' \in Bounded(Put(disk, key, cells), DiskMax)
               \/ /\ ~(done \/ stub) \/ "dump" \in Faults
                  /\ UNCHANGED disk
         \/ /\ ~(anchor \/ stub) \/ "dump" \in Faults
            /\ UNCHANGED <<chain, store, disk>>
      /\ UNCHANGED <<arch, mem, kept>>

-----------------------------------------------------------------------------
(* Decoding and the end of a job.                                           *)

\* The pending token gets its cell and the next one is sampled.
Decode(s, t) ==
  /\ ~Idle(s) /\ job[s].gen # <<>> /\ Len(job[s].gen) < MaxGen
  /\ gpu' = [gpu EXCEPT ![s] = Append(@, Last(job[s].gen))]
  /\ job' = [job EXCEPT ![s].n = @ + 1, ![s].gen = Append(@, t)]
  /\ UNCHANGED <<arch, mem, chain, kept, store, disk>>

Remembered(j) == Upto(j.prompt \o j.gen, j.n)

\* Stop, Length, Cancelled and Timeout keep what is resident.
Finish(s) ==
  /\ ~Idle(s)
  /\ mem' = [mem EXCEPT ![s] = Remembered(job[s])]
  /\ job' = [job EXCEPT ![s] = NoJob]
  /\ kept' = kept \cup {s}
  /\ UNCHANGED <<arch, gpu, chain, store, disk>>

Busy == {s \in Slots : ~Idle(s)}

\* A failed decode (all busy slots) or the error of one job clears the
\* sequences and all the slots know of them.
Fail(S) ==
  /\ "decode" \in Faults /\ S # {}
  /\ gpu' = [s \in Slots |-> IF s \in S THEN <<>> ELSE gpu[s]]
  /\ mem' = [s \in Slots |-> IF s \in S THEN <<>> ELSE mem[s]]
  /\ chain' = [s \in Slots |-> IF s \in S THEN NoFun ELSE chain[s]]
  /\ job' = [s \in Slots |-> IF s \in S THEN NoJob ELSE job[s]]
  /\ kept' = kept \ S
  /\ UNCHANGED <<arch, store, disk>>

\* Over the watermark all retained cells go; anchors and tokens stay.
Release ==
  /\ Pressure /\ kept # {}
  /\ gpu' = [s \in Slots |-> IF s \in kept THEN <<>> ELSE gpu[s]]
  /\ kept' = {}
  /\ UNCHANGED <<arch, mem, chain, job, store, disk>>

FreshSlots ==
  /\ mem' = [s \in Slots |-> <<>>]
  /\ chain' = [s \in Slots |-> NoFun]
  /\ job' = [s \in Slots |-> NoJob]
  /\ kept' = {}

\* The GPU worker panics: new slots, the cells stay where they are.
Panic ==
  /\ "panic" \in Faults /\ Busy # {}
  /\ FreshSlots
  /\ UNCHANGED <<arch, gpu, store, disk>>

\* The process is killed and started again: only the disk is left.
Restart ==
  /\ "kill" \in Faults
  /\ FreshSlots
  /\ gpu' = [s \in Slots |-> <<>>]
  /\ store' = NoFun
  /\ UNCHANGED <<arch, disk>>

Init ==
  /\ arch \in Archs
  /\ gpu = [s \in Slots |-> <<>>] /\ mem = gpu
  /\ chain = [s \in Slots |-> NoFun]
  /\ job = [s \in Slots |-> NoJob] /\ kept = {}
  /\ store = NoFun /\ disk = NoFun

Next ==
  \/ \E s \in Slots :
       \/ \E p \in Prompts : Bind(s, p)
       \/ \E take \in 1..Limit(job[s]) : Prefill(s, take)
       \/ \E t \in Gen : Decode(s, t)
       \/ Finish(s)
  \/ \E S \in {Busy} \cup {{s} : s \in Busy} : Fail(S)
  \/ Release
  \/ Panic
  \/ Restart

Spec == Init /\ [][Next]_vars

-----------------------------------------------------------------------------
\* The cells of a running job are those of its own prompt and answer, up to
\* its position, wherever they were taken from: the trimmed sequence, an
\* anchor of the slot, another slot's snapshot, or a file of an earlier
\* process.
Faithful ==
  \A s \in Slots : ~Idle(s) =>
    gpu[s] = Upto(job[s].prompt \o job[s].gen, job[s].n)

\* A snapshot in the store or on disk holds the cells of the very prefix it
\* is filed under; any slot may restore it.
HostHonest ==
  /\ \A k \in DOMAIN store : store[k] = k
  /\ \A k \in DOMAIN disk : disk[k] = k

\* An idle slot remembers exactly the tokens whose cells it retains, so the
\* next match is against what is really there.
MemoryHonest == \A s \in kept : gpu[s] = mem[s]

\* However much is reused, a bound job has a token left to prefill: without
\* one there are no logits to sample its first token from.
LogitsLeft == \A s \in Slots : Prefilling(s) => job[s].n < Len(job[s].prompt)

\* A bound request has its own cells up to its position, and at least one token
\* to compute logits from (bind_slot).
CellsAreTrue == Faithful /\ LogitsLeft

\* What is kept for later, in a snapshot, on disk or in an idle sequence, is
\* what it is remembered as.
SnapshotsHonest == HostHonest /\ MemoryHonest
=============================================================================
