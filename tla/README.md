# TLA+ specifications of golbang

golbang is a Rust server that runs one GGUF model through llama.cpp and answers
OpenAI-style HTTP requests. All requests share one decode batch and one KV pool:
a single worker task (`run_loop`, golbang-core/src/scheduler.rs) owns a fixed
number of *slots* (sequences), takes requests from a bounded channel, admits them
against the pool, prefills, decodes, drafts and verifies, and sends each request
its events. The specifications model that loop, the arithmetic it rests on, what it
promises the HTTP layer, how an iteration is planned and a draft verified, what the KV cells hold when a prompt reuses
cells of earlier ones, the host memory and the disk tier those come from, and what becomes of a sampled token
on its way to the client. The proofs hold for every number of
slots, requests, cells and every configured limit.

Run everything inside this directory:

    tlc -workers 2 -config SchedMixed.cfg MCScheduler
    tlapm SchedulerProofs.tla

## Inventory

| Part | State it keeps | Operations | Interacts with |
|---|---|---|---|
| HTTP handlers (golbang-server: routes, sse) | per request: the event channel, a drop guard on a cancel token | submit, stream, aggregate; the guard cancels when the client goes away | `SchedulerHandle::try_submit` (bounded mpsc, 503 when full); receives `SlotEvent`s |
| Scheduler (scheduler.rs, slot.rs) | `waiting` queue, slots with their jobs, iteration counters | drain, expire, evict, join (admit, defer, bind), plan, decode, emit, draft, verify, settle | everything below; the only owner of slot state; GPU work runs in `spawn_blocking` |
| Caps and admission (ctx_cap.rs) | none | cap of a slot, cap of a joiner, admit/clamp/defer, pool-fit ladder at start-up | called by join and by every recompute of caps |
| Join policy and budgets (policy.rs) | arrival order, per-iteration budgets | pair idle slots with waiting requests by prefix affinity; prefill yields | called once per iteration |
| Batch builder (batch.rs) | none | decode pass, prefill chunks, decide_mix_mode, split_prefill_quota | reads slots |
| Prefix cache (prefix_cache.rs) | per slot: remembered tokens; host store with LRU and byte cap; disk entries | longest prefix, put, find, evict, persist, scan at start | bind (settle, restore), prefill (capture), finish (remember) |
| Speculative decoding (speculative.rs, model.rs) | draft history, adaptive draft length, MTP state per sequence | draft, accept, roll back, snapshot and replay | emission and the batch |
| Reasoning and tool-call parsers (reasoning.rs, tools.rs) | partial tags in the text stream | feed a chunk, finish | the HTTP stream |
| Chat templates, sampler, tokenizer, vision, engine (FFI) | model handles | render, sample, encode, evaluate images, decode | llama.cpp |
| Start-up (main.rs, lib.rs), types, metrics, web UI | configuration, counters | parse, retry the load down a ladder of pool sizes, report | |
| golbang-sys, scripts, deploy, patches, bench records | | build and tooling | |

What makes the behaviour hard: three parties act on a request at once (its
client, its timer and the worker); the worker takes requests out of its queue
and puts some back while more arrive; slots compete for one pool through caps that
are recomputed at every join and finish; finished sequences stay on the GPU for
the next turn and are released only under pressure; a verify step writes more
cells than it keeps; a decode error or a panic ends several requests at once; and a wrong KV cell shows
nowhere, the answer is just to another prompt.
PROJECT.json lists these hazards at their lines.

## Modules

| Module | Models |
|---|---|
| `Scheduler` | the worker loop, the handlers, cancellation, timeouts, GPU failures; extends `CtxCap` |
| `RequestSpec` | the promise to the HTTP layer, about one stage per request and nothing inside the scheduler |
| `CtxCap` | ctx_cap.rs: every cap formula and `admission_decision`, in saturating arithmetic of width `MaxU32` |
| `PoolFit` | ctx_cap.rs and main.rs: the ladder of pools tried at start-up and what is reported of it |
| `PrefillQuota` | batch.rs: `split_prefill_quota`, one action per turn of a slot |
| `Planning` | batch.rs, policy.rs, slot.rs: mode, decode and prefill pass, budget, over iterations in which requests come and go; extends `PrefillQuota` |
| `JoinPolicy` | policy.rs: which idle slot each waiting request gets |
| `SpecDecode` | speculative.rs and the draft side of model.rs: drafters, verification, rollback, restore, MTP cells |
| `PrefixKv` | scheduler.rs and prefix_cache.rs: what the cells of a sequence hold, from the trim or restore at bind through the snapshots of prefill to what finish remembers |
| `VisionKv` | the same for requests with images: `VisionSeq`, `bind_vision_slot`, the evaluation in vision.rs |
| `HostRam` | prefix_cache.rs: the host store with its caps and eviction order, the anchor chains, the cap over both, observed boundaries |
| `PrefixDisk` | prefix_cache.rs: the disk tier, its index, files, eviction, scan at start, and crashes between any two steps |
| `TextStream` | generate.rs, reasoning.rs, tools.rs: from sampled tokens to characters, stop strings, thoughts and tool calls |
| `Sse` | sse.rs: one completion between the scheduler and its client |
| `MCCtxCap`, `MCText`, `MCVision`, `MCScheduler`, `MCPrefixKv`, `MCPrefixDisk`, `MCSse` | small instances |
| `MCParts` | the instances of the parts that share no variable, in one run |
| `SchedulerProofs`, `SseProofs` | the theorems about the module of the name |
| `PrefixDiskProofs` | the theorems about `PrefixDisk` and `HostRam` |
| `SpecDecodeProofs` | the theorems about `SpecDecode` and `TextStream` |
| `PrefixKvProofs` | the theorems about `PrefixKv` and `VisionKv` |
| `PlanningProofs` | the theorems about `Planning`, `PrefillQuota`, `MCCtxCap`, `JoinPolicy` and `PoolFit` |
| `CtxCapProofs`, `FoldLemmas` | lemmas several of them rest on: the cap operators; folds over sequences and sets, loops that jump forward, least numbers |

How they fit together. `Scheduler` is the whole loop with its data abstracted; each other module is a closer
look at one thing it leaves open: `JoinPolicy` at the pairing of requests with slots, `Planning`
at the split of an iteration, `SpecDecode` at what a verify step writes, `PrefixKv` and `VisionKv` at which prefix
is reused at bind. `PrefixKv` leaves open which entry a full store evicts, which is `HostRam`, and
which file a full disk evicts, which is `PrefixDisk`. `TextStream` starts where a token is sampled, and
`Sse` takes what its parsers make of a text as any parting of it into text, tool markup and text they swallow. `RequestSpec` is the abstract
specification of `Scheduler`. It speaks of the first terminal event of a request, the one its handler acts on; that `push_token` lets a second one
follow is in `Scheduler` (`failed`) and in the job of `Sse` (`WorkerFailsToken`), whose task must cope with both.

### How Scheduler corresponds to the code

`pc` is the place in one iteration of `run_loop`, and each action is one stretch of
it between two points where another party may act or where the code loops:

| Code | Actions |
|---|---|
| `try_submit`, the drop guard, a deadline that passes | `Submit`, `Cancel`, `TimeElapses` |
| `while let Ok(job) = rx.try_recv()` | `Recv`, `DrainDone` |
| `expire_waiting_timeouts` | `ExpireOne`, `ExpireDone` |
| `evict_cancelled` and `release_retained_under_pressure` | `EvictCancelled` |
| `join_waiting`: the policy's pairs, then each pair | `JoinStart`, then `Defer`, `BindFails`, `Bind`, `VisionEvalFails`, `VisionOverflows` or `VisionSampleFails` per pair, then `JoinDone` |
| `decide_mix_mode`, `builder.plan` | `PlanPrefill`, `PlanDecode`, `PlanEmpty`, `Idle` |
| the blocking GPU worker: decode, `apply_plan`, `sample_and_emit`, `fill_drafts_sync` | `GpuStep`, `GpuFails`, `GpuPanics` |
| `evict_finished`, the second release, `recompute_slot_caps` | `EvictFinished` |

A slot is a record: the job's request, phase, position (`nPast`), number of
generated tokens, cap, clamped budget, whether a sampled token is pending, its
drafts, whether a verified prefix is being replayed and why it finished ("Failed" is the `Stop` of a
slot whose `push_token` has already sent `Failed`); and for
the sequence `kv`, the cells it occupies on the GPU, with what an idle slot
remembers (`prefixLen`, `retained`). `answer` is the event a request left the worker with, `failed` the requests
that `push_token` sent `Failed` to while their slot was busy;
`ticket` numbers the arrivals and exists only for the properties, which also
read the drained, deferred and picked requests as one line.

Abstractions. A prompt is its length, and a sampled token is a plain token, an end
of generation, one that completes a stop string, or one without text, for which `push_token` sends `Failed` at once, ends
the slot with `Stop` and leaves its own end, a second terminal event, to follow. A bind reuses any proper prefix of
the prompt, whichever tier it came from; the pairing of requests with idle slots is
any. The failures of the engine are a constant, `Faults`; a bind of an image request may fail in its evaluation, which clears the
sequence, after it, when the engine counts more positions than the cap has, and at its first token: the last two leave the cells. A prefilling slot gets any chunk up to its share. Every position takes one cell, image
positions too, and all sequences draw on one pool (`--kv-unified`); with separate
streams per sequence the pool is never the limit the caps take it for. The context
budget the code uses in production has `mixed_prefill_max = 0`, so an iteration either
decodes or prefills. `n_batch` holds a verify batch of every slot
(`BatchAssumption`). The shutdown of the channel, host snapshots and the MTP pool are
left out. A panic that loses a request is the answer "Lost": the handler sees its
event channel closed.

### How PrefixKv corresponds to the code

`gpu[s]` is the sequence, as the tokens its cells were computed from; `mem[s]` is
`prefix_cache.tokens`, `chain[s]` is `prefix_ckpts`, `store` the entries of
`PrefixStore`, `disk` those of its disk tier, each a snapshot under a length or a key.

| Code | Operators and actions |
|---|---|
| `bind_slot`: `reuse_for_bind`, `settle_prefix_kv`, `restore_host_snapshot`, `prune_chain_beyond_reuse` | `Bind`; `SettlePrefixKv` gives the set of outcomes: a trim, an anchor of the chain, the host store or disk, or a cold start |
| a prefill chunk and its `apply_plan`: anchors, promotion, persistence | `Prefill`, with `Limit` for the stops and `Pushed` for the chain |
| one decoded token | `Decode` |
| `finish_slot`, with and without retained cells; `fail_all_active` | `Finish`, `Fail` |
| `release_retained_under_pressure` | `Release` |
| a panic of the worker; a killed and restarted process | `Panic`, `Restart` |

Abstractions. Loading a snapshot gives back all the cells it was taken from or fails: which
parts llama.cpp writes into a partial dump is outside this repository. `seq_rm` takes back
any suffix up to `back` cells (`n_rs_seq` and kin) or nothing. The boundary that
`observe_boundary` may arm is any. The victim of the store and of the
disk is any entry, so eviction scores and byte caps do not matter here. Drafts, images and MTP
are left out: text prompts only, one token per decode.

### How PrefixDisk corresponds to the code

`index`, `used`, `tick`, `stage` and `job` are the process (index, byte count, counter, and the put or
eviction it is in), `files` is the directory. `recent` and `stuck` exist only for the properties. `put` is `PutWrite` (temporary file), `PutRename`, `PutIndex`, then
one `EvictOne` per victim; `find` is `Find` or `Miss`; `Open` reads the
directory. A crash may come between any two of these; a write and a removal may
fail. A key stands for its file: hash collisions are excluded, and so is a power loss that
undoes what the process wrote.

### How Planning and PrefillQuota correspond to the code

`seat` is the slots in slot order, `sinceYield` the counter of `run_loop`, `mode` the place in the iteration.

| Code | Actions |
|---|---|
| `decide_mix_mode`, `decode_pass`, the room for prefill | `BeginPlan` |
| a round of `split_prefill_quota` and the turn of each hungry slot | `Round`, `Grant`, `OutOfTokens` |
| `apply_plan` with what was sampled | `ApplyPlan`, over every outcome the drafts and the answer may have |
| a bind, a cancellation or a timeout between iterations | `JoinSeat`, `LeaveSeat` |

`IterationBudget::for_context` and `resolve_budget` are operators; the run has the default budget and one with
mixed batches and a yield. `waited` and `paused` exist only for the properties.

### How JoinPolicy corresponds to the code

The policy keeps no state: a state is one question (idle slots, requests in line), `PrefixAwareJoin` the
answer. A slot is its remembered tokens, `prefix_len` and `ckpt_n`. `prefix_len` may exceed the tokens
(an image prefix has a length and no tokens).

### How SpecDecode corresponds to the code

One request on one slot, as `step` goes round: `Draft` (or `KeepDrafts`, after a restore) is `take_draft_jobs` and
`spec_draft`; `Decode1` is `decode_and_sample` with `snapshot_spec_slots` and `apply_plan`; the
verify actions are `verify_and_emit` with acceptance, rollback (`rm_seq_from`), or the checkpoint. A cell is
known by the token it was computed from, and a recurrent state, a logits row and a hidden row by the whole text
fed before them, so a row sampled after a rejected draft shows as such. `ngram` is `NgramMod` (table,
`i_last`, the resets of `begin` and `accept`). `MtpDrafts` lets the MTP head propose anything. A request is
greedy, where the sample is `Argmax` of the text, or samples anything. Left out: hash collisions of the table (they
change drafts only), several sequences in one MTP batch, adaptive statistics. `seq_state_get` is assumed to succeed.

### How HostRam corresponds to the code

`entries`, `lru`, `total` are `PrefixStore` (ticks as an order), `hostChain[s]` is `prefix_ckpts`, `observed` and
`counts` the ring and the table behind `observe_boundary`, `retained` the slots with `retained_at`.
`HostBind` is `bind_slot` (observe, arm, look up, prune), `HostPrefill` the chunks up to the next
capture with its `apply_plan` (`put_with`, `push_prefix_ckpt`), `HostFinish`, `HostRelease` and `Panics` the
ends of a job. Every step that the code follows by `enforce_host_ram_cap` ends in `Settle`: `Enforced` is that
function: its loop over `evict_global_over_cap` and `trim_chains_session_order` goes round again only to find nothing
more to drop. `Evicted` is the loop of both evictions. `Victim` is `evict_score`. What a bind reuses is
nothing, what the slot held, or a dump of the store; a dump of n tokens has any of the sizes `DumpBytes[n]`.

### How VisionKv corresponds to the code

`vision` is `prefix_cache.vision`, `cells` what the sequence has, by position and content, `eval` the evaluation
under way. `BindVision` is `bind_vision_slot` up to the evaluation; `EvalSucceeds`, `SampleFails` and
`EvalFails` are how it ends; `VisionFinish` is `remember_vision`; `VisionRelease` the release under
pressure. A text request in between is `TextRequest`. External, from how vision.rs and model.rs use it: llama.cpp
accepts a batch only at a position not below the cells of the sequence (`Accepts`). Image decoding and loading are left
out: an image is its id, its number of cells and its number of positions.

### How TextStream corresponds to the code

A decode samples all rows of a verify batch (`DecodeRows`) before any is pushed; `PushToken` and `PushEog` are
`push_token` (`step` in generate.rs is the same for one row), `PushFails` its exit for a token without text, after which nothing
is told, and `Finished` what sse.rs does at the end. `TakeValid` is `Utf8Buf`, `StopCutLen` is `stop_cut_len`, `Drain` and `ReasoningPush` the `ReasoningParser`,
`ThinkOnEmit` and `MaybeEndOrForce` the `ThinkBudget`, `DsmlOnEmit` the `DsmlNameGuard`, `ToolPush`,
`ExtractBlock` and `ParseToolCalls` the tool-call parser; `ParseDsml` goes on behind the body of an invoke that has a name, so one
nested in it is no call. A text is a sequence of letters and a tag two or three
of them, so that tokens cut tags, stop strings and characters at every place. Left out: white space at the end of a
text, the arguments of a call, and the end by the context cap (which leaves an incomplete character
unsent). The reference, `WholeSplit`, reads the whole text letter by letter and holds nothing back.

### How Sse corresponds to the code

| Code | Actions |
|---|---|
| `tx.send(chunk).await` in `stream_completion` | `Send`: it waits while the channel is full and fails when the client is gone |
| the `select!` arms on an event | `OnToken`, `OnEmptyPiece`, `OnProgress`, `OnFinished`, `OnFailed`, `OnClosed` |
| its ping and flush timers | `Ping`, `FlushTimer` |
| `complete`, one JSON body | `JsonToken`, `JsonFinished`, `JsonFailed`, `JsonClosed` |
| the job | `WorkerSends`, `WorkerFailsToken`, `WorkerEnds` |
| the client | `ClientReads`, `ClientLeaves` |

A piece of text is the number of its token. The parsers part what they hold in any way: while the answer goes on into
text, text they swallow and a rest (`PartingsOfToken`), at the end into text, tool markup and swallowed text
(`PartingsAtEnd`). What is swallowed is the tags of a thought, a DSML block that does not parse, and what the last `tools.push`
returns, which `finish_stream` and `complete` throw away; which letters that can be is `EndIsWhole` of `TextStream`. Content and
reasoning are one text; that a thought may overtake content the tool parser still holds, in another field of another chunk, is left out. Chunks that only keep the connection alive are not part of `got`.

### How PoolFit corresponds to the code

`TryLoad` is one turn of the loop of `load_with_pool_fit`: the candidate of `pool_fit_ladder`, the clamp of
`n_batch`, what `Model::load` makes of the defaults (`Physical`), and a success or a failure. `Reported` is what a success
reports: the candidate, and without `--kv-pool-fit` the numbers of the command line. `pool` is the `PoolFit` the gauges show.

## Runs

Checks that pass:

| Run | Instance | Shows |
|---|---|---|
| `sched_mixed` | 2 slots, 3 requests (one with an image, one that may be cancelled, one with a timer), drafts up to 2 with a rollback limit of 1, and every failure: decodes, panics, tokens without text, evaluations that fail or run over the cap, first tokens that cannot be sampled | `TypeOK`; `QueueOrder`: the line stays in arrival order; `OneHome`: nothing dropped, run twice or decoded after its answer; `DeferredBehindARunner`: who is deferred waits for a running request; `OnePending`: position, pending token and KV agree through acceptance, rollback and replay; `NothingAfterTheEnd`: nothing follows the event a request left with, and after the `Failed` of a token without text only its slot's own end does; `ArrivalOrder`: with two slots requests start in arrival order; `KeepsPromise`: the scheduler implements `RequestSpec` |
| `sched_three` | 3 slots, 3 requests without limits, drafts of 1 | `PoolFits`: the next decode always fits, retained prefixes included; `IdleCellsAccounted`: what idle slots hold can be released |
| `sched_live` | 2 slots, 2 requests, the first waits when the other runs, fair worker | `EventuallyAnswered` |
| `sse` | a stream or a JSON request, up to 4 events, a channel of 2 chunks, a flush after 2 deltas | `ChunkOrder`: the role comes first, then one finish_reason, then `[DONE]` and nothing after it; `TextInOrder`: of what the parsers let go no delta is lost, doubled or out of order between them, the pending delta and the channels; `LeaverIsNoticed` and `TaskEnds` (liveness) |
| `disk` | 3 keys of two fingerprints and different sizes, one crash, failing writes and removals | `IndexBacked`: what is indexed reads back; `NoOrphanFile`: a file of the fingerprint that is not indexed is one whose removal failed; `UsedExact`: the byte count; `NoTornFile`; `EvictsOldest`: within one process the order of use decides |
| `parts` | the parts below, each on its own instance | the properties below |

`parts` is one run because its modules share no variable: `part` picks one, whose actions then run while the variables of the
others rest in one initial state. So its states are the sum and not the product of the parts' states, and a
property of one part is true of the others' states because nothing of it moves there. Caps, text, speculation, host, join
and fit come to an end (`PartEnds` lets them rest); planning, vision and kv never do, and deadlock is checked for them.

| Part | Instance | Shows |
|---|---|---|
| caps | pools to 4 cells, 3 active, drafts to 3, `MaxU32` = 7 so that sums saturate; a step raises one input | `CapsFit`: a joiner's cap leaves the others and the verify reserve their cells, and two slots may both grow to their caps. `CompanyCosts`: a cap never grows with company. `DeferIsTemporary`: whoever is deferred is admitted whole once alone |
| text | six families of answers of 4 to 7 tokens, in alphabets that cut what they are about in every way | `TextIsWhole`: the text sent is the text of the bytes; `StopIsTheEnd`; `ToldIsWhole`: told and held back are together the split of the whole text, and at the end everything was told, but for what both parsers held (`EndIsWhole`, see below); `ForcingEnds`: a thought ends within its budget and its closing tag, one row per decode, and a tool call gets its name |
| spec | 3 tokens, three prompts, MTP, n-gram table and prompt lookup together and apart, greedy and sampled, rollback limit 1, drafts of up to 2 | `RowsAreTrue`: an accepted token was sampled after exactly the text before it; `VerifiedTwiceAtMost`: a restore makes progress; `StateFollows`: the draft starts from the last accepted row, and what is remembered has its cells |
| host | 2 slots, 2 sessions with a common head, 4 binds, 2 entries, 3 bytes in the store, 7 in all | `HostRamSound`: bytes and order are those of the entries, and over the cap only protected dumps are left; `DemandIsRepeated`: a one-off prefix is never captured on demand |
| plan | 3 slots, batches of 4, the default budget and a mixed one, prompts of 6 and 8 tokens, one with a stop, drafts of 1, requests leaving at any time | `PlanSound`: no more than `n_batch`, no room left while somebody is hungry, and a chunk ends at an armed boundary; `EveryoneServed`; `BothGoOn`: a prompt moves within `prefill_yield_every` iterations (`PromptKeepsMoving`), and while nobody joins, prefill pauses generation for one yield and for what the short rests take (`PauseEnds`) |
| join | up to 2 idle slots of 19 kinds, up to 2 requests of 4 kinds | `SessionsKeepTheirSlots`: sessions that take turns keep their slots |
| vision | 7 conversations that go on behind an image, swap it, resize it, add one; a text request in between | `ImagesAreKept`: the cells are those of this prompt, and memory and cells agree, failures included |
| fit | command lines below, at and above the floors, batch sizes given or not | `FitSound`: each retry asks for less, and what is reported is what was loaded |
| kv | 1 slot, a session, its next turn and one that shares its head, a recurrent model and one with a cell of rollback; failing loads, dumps and decodes, panics, restarts | `CellsAreTrue`: the cells of a running job are those of its own tokens (`Faithful`), and a token is left to prefill; `SnapshotsHonest`: a snapshot holds the prefix it is filed under, and an idle slot remembers what it retains |

Disagreements between the code and what the repository says of it, each a run whose
property TLC finds violated:

| Run | What happens |
|---|---|
| `sched_pool_spec_off` | Without speculation nothing is reserved; three slots that grew unevenly are all under their caps and exceed the pool together, and the failed decode fails all of them |
| `sched_vision_live` | An image request whose first token ends generation is finished at bind; with an empty plan the loop continues before `evict_finished`, and it is never answered while nothing else runs |
| `disk_restart` | After a restart the scanned entries carry wall-clock ticks and new ones count from the number of files: at the cap, what was just written is what goes |
| `kv_stale` | A prompt that leaves a session one token before an anchor keeps that anchor (`reuse_len + 1`); a release and a third prompt later it is restored for tokens it does not hold. The sessions of part kv never diverge exactly there, so that run shows the rest is right |
| `text_budget` | A verify batch samples all its rows before the first is pushed. When the first of them spends the thinking budget, the accepted drafts behind it are counted as the forced closing tag, which is then never emitted, and the thought goes on uncounted. With one row per decode (part text) the budget holds |
| `vision_tail` | An image request that reuses part of the resident prefix does not remove the cells behind it, so the rest is evaluated at positions below cells of the earlier prompt; llama.cpp refuses that, the evaluation fails, and the sequence is cleared. Where the evaluation does succeed, part vision shows the cells are right |

What reading and modelling also showed, and no run states.

Scheduling. More than `--queue-size` requests may wait, as the worker empties the bounded channel into an
unbounded queue every iteration. With three slots a deferred request may be overtaken by a smaller one behind it in the
same pass. Retained prefixes just under the watermark stay although a joiner's first chunk may need the
room. A request admitted with its whole prompt and `max_tokens` may still end by Length early, because a later join
lowers its cap (`recompute_slot_caps`), although slot.rs:336 says a later neighbour cannot shorten the
reservation. A stream of short prompts on one slot can pause decoding on another for as long as it lasts, as every rest of at
most `2 * prefill_max` is finished first; `PauseEnds` is about the time without joins. A custom `decode_max`
below the number of slots never serves the later ones (production uses `for_context`). After a panic
what was retained is not accounted any more, so `IdleCellsAccounted` is checked without panics. An image request whose first token cannot be sampled leaves its cells in a slot that is idle
and not retained (scheduler.rs:1058 takes the job, `occupy` had reset `retained_at`), so no pressure releases them, and one that runs over its
cap leaves them in a slot that remembers what it did before (scheduler.rs:1019): in an instance with an image request the
property fails as soon as `Faults` has "sample" or "overflow". It is therefore checked on text requests, and the theorem excludes these
steps. A request may be sent two terminal events, `Failed` by `push_token` and the end of its slot: the handlers act on the first (the stream answers it and returns, `complete` returns), so the second is never seen; at this commit `token_to_piece` itself
(tokenizer.rs:107) has no case that returns an error, so the path is one the code provides for and does not take.

Prefix cache. A comment in scheduler.rs near 2270 says a short stub is never evicted while a longer dump exists:
references and demand come before length. A stop that coincides with a stride or a demand boundary skips the anchor before
generation. `find_ram` counts as a use also when the disk has the longer hit. Slots whose cells were released count as the
newest in the order of trimming. Files of another fingerprint stay in the directory without counting for its
cap; the fingerprint is made of the command line's context and ubatch, not of the pool the ladder ended with.

Text and HTTP. `finish_stream` and `complete` throw away what `ToolCallParser::push` returns for the last text: an
answer that ends in the beginning of a tool tag and of a thinking tag loses these letters (`EndIsWhole` says exactly
which). The last token `max_tokens` allows is not searched for stop strings. Within one piece a stop string cuts at its last
occurrence. An answer that ends by an end-of-generation token inside a character drops its bytes.
After `[DONE]` a stream that never had a role may still send pings; `Failed` does not flush what is
pending; a job that vanishes leaves a stream without `[DONE]` and a JSON body without finish_reason; while a tool block
is held nothing is sent, so a client that left is noticed only at its end.

Start-up and drafts. With a ubatch above the batch, or a batch above the context, a retry of the ladder may ask for the pool
that was just refused and the gauge may show a ubatch that was not loaded; the command lines of part fit keep
ubatch ≤ batch ≤ ctx. Without `--kv-pool-fit` a context of 0 is loaded as 1 and reported as 0. Restoring a checkpoint recomputes one MTP cell from a later hidden row, which can only
cost draft quality.

Bounds. Two slots are the smallest number at which neighbours change each
other's caps, and the default; three are needed for uneven growth and for a deferred head
with two running. Three requests fill the slots and leave one in line. The pools
are chosen so that all admission decisions occur (admit, defer, clamp), that
slots finish by `Length` at their cap, and that the watermark is crossed. The watermark is
85% in the code; with pools of a dozen cells one iteration's growth is a large part of the pool, so
the passing runs take the percentage that leaves one iteration the same kind of margin. Cancellation and
timers are given to one request each, since they act per request. `QueueSize` 2 and three
requests reach the 503.

In part kv one slot is enough: slots meet only in the store and on disk, and whatever
another slot could have left there, an earlier session of this one leaves there as well
(a panic, a failure or a restart makes the slot forget it). Prompts are as long as the lengths
that matter ask for: before, at and after the stub length 3, with a match of 1, 3, and one past the
old prompt. Two anchors, one store entry and one disk entry make every bound bite; answers
have two tokens, one with a cell and one without. In `PrefixDisk` three keys
exceed a cap of two bytes, a file of either fingerprint meets a process of the other, and after the one crash
the next process may find any directory the first can leave; `DiskInv` covers further crashes.

In part text a tag has at most three letters and an answer up to seven tokens: enough for a tag begun in one token and ended
two later, next to one that only looks like it, inside and outside of a thought; stop strings overlap and one needs three
tokens. In part spec seven tokens see a table filled, emptied after five bad rounds, a draft longer than the rollback limit, and
the end of the context at nine. In part host two entries and three bytes make both caps of the store bite, the cap of seven
both tiers together, and four binds are one more than a demand boundary needs. In part plan a prompt of 8 is longer than the
window that is finished at once (`2 * prefill_max` = 4), one of 6 with a boundary at 3 ends its chunks there, three slots
in batches of 4 leave remainders; a prompt of 5 tokens reuses 4 of them, up to a boundary; the yield of 16 iterations is scaled to 2,
and the counts of iterations, which exist for the properties, end at `CountMost` = 2. In part fit six steps are those of the code and
the floors are scaled down. In `sse` four events are a token held, one told, one that fills the channel, and an end.

Fairness. `FairSpec` assumes `WF_vars(RunLoop)`: the worker is one tokio task that
never blocks except on an empty channel with nothing held. Handlers, clients and timers
owe nothing. The worker stops for good when all is answered and the channel is empty, so
these configurations do not check deadlock; `EventuallyAnswered` is what rules out a
premature stop. `SseSpec` assumes that the runtime polls the task and fires its timers (weak fairness of `Send`, `Ping`,
`FlushTimer`), that `select!`, which picks a ready branch at random, does not ignore waiting events for ever (strong
fairness of `OnEvent`), and that a client reads on or goes away. It assumes nothing of the job. A completion
ends, so `sse` does not check deadlock; `TaskEnds` rules out a task that hangs.

## Proofs

All theorems hold for every value of the constants under the assumptions the modules name, which TLC evaluates in the runs:
`SlotsAssumption`, `ReqsAssumption`, `RequestAssumption`, `SizeAssumption`, `BatchAssumption` (Scheduler), `MaxU32Assumption`
(CtxCap), `OrderAssumption` (PrefillQuota), `PlanningAssumption` (Planning), `FitAssumption` (PoolFit), `KeysAssumption`, `SizesAssumption`, `ClockAssumption` (PrefixDisk), `HostAssumption` (HostRam),
`PromptsAssumption`, `ArchsAssumption`, `StubAssumption` (PrefixKv), `VisionAssumption` (VisionKv), `SpecAssumption`, `RequestsAssumption` (SpecDecode),
`TextAssumption` (TextStream) and `SseAssumption`. Where a theorem has a hypothesis of its own it is named below.

Scheduler.

- `SchedulerProofs!TypeCorrect`: `TypeOK` is inductive by itself (`TypeInductive`); the work is in the slot operators, each
  of which has a lemma that it yields slots (`EmittedType`, `VerifiedType`, `RecomputeType`, ...).
- `LineInductive`: `LineInv == TypeOK /\ PassInv /\ TicketInv /\ QueueOrder /\ OneHome`. `QueueOrder` and `OneHome` need each
  other (a request is moved, so it must not be elsewhere already), need `PassInv` (between passes nothing is picked or
  deferred, picked slots are idle and distinct: otherwise a bind could overwrite a running request) and `TicketInv` (the next
  arrival number exceeds all earlier ones). From it follow `QueueOrderCorrect` and `OneHomeCorrect`.
- `SchedulerProofs!SlotInductive`: `SlotInv == LineInv /\ SlotsRun /\ PlanInv`. `SlotsRun` says of a running slot that its
  cells are the positions it counts, that an unfinished prompt is incomplete and a generation one token ahead of its cells,
  and between settle and the GPU step that nothing is left half done; `PlanInv` that a plan is about such slots.
  `OnePendingCorrect` follows: acceptance, rollback and replay each leave exactly one token pending.
- `FailedInductive`: `ToldInv == SlotInv /\ FailedInv`. `FailedInv` says that a request in `failed` was submitted, that the slot that
  failed is on record, and that as long as the request is open this slot is its own and has the finish "Failed". A slot that has failed tells nothing
  more, since only a GPU step and a bind tell anything and neither emits for a finished slot (`FailedSlotsStay`).
  `NothingAfterTheEndCorrect` follows.
- `PromiseKept`: refinement of `RequestSpec`, for the first terminal event of a request; every step is an abstract `Progress`, `GoesAway`,
  `RunsOut` or a stutter, with `LineInv` to know that a request that leaves a slot was running and one answered in the line was
  not, and `FailedInv` to know that one told Failed was running when it was and that its slot's end changes its stage no more.
- `IdleCellsCorrect` has the hypothesis `[][~GpuPanics /\ ~CellsLeft]_vars`: the code rebuilds its slots after a panic and forgets what the
  old ones retained, and `CellsLeft` are the two binds of image requests that leave cells (`VisionOverflows`, `VisionSampleFails`). `DeferredCorrect` says who a deferred request waits behind. `OnlyDeferredWaitCorrect` holds for any
  number of slots: an overtaken request was deferred in this very pass. `ArrivalOrderCorrect` needs two slots at most; with
  three the order is not kept.

Caps and planning.

- `CtxCapProofs`: `JoinRoomAlways`, `DeferEnds`, `TwoSlotsAlwaysFit`, theorems about the cap operators. `PlanningProofs` turns them into
  theorems of the specification of `MCCtxCap`: `CapsFitAlways`, `DeferIsTemporaryAlways`, `CompanyCostsAlways`, the three properties of
  part caps, for every width, pool and usage.
- `ProvidedAlways` and `EveryoneServedCorrect`, for any number of slots, any tokens and any wants. `EveryoneServed` is not inductive:
  `QuotaInv` adds types, that nobody is given more than asked, and `Provided`: either nobody hungry is without a token, or
  nothing was given yet and everything is left, or those without one still have their turn in this round and there is a
  token for each of them. That the first round's share is small enough for everybody (`SharesFit`) is where the division
  comes in.
- `PlanInductive` and `PlanSoundAlways`, for any slots, batches, budgets, prompts and boundaries. The plan is sound because
  `PlanInv` accounts for it: the tokens given so far, counted as pairs of a slot and a number, and those left are the quota
  (`Counted`), and the quota with the rows of the decode pass is within `n_batch`, all of it when nobody decodes (`UnderWay`).
  Seats are part of it: an armed boundary lies ahead of what is prefilled, so a chunk that is cut there is not empty.
- `BothGoOnAlways` adds `PaceInv`: no slot waits longer than the count of run_loop (`WaitInv`), and a pause that goes on has only
  short rests, each of which shrinks by a token an iteration (`PauseInv`). It has two hypotheses. `RoomForAll`: a batch has a token
  for every slot, which the code does not check. `YieldsAsked`: a budget given from outside has `prefill_yield_every > 0`, as
  0 is "never yield (legacy starve)" (policy.rs:96), where the property is false; one slot alone needs no yield.

Join and start-up (`PlanningProofs`).

- `SessionsKeepTheirSlotsAlways`, for any number of slots and any tokens. The picks are a chain (`JoinIsChain`): the k-th is
  `PickSlot` of the k - 1 before. Along it each request's own slot is free and the only one that passes its bar (`OwnIsPicked`): it
  shares all but one token with its checkpoint, which is the bar, and the others share nothing.
- `FitSoundAlways`, for any floors and steps. The ladder leads down because a step halves the micro-batch until its floor and then the
  context, never neither (`BelowIs`, `LadderLeadsDown`); what is reported is what was loaded because `Model::load` then has no
  default to fill in and no size to cut (`LoadsWhatIsAsked`). Hypothesis `ModestLines`, ubatch ≤ batch ≤ ctx and without `--kv-pool-fit` a ctx above 0: the code does not
  ask for it, and what happens otherwise is said above (start-up).

What cells hold.

- `SpecDecodeProofs`: `Drafting == SpecInv /\ ngram \in Ngrams` is inductive (`DraftingInductive`). Its parts follow the round: `Before`
  (the rows fed so far are those of the text), `During` (the i-th row of a verify batch is the row after the text and the first i - 1
  drafts, so a sample at the last accepted draft is one of the text), `After` (what a finished request remembers has
  cells), `GoesOn` (only the drafts a restored snapshot leaves are verified again). `RowsAreTrueAlways`, `VerifiedTwiceAlways`,
  `StateFollowsAlways` follow, for any vocabulary, requests, drafter, draft and rollback lengths. Hypothesis: `ArgmaxInVocab`, the target
  prefers a token of its vocabulary. `SpecAssumption` is how main.rs and generate.rs use the drafter, `RequestsAssumption` that a
  prompt is not empty and an answer has more than its first token. That a draft is never longer than what a snapshot restores
  makes one branch of the replay dead: the proof shows that it is not taken.
- `PrefixKvProofs`: `Sized` is inductive without a hypothesis: cells, anchors and snapshots are as long as what they are filed under,
  and a running job's position is its number of cells. `LogitsLeftAlways` follows. `Honest` adds contents: a running
  job's cells and its slot's anchors are those of its text (`Own`), an idle slot remembers what it retains and its anchors
  agree with that (`Left`), a snapshot holds its key. Trim, anchor, RAM, disk and cold start are five cases of one lemma
  (`SettleIs`): all yield the first k tokens of something that agrees with the prompt at least that far. `CellsAreTrueAlways` and
  `SnapshotsHonestAlways` have the hypothesis `[][~KeepsForeignAnchor]_vars`: no bind keeps an anchor that holds other tokens than its
  prompt. The code does that, as run `kv_stale` shows; the theorems say that this one anchor is the only way to a wrong cell.
  The sessions of part kv satisfy the hypothesis in every behaviour.
- `ImagesAreKeptAlways` (`PrefixKvProofs`), for any prompts of text and images and every failure of an evaluation. `VisionInv` says of a
  running job (`JobInv`), an evaluation under way (`EvalInv`) and an idle slot (`ImagesAreRemembered`) whose cells there are, and
  that the cells have an end (`HasEnd`), behind which an accepted evaluation begins. The loops of prefix_cache.rs go over a sequence in
  steps of a token or an image; an `Edge` is a place no image is cut at. Two sequences that are `Alike` up to an edge of both have the
  same cells and positions there, `common_prefix` ends at such an edge, and `truncate_to_pos` undoes `pos_next` (`AgreePos`,
  `CommonAgrees`, `TruncatedIs`). Each loop is a recursive function whose value at a place depends on one further on; `JumpExists` gives it. `VisionAssumption` says
  what prefix_cache.rs:64 makes of an id, a hash of the image's bytes: the same id and the same number of cells take the same
  number of positions. And that a prompt is not empty.
- `PrefixDiskProofs`: `DiskInv` is inductive for any keys, sizes, caps and any number of crashes. Its parts: the file a put works
  on is named for its entry (`NamedByPairs`), a file under its final name is complete (`NoTornFile`), once the rename is done the
  entry about to be indexed is on disk (`Landed`), and each index entry has its file (`Backed`). From it `IndexBackedCorrect` and
  `NoTornFileCorrect`. `NoOrphanFileCorrect` adds `Indexed`: outside of a put or an eviction a file of the running fingerprint is in
  the index unless its removal failed (`stuck`). `UsedExactCorrect` counts bytes as pairs of a key
  and a number, so a sum is the size of a union (`BytesSplit`). `EvictsOldestCorrect` needs that ticks and the order of use are the same order (`Aged`); a
  restart takes its ticks from the clock, so the theorem, like the property, ends there (run `disk_restart`).

Host memory.

- `HostRamSoundAlways` (`PrefixDiskProofs`), for any number of slots, any prompts, sizes of dumps, caps and strides. Each loop is the chain of what its turns
  leave, and a measure counts it down: a turn of `Evicted` or `TrimChain` stops or takes one dump out, so after as many turns as there were
  dumps it is within its limits, or what is left is spared (`EvictedIs`, `TrimIs`); `TrimChains` says so of every slot, since
  `TrimOrder` names each (`TrimOrderIs`). `Stores` is the accounting: `total` is the sum, `lru` an order of the keys without a repeat.
  `PutWith`, a removal, a touch and `Refreshed` keep it. `EnforcedIs` puts the two stages together: evicting to what the chains leave makes
  both fit, and trimming can only help; where the store has no more to give, every chain gives all it may. Between two calls of
  `enforce_host_ram_cap` the sum does not grow, so `HostRamHeld` holds in every state.
- `DemandIsRepeatedAlways`. The table of boundaries and the armed stops are read as claims about the prompts that were bound (`CountsInv`,
  `StopsInv`): a boundary counted c times heads c + 1 of them (up to 3). The first is the hard case (`BindsTwo`): the prompt that was
  recorded and the one that leaves it there are two binds, be it of the same prompt. A capture is marked only at the stop itself,
  because an armed stop lies ahead of what is prefilled (`HostSessions`) and no chunk runs past it. What the full table or the ring forgets only makes counts
  too low.
- `HostAssumption`: a prompt is not empty and a dump is not (`seq_state_get` returns none that is), the caps of the store and of host memory
  are not 0, which would mean no cap (scheduler.rs:265, 2218), and a stride is a length a stub may have (`is_host_stub_boundary`).

Text.

- `TextIsWholeAlways` and `StopIsTheEndAlways` (`SpecDecodeProofs`), for any tokens, stop strings, limits and rows in a decode. The
  text sent and the bytes that wait, read as they are, would be the text of all bytes; but that is not inductive, since reading
  ends a character that may go on. `SentInv` says it of every continuation: whatever bytes y come next,
  `Lossy(heard \o y) = sent \o Lossy(utf8 \o y)`. `TakeValidIs` is that fact about one call of `Utf8Buf`, whose loop over broken bytes is a
  function given by `JumpExists`; it rests on `LossyCat`: bytes may be read apart wherever no character is cut. For the stop strings, what
  is searched is all that was sent (`acc = sent`), and a piece that is not cut completes none (`CutIs`). `TextAssumption` says that a
  token is a text and that the closing tag and the name to force are not empty, as they are literals (scheduler.rs).

The client.

- `SseProofs`: `LineCorrect` is the invariant of the line from the scheduler to the client: what was received, is in the channel, is
  about to be sent, is pending and is held by the parsers are in this order, disjoint, and together with what the parsers swallowed all tokens
  taken (`InOrder`, `IdsInv`, `HeldInv`, `Cover`); after an end nothing is sent (`EndInv`). It says nothing of a client that left, whose channel the code
  drops; `GotInv` keeps for that client what it had. `ChunkOrderCorrect` and `TextInOrderCorrect` follow.

Only model-checked: `PoolFits`, `ToldIsWhole` and `ForcingEnds` of `TextStream`; and `EventuallyAnswered`,
`LeaverIsNoticed` and `TaskEnds`, since liveness under fairness is out of the prover's reach.
`PoolFits` fails without the reserve that speculation makes (`sched_pool_spec_off`) and depends on the watermark's margin for one instance,
so it has no general form yet. What a recursively defined operator computes for all inputs is out of reach as well (the provers
cannot instantiate the library's induction theorems, and modules that declare one cannot be proved about), which is most of what
the parsers of `TextStream` are about. Where an induction over numbers was needed it is through a least
counterexample (`LeastNat`); what a fold over a sequence or a set yields is proved through the chain of its values (`FoldExists`,
`FoldKeeps`).

## Plan

What is left, in this order:

1. Proofs: `ToldIsWhole`, whose parsers have to become chains first; a general form of `PoolFits`.
2. Composition: `Sse` with `RequestSpec` in place of its own job; `Planning` as the refinement of `Scheduler`'s `PrefillPlans`.
3. `PrefixKv` with two slots and `HostRam`'s order of eviction.
4. The end by the context cap in `TextStream`; several sequences in one MTP batch in `SpecDecode`.

## Not modelled

Numeric sampling and the grammar of samplers (external: a sample is any token), template rendering and message
normalisation, image decoding, FFI bindings and their build, the JSON of requests and responses, the
command line but for the pool, metrics text, the web UI, scripts and deployment: they keep no state another part depends
on, or are pure formatting. Arguments of tool calls are left out of `TextStream`. What `PrefixDisk`'s fingerprint hashes,
hash collisions, `is_volatile_fs` and a power loss that undoes what the process wrote are left out.
