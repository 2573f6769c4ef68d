------------------------------- MODULE HostRam -------------------------------
(***************************************************************************)
(* Host memory of the prefix cache: the shared store with its two caps and *)
(* its order of eviction (PrefixStore in prefix_cache.rs), the anchor      *)
(* chain of each slot, the cap over both together, and the demand          *)
(* boundaries, snapshots taken where prompts were seen to diverge          *)
(* (bind_slot, apply_plan and enforce_host_ram_cap in scheduler.rs).       *)
(*                                                                         *)
(* Data kept: keys as tokens, dumps as their bytes; the ticks of the store *)
(* as the order of last use.  What the cells hold is PrefixKv's subject.   *)
(***************************************************************************)
EXTENDS Integers, Sequences, FiniteSets, SequencesExt

CONSTANTS
  HostSlots,      \* 0 .. n-1
  HostPrompts,    \* prompts that arrive
  DumpBytes,      \* sizes a dump of n tokens may have, by n
  Strides,        \* is_host_stub_boundary
  LastStride,     \* is_last_host_stub
  StubWindow,     \* is_store_stub_len
  StoreEntries, StoreBytes,   \* max_entries, max_bytes
  ChainAnchors, ChainBytes,   \* CHAIN_MAX_ANCHORS, CHAIN_MAX_BYTES
  HostCap,        \* HOST_RAM_CAP
  ObservedMax, DemandMax, DemandMin,
  MaxBinds        \* bound on the binds of a run

ASSUME HostAssumption ==
  /\ IsFiniteSet(HostSlots) /\ HostSlots = 0 .. Cardinality(HostSlots) - 1
  /\ HostPrompts \subseteq Seq(Nat) \ {<<>>} /\ IsFiniteSet(HostPrompts)
  /\ LastStride \in Strides /\ Strides \subseteq StubWindow /\ StubWindow \subseteq Nat
  /\ \A p \in HostPrompts : \A n \in 1 .. Len(p) : DumpBytes[n] \subseteq Nat \ {0}
  /\ {StoreEntries, StoreBytes, HostCap} \subseteq Nat \ {0}   \* 0 would be no cap
  /\ {ChainAnchors, ChainBytes} \subseteq Nat

VARIABLES
  entries,    \* the store: key to [bytes, demand, refs]
  lru,        \* its keys, the least recently used first
  total,      \* total_bytes
  observed,   \* prompts bound lately, the newest last
  counts,     \* demand: how often each boundary was observed
  session,    \* per slot [prompt, pos, stop, active]
  hostChain,      \* per slot prefix_ckpts: length to bytes
  retained,   \* slots with retained_at set, the oldest first
  bound       \* binds of each prompt (for properties)

storeVars == <<entries, lru, total>>
hostVars  == <<storeVars, observed, counts, session, hostChain, retained, bound>>

NoKeys == [k \in {} |-> 0]
NoSession == [prompt |-> <<>>, pos |-> 0, stop |-> 0, active |-> FALSE]
Plus(f, k, v) == [x \in DOMAIN f \cup {k} |-> IF x = k THEN v ELSE f[x]]
Minus(f, S) == [x \in DOMAIN f \ S |-> f[x]]
Prefer(S, P) == IF S \cap P # {} THEN S \cap P ELSE S
Lesser(a, b) == IF a < b THEN a ELSE b
SumOf(f) == Cardinality(UNION {{x} \X (1 .. f[x]) : x \in DOMAIN f})

\* The members of q that are in S, in their order.
Only(q, S) ==
  LET Go[i \in 0 .. Len(q)] ==
        IF i = 0 THEN <<>> ELSE IF q[i] \in S THEN Append(Go[i - 1], q[i]) ELSE Go[i - 1]
  IN  Go[Len(q)]

Removed(q, x) == Only(q, ToSet(q) \ {x})

-----------------------------------------------------------------------------
(* PrefixStore.                                                             *)

Store == [entries |-> entries, lru |-> lru, total |-> total]

MovedToEnd(order, key) == Append(Removed(order, key), key)

RemoveEntry(st, key) ==
  [entries |-> Minus(st.entries, {key}), lru |-> Removed(st.lru, key),
   total |-> st.total - st.entries[key].bytes]

\* evict_score: unreferenced first, then not taken on demand, then the longest,
\* then the least recently used.
Victim(st, keys) ==
  LET unreferenced == Prefer(keys, {k \in keys : st.entries[k].refs = 0})
      plain == Prefer(unreferenced, {k \in keys : ~st.entries[k].demand})
      longest == {k \in plain : \A l \in plain : Len(l) <= Len(k)}
  IN  st.lru[Min({i \in DOMAIN st.lru : st.lru[i] \in longest})]

\* Dumps are removed, but for those of a length to spare, until the others are
\* few and small enough or none is left to remove.
Evicted(st, most, bytes, spare) ==
  LET Go[i \in 0 .. Cardinality(DOMAIN st.entries)] ==
        IF i = 0 THEN st
        ELSE LET now == Go[i - 1]
                 keys == {k \in DOMAIN now.entries : Len(k) \notin spare}
             IN  IF (now.total <= bytes /\ Cardinality(DOMAIN now.entries) <= most) \/ keys = {}
                 THEN now ELSE RemoveEntry(now, Victim(now, keys))
  IN  Go[Cardinality(DOMAIN st.entries)]

EvictIfOverCap(st) == Evicted(st, StoreEntries, StoreBytes, {})

\* put_with: a capture on demand marks an entry, a plain one keeps its mark.
PutWith(st, key, bytes, demand) ==
  LET old == key \in DOMAIN st.entries
      freed == IF old THEN st.entries[key].bytes ELSE 0
  IN  EvictIfOverCap(
        [entries |-> Plus(st.entries, key,
                       [bytes |-> bytes,
                        demand |-> demand \/ (old /\ st.entries[key].demand),
                        refs |-> IF old THEN st.entries[key].refs ELSE 0]),
         lru |-> MovedToEnd(st.lru, key), total |-> st.total - freed + bytes])

\* record_prompt: a bounded ring, without repeats of the newest.
Recorded(p) ==
  LET ring == IF observed # <<>> /\ Last(observed) = p THEN observed ELSE Append(observed, p)
  IN  IF Len(ring) > ObservedMax THEN Tail(ring) ELSE ring

CommonLen(a, b) ==
  Cardinality({n \in 1 .. Lesser(Len(a), Len(b)) : SubSeq(a, 1, n) = SubSeq(b, 1, n)})

\* The longest prefix the prompt shares with an observed one, 0 when it is
\* short, all of the prompt, or reused anyway.
Boundary(p, reuse) ==
  LET best == Max({0} \cup {CommonLen(observed[i], p) : i \in DOMAIN observed})
  IN  IF best < DemandMin \/ best >= Len(p) \/ best <= reuse THEN 0 ELSE best

Count(key) == (IF key \in DOMAIN counts THEN counts[key] ELSE 0) + 1

\* The table of boundaries drops any one when it is full.
Counted(key) ==
  LET table == Plus(counts, key, Lesser(Count(key), 3))
  IN  IF Cardinality(DOMAIN table) <= DemandMax THEN {table}
      ELSE {Minus(table, {k}) : k \in DOMAIN table}

\* Mutant: the first observation arms the stop.
ArmedAtOnce(key) == key \notin DOMAIN entries

\* observe_boundary: the second observation arms it, unless it is resident.
Armed(key) == Count(key) >= 2 /\ key \notin DOMAIN entries

\* find_ram, for its touch: the longest entry that heads the prompt.
HeadsOf(p, limit) == {k \in DOMAIN entries : IsPrefix(k, p) /\ Len(k) <= limit + 1}
Found(p, limit) ==
  IF HeadsOf(p, limit) = {} THEN lru
  ELSE MovedToEnd(lru, CHOOSE k \in HeadsOf(p, limit) :
                         \A l \in HeadsOf(p, limit) : Len(l) <= Len(k))

-----------------------------------------------------------------------------
(* Anchor chains and the cap over all host memory.                          *)

\* trim_prefix_chain: the shortest anchors go, but for the newest and those in
\* the stub window.
Droppable(anchors) == {n \in DOMAIN anchors : n # Max(DOMAIN anchors) /\ n \notin StubWindow}

TrimChain(anchors, maxN, maxBytes) ==
  LET Go[i \in 0 .. Cardinality(DOMAIN anchors)] ==
        IF i = 0 THEN anchors
        ELSE LET now == Go[i - 1]
             IN  IF \/ Cardinality(DOMAIN now) <= maxN /\ SumOf(now) <= maxBytes
                    \/ Droppable(now) = {}
                 THEN now ELSE Minus(now, {Min(Droppable(now))})
  IN  Go[Cardinality(DOMAIN anchors)]

ChainsTotal(chains) == SumOf([s \in HostSlots |-> SumOf(chains[s])])

LivePrompts(sessions) == {s \in HostSlots : sessions[s].prompt # <<>>}

\* refresh_entry_refs.
Refreshed(st, sessions) ==
  [st EXCEPT !.entries =
     [k \in DOMAIN @ |-> [@[k] EXCEPT !.refs =
        Cardinality({s \in LivePrompts(sessions) : IsPrefix(k, sessions[s].prompt)})]]]

\* evict_global_over_cap: stubs stay.
EvictGlobal(st, chainBytes) ==
  Evicted(st, Cardinality(DOMAIN st.entries), HostCap - chainBytes, StubWindow)

\* trim_chains_session_order: idle slots first, the longest retained before
\* those that are not retained any more, which count as new.
TrimOrder(sessions, idle) ==
  LET all == [i \in 1 .. Cardinality(HostSlots) |-> i - 1]
      Rest(active) == Only(all, {s \in HostSlots \ ToSet(idle) : sessions[s].active = active})
  IN  idle \o Rest(FALSE) \o Rest(TRUE)

TrimChains(chains, order, storeBytes) ==
  LET Go[i \in 0 .. Len(order)] ==
        IF i = 0 THEN chains
        ELSE LET now == Go[i - 1]
             IN  IF ChainsTotal(now) + storeBytes <= HostCap THEN now
                 ELSE [now EXCEPT ![order[i]] = TrimChain(@, ChainAnchors, 0)]
  IN  Go[Len(order)]

\* Mutant: the chains are left alone when the store had something to drop.
EnforcedOnce(st, chains, sessions, idle) ==
  LET store == EvictGlobal(Refreshed(st, sessions), ChainsTotal(chains))
  IN  IF st.total + ChainsTotal(chains) <= HostCap \/ store.total < st.total
      THEN [store |-> store, chain |-> chains]
      ELSE [store |-> store, chain |-> TrimChains(chains, TrimOrder(sessions, idle), store.total)]

\* enforce_host_ram_cap: the store gives way first, then the chains, until
\* the sum fits or only protected dumps are left.  A further turn of its loop
\* finds nothing more to drop: each stage ends where it fits or has no more.
Enforced(st, chains, sessions, idle) ==
  LET store == EvictGlobal(Refreshed(st, sessions), ChainsTotal(chains))
  IN  IF st.total + ChainsTotal(chains) <= HostCap THEN [store |-> st, chain |-> chains]
      ELSE [store |-> store,
            chain |-> TrimChains(chains, TrimOrder(sessions, idle), store.total)]

\* The state after a step that ends in enforce_host_ram_cap.
Settle(st, chains, sessions, idle) ==
  LET after == Enforced(st, chains, sessions, idle)
  IN  /\ entries' = after.store.entries /\ lru' = after.store.lru
      /\ total' = after.store.total /\ hostChain' = after.chain
      /\ session' = sessions /\ retained' = idle

-----------------------------------------------------------------------------
(* Steps of the worker.                                                     *)

\* bind_slot: what is reused is nothing, a prefix of what the slot held, or a
\* dump of the store; anchors past it go.
HostBind(s, p) ==
  /\ ~session[s].active /\ SumOf(bound) < MaxBinds
  /\ \E reuse \in {0, Lesser(CommonLen(session[s].prompt, p), Len(p) - 1)}
                    \cup {Len(k) : k \in HeadsOf(p, Len(p) - 2)}, asked \in BOOLEAN :
       LET b == IF reuse + 1 < Len(p) THEN Boundary(p, reuse) ELSE 0
           key == SubSeq(p, 1, b)
           armed == b > 0 /\ Armed(key)
           order == IF asked THEN Found(p, IF reuse = 0 THEN Len(p) - 1 ELSE reuse) ELSE lru
           anchors == Minus(hostChain[s],
                            {n \in DOMAIN hostChain[s] : n > reuse + 1 \/ reuse = 0})
       IN  /\ counts' \in IF b = 0 THEN {counts} ELSE Counted(key)
           /\ Settle([Store EXCEPT !.lru = order], [hostChain EXCEPT ![s] = anchors],
                     [session EXCEPT ![s] = [prompt |-> p, pos |-> reuse, active |-> TRUE,
                                             stop |-> IF armed THEN b ELSE 0]],
                     Removed(retained, s))
  /\ observed' = Recorded(p)
  /\ bound' = [bound EXCEPT ![p] = @ + 1]

\* push_prefix_ckpt.
PushAnchor(anchors, n, bytes) == TrimChain(Plus(anchors, n, bytes), ChainAnchors, ChainBytes)

\* apply_plan after the prefill chunks up to the next place that is captured, or
\* past it; no chunk runs past an armed stop.
HostPrefill(s) ==
  LET e == session[s]
      end == IF e.stop > e.pos THEN e.stop ELSE Len(e.prompt)
  IN  /\ e.active /\ e.pos < Len(e.prompt)
      /\ \E n \in (Strides \cup {end}) \cap (e.pos + 1 .. end) :
         \E bytes \in DumpBytes[n] :
           LET demand == e.stop > 0 /\ n >= e.stop
               done == n = Len(e.prompt)
               promote == n \in Strides \/ demand
               anchor == done \/ (n = LastStride /\ ~demand)
               others == IF anchor /\ promote /\ n \in StubWindow
                         THEN Minus(hostChain[s], StubWindow \ {n}) ELSE hostChain[s]
           IN  Settle(IF promote THEN PutWith(Store, SubSeq(e.prompt, 1, n), bytes, demand)
                                 ELSE Store,
                      IF anchor THEN [hostChain EXCEPT ![s] = PushAnchor(others, n, bytes)]
                                ELSE hostChain,
                      [session EXCEPT ![s] = [prompt |-> e.prompt, pos |-> n, active |-> TRUE,
                                              stop |-> IF demand THEN 0 ELSE e.stop]],
                      retained)
      /\ UNCHANGED <<observed, counts, bound>>

\* finish_slot: the prefix is kept, at whatever length it has, or forgotten.
HostFinish(s) ==
  /\ session[s].active
  /\ \/ /\ session' = [session EXCEPT ![s] = [prompt |-> SubSeq(@.prompt, 1, @.pos), pos |-> @.pos,
                                              stop |-> 0, active |-> FALSE]]
        /\ retained' = Append(retained, s) /\ UNCHANGED hostChain
     \/ /\ session' = [session EXCEPT ![s] = NoSession]
        /\ hostChain' = [hostChain EXCEPT ![s] = NoKeys] /\ UNCHANGED retained
  /\ UNCHANGED <<storeVars, observed, counts, bound>>

\* release_retained_under_pressure: the cells go, the anchors stay.
HostRelease ==
  /\ retained # <<>>
  /\ Settle(Store, hostChain, session, <<>>)
  /\ UNCHANGED <<observed, counts, bound>>

\* The decode worker panicked: the slots are new, the store is not.
Panics ==
  /\ \E s \in HostSlots : session[s].active
  /\ session' = [s \in HostSlots |-> NoSession] /\ hostChain' = [s \in HostSlots |-> NoKeys]
  /\ retained' = <<>>
  /\ UNCHANGED <<storeVars, observed, counts, bound>>

HostInit ==
  /\ entries = NoKeys /\ lru = <<>> /\ total = 0 /\ observed = <<>> /\ counts = NoKeys
  /\ session = [s \in HostSlots |-> NoSession] /\ hostChain = [s \in HostSlots |-> NoKeys]
  /\ retained = <<>> /\ bound = [p \in HostPrompts |-> 0]

HostNext == \/ \E s \in HostSlots : HostPrefill(s) \/ HostFinish(s) \/ \E p \in HostPrompts : HostBind(s, p)
            \/ HostRelease \/ Panics

-----------------------------------------------------------------------------
(* Properties.                                                              *)

\* The bytes the caps are compared with are the bytes that are there, through
\* replacement, both evictions and the caps of the store itself; the order of
\* use names each entry once (PrefixStore::put_with, remove_entry, touch).
StoreAccounted ==
  /\ total = SumOf([k \in DOMAIN entries |-> entries[k].bytes])
  /\ Cardinality(DOMAIN entries) <= StoreEntries /\ total <= StoreBytes
  /\ ToSet(lru) = DOMAIN entries /\ Len(lru) = Cardinality(DOMAIN entries)

\* Host memory stays under its cap unless only protected dumps are left: stubs
\* in the store, and in each chain its newest anchor and its stubs
\* (enforce_host_ram_cap).
HostRamHeld ==
  total + ChainsTotal(hostChain) > HostCap =>
    /\ \A k \in DOMAIN entries : Len(k) \in StubWindow
    /\ \A s \in HostSlots : \A n \in DOMAIN hostChain[s] :
         n \in StubWindow \/ n = Max(DOMAIN hostChain[s])

\* A one-off prefix is never captured on demand: what is marked so heads at
\* least three of the prompts that were bound, the one that was recorded
\* first and the two that diverged from a recorded one there
\* (observe_boundary).
DemandIsRepeated ==
  \A k \in DOMAIN entries :
    entries[k].demand =>
      SumOf([p \in {q \in HostPrompts : IsPrefix(k, q)} |-> bound[p]]) >= 3

\* Host memory is what it is counted as, and is bounded (PrefixStore,
\* enforce_host_ram_cap).
HostRamSound == StoreAccounted /\ HostRamHeld
=============================================================================
