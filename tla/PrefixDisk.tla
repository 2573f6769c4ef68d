------------------------------ MODULE PrefixDisk ------------------------------
(***************************************************************************)
(* The disk tier of the prefix cache (PrefixDisk in                        *)
(* golbang-core/src/prefix_cache.rs): one file per token prefix in a       *)
(* directory that outlives the process, an index of the files' headers in  *)
(* RAM, and LRU eviction under a byte cap.  The process may die anywhere,  *)
(* also halfway through a put, and come back with other settings.          *)
(*                                                                         *)
(* Data kept: the key, the length and the modification time of each file   *)
(* and whether its payload is complete.  Keys never collide in their hash, *)
(* which names the file.  The .tmp files are written and renamed but never *)
(* read, so they are the stage "tmp" and nothing more.                     *)
(***************************************************************************)
EXTENDS Integers, Sequences, FiniteSets, Functions, SequencesExt

CONSTANTS
  Fps,        \* fingerprints of engine, weights and settings
  Keys,       \* token prefixes that are stored
  Prompts,    \* prompts that are looked up, cut to their search length
  Sizes,      \* payload sizes
  Caps,       \* --prefix-cache-disk-gib; 0: unlimited
  Epoch,      \* the first second the clock shows
  MaxClock, MaxTick, MaxCrashes,  \* bounds
  Faults      \* file operations that may fail: "write", "remove"

ASSUME KeysAssumption == IsFiniteSet(Keys) /\ Keys \subseteq Seq(Nat) \ {<<>>}
ASSUME SizesAssumption == Sizes \subseteq Nat \ {0} /\ Caps \subseteq Nat
ASSUME ClockAssumption == Epoch \in Nat /\ MaxClock \in Nat /\ Epoch <= MaxClock

VARIABLES
  files,   \* <<fingerprint, key>> of each .ckpt file, to what is in it
  clock,   \* wall clock, in seconds
  fp,      \* fp_hash of the running process
  cap,     \* max_bytes
  index,   \* key to DiskMeta, in RAM
  used,    \* used_bytes
  tick,
  stage,   \* where put or open is: "down", "idle", "tmp", "renamed", "evict"
  job,     \* what put is storing
  recent,  \* <<m, n>>: the first process last put or found m before n
           \* (for properties)
  stuck,   \* files whose removal failed (for properties)
  crashes

vars == <<files, clock, fp, cap, index, used, tick, stage, job, recent, stuck, crashes>>

Name(k) == <<fp, k>>
NoJob == [key |-> <<>>, bytes |-> 0, mtime |-> 0]
NoFun == [x \in {} |-> 0]
Larger(a, b) == IF a < b THEN b ELSE a
SatSub(a, b) == IF a < b THEN 0 ELSE a - b
With(f, x, v) == [y \in DOMAIN f \cup {x} |-> IF y = x THEN v ELSE f[y]]
Without(f, x) == Restrict(f, DOMAIN f \ {x})
\* The sum of the bytes of all entries: one element for each byte of each.
Bytes(f) == Cardinality(UNION {{x} \X (1 .. f[x].bytes) : x \in DOMAIN f})
Freshest(n) ==
  IF crashes = 0
  THEN {p \in recent : p[1] # n /\ p[2] # n} \cup {<<m, n>> : m \in (Fps \X Keys) \ {n}}
  ELSE recent

-----------------------------------------------------------------------------
(* put: write <hash>.tmp, rename it to <hash>.ckpt, index it, evict.        *)

\* Mutant: the final file is written directly.
PutWriteInPlace(k, b) ==
  /\ stage = "idle" /\ tick < MaxTick /\ k # <<>> /\ b # 0
  /\ files' = With(files, Name(k), [bytes |-> b, mtime |-> clock, whole |-> FALSE])
  /\ job' = [key |-> k, bytes |-> b, mtime |-> clock]
  /\ stage' = "tmp"
  /\ UNCHANGED <<clock, fp, cap, index, used, tick, recent, stuck, crashes>>

\* The temporary file is being written; nothing else has changed yet.
PutWrite(k, b) ==
  /\ stage = "idle" /\ tick < MaxTick /\ k # <<>> /\ b # 0
  /\ job' = [key |-> k, bytes |-> b, mtime |-> clock]
  /\ stage' = "tmp"
  /\ UNCHANGED <<files, clock, fp, cap, index, used, tick, recent, stuck, crashes>>

\* fs::write or fs::rename returns an error and put gives up: the old file,
\* if there was one, and its index entry stay.
WriteFails ==
  /\ "write" \in Faults /\ stage = "tmp"
  /\ stage' = "idle" /\ job' = NoJob
  /\ UNCHANGED <<files, clock, fp, cap, index, used, tick, recent, stuck, crashes>>

PutRename ==
  /\ stage = "tmp"
  /\ files' = With(files, Name(job.key),
                   [bytes |-> job.bytes, mtime |-> job.mtime, whole |-> TRUE])
  /\ recent' = Freshest(Name(job.key))
  /\ stuck' = stuck \ {Name(job.key)}
  /\ stage' = "renamed"
  /\ UNCHANGED <<clock, fp, cap, index, used, tick, job, crashes>>

\* Mutant: an overwritten entry is counted twice.
OldBytesIgnored(k) == 0

\* What the entry under k counts for in used_bytes so far.
OldBytes(k) == IF k \in DOMAIN index THEN index[k].bytes ELSE 0

PutIndex ==
  /\ stage = "renamed"
  /\ tick' = tick + 1
  /\ index' = With(index, job.key, [bytes |-> job.bytes, tick |-> tick'])
  /\ used' = SatSub(used, OldBytes(job.key)) + job.bytes
  /\ stage' = "evict"
  /\ UNCHANGED <<files, clock, fp, cap, job, recent, stuck, crashes>>

-----------------------------------------------------------------------------
(* evict_over_cap, one victim at a time.                                    *)

OverCap == cap > 0 /\ used > cap /\ index # NoFun

\* min_by_key takes any of those with the least tick.
Victims == {k \in DOMAIN index : \A j \in DOMAIN index : index[k].tick <= index[j].tick}

\* Mutant: the file of an evicted entry is never removed.
EvictOneKeepsFile(k) ==
  /\ stage = "evict" /\ OverCap /\ k \in Victims
  /\ index' = Without(index, k)
  /\ used' = SatSub(used, index[k].bytes)
  /\ UNCHANGED <<files, clock, fp, cap, tick, stage, job, recent, stuck, crashes>>

\* A failed remove_file is ignored: the file stays, unindexed.
EvictOne(k) ==
  /\ stage = "evict" /\ OverCap /\ k \in Victims
  /\ index' = Without(index, k)
  /\ used' = SatSub(used, index[k].bytes)
  /\ \/ files' = Without(files, Name(k)) /\ UNCHANGED stuck
     \/ "remove" \in Faults /\ UNCHANGED files /\ stuck' = stuck \cup {Name(k)}
  /\ UNCHANGED <<clock, fp, cap, tick, stage, job, recent, crashes>>

EvictDone ==
  /\ stage = "evict" /\ ~OverCap
  /\ stage' = "idle" /\ job' = NoJob
  /\ UNCHANGED <<files, clock, fp, cap, index, used, tick, recent, stuck, crashes>>

-----------------------------------------------------------------------------
(* find: the longest entry that is a prefix of the prompt, if its file      *)
(* reads back at the length the index remembers.                            *)

Usable(p) == {k \in DOMAIN index : IsPrefix(k, p)}
Best(p) == CHOOSE k \in Usable(p) : \A j \in Usable(p) : Len(j) <= Len(k)
Readable(k) ==
  /\ Name(k) \in DOMAIN files
  /\ files[Name(k)].whole
  /\ files[Name(k)].bytes = index[k].bytes
Hit(p) == Usable(p) # {} /\ Readable(Best(p))

\* Mutant: a hit does not refresh its entry.
TouchedNot(k) == index
Touched(k) == [index EXCEPT ![k].tick = tick + 1]

Find(p) ==
  /\ stage = "idle" /\ tick < MaxTick
  /\ Hit(p)
  /\ tick' = tick + 1
  /\ index' = Touched(Best(p))
  /\ recent' = Freshest(Name(Best(p)))
  /\ UNCHANGED <<files, clock, fp, cap, used, stage, job, stuck, crashes>>

\* Nothing fits, or the file no longer reads back: the caller prefills.
Miss(p) ==
  /\ stage = "idle"
  /\ ~Hit(p)
  /\ UNCHANGED vars

-----------------------------------------------------------------------------
(* The process: it dies anywhere; open scans the directory.                 *)

Crash ==
  /\ stage # "down" /\ crashes < MaxCrashes
  /\ crashes' = crashes + 1
  /\ stage' = "down" /\ job' = NoJob
  /\ index' = NoFun /\ used' = 0 /\ tick' = 0
  /\ recent' = {}
  /\ UNCHANGED <<files, clock, fp, cap, stuck>>

\* Mutant: the fingerprint in the header is not compared.
ScannedAny(f) == DOMAIN files

\* Files whose header scan accepts: extension .ckpt and the process's own
\* fingerprint.  Only headers are read.
Scanned(f) == {n \in DOMAIN files : n[1] = f}

\* Directory order is arbitrary, so pos numbers the files in any order; the
\* counter goes up by one per file whatever tick the file gets.
Open(f, c) ==
  /\ stage = "down"
  /\ fp' = f /\ cap' = c
  /\ LET own == Scanned(f)
         FileOf(k) == CHOOSE n \in own : n[2] = k
     IN /\ \E pos \in Bijection(own, 1..Cardinality(own)) :
             index' = [k \in {n[2] : n \in own} |->
                         [bytes |-> files[FileOf(k)].bytes,
                          tick |-> Larger(files[FileOf(k)].mtime, pos[FileOf(k)])]]
        /\ tick' = Cardinality(own)
        /\ used' = Bytes(index')
  /\ stage' = "evict"
  /\ stuck' = stuck \ Scanned(f)
  /\ UNCHANGED <<files, clock, job, recent, crashes>>

Second ==
  /\ clock < MaxClock
  /\ clock' = clock + 1
  /\ UNCHANGED <<files, fp, cap, index, used, tick, stage, job, recent, stuck, crashes>>

Init ==
  /\ files = NoFun /\ clock = Epoch
  /\ fp \in Fps /\ cap \in Caps
  /\ index = NoFun /\ used = 0 /\ tick = 0
  /\ stage = "down" /\ job = NoJob /\ recent = {}
  /\ stuck = {} /\ crashes = 0

Put == \E k \in Keys \cup {<<>>}, b \in Sizes \cup {0} : PutWrite(k, b)
Evict == \E k \in Keys : EvictOne(k)
Lookup == \E p \in Prompts : Find(p) \/ Miss(p)
Start == \E f \in Fps, c \in Caps : Open(f, c)

Next ==
  \/ Put \/ WriteFails \/ PutRename \/ PutIndex
  \/ Evict \/ EvictDone \/ Lookup
  \/ Crash \/ Start \/ Second

Spec == Init /\ [][Next]_vars

-----------------------------------------------------------------------------
Meta == [bytes : Sizes, tick : Nat]
Content == [bytes : Sizes, mtime : Nat, whole : BOOLEAN]
IsFunOn(f, S, T) ==
  DOMAIN f \subseteq S /\ f = [x \in DOMAIN f |-> f[x]] /\ \A x \in DOMAIN f : f[x] \in T

\* Every variable has its type.
TypeOK ==
  /\ IsFunOn(files, Fps \X Keys, Content)
  /\ clock \in Nat /\ fp \in Fps /\ cap \in Caps
  /\ IsFunOn(index, Keys, Meta)
  /\ used \in Nat /\ tick \in Nat /\ crashes \in Nat
  /\ stage \in {"down", "idle", "tmp", "renamed", "evict"}
  /\ job \in [key : Keys, bytes : Sizes, mtime : Nat] \cup {NoJob}
  /\ recent \subseteq (Fps \X Keys) \X (Fps \X Keys) /\ stuck \subseteq Fps \X Keys

\* A hit can be read back: whenever lookups are possible, each index entry
\* stands for a complete file of this process's fingerprint with the length
\* the index remembers, through failed writes, overwrites of the same key,
\* evictions, crashes halfway and restarts with another fingerprint.
IndexBacked == stage \in {"idle", "tmp"} => \A k \in DOMAIN index : Readable(k)

\* No file is forgotten: at rest every file of this fingerprint is in the
\* index, so it counts for the cap and can be evicted, also one that a crash
\* left between rename and insert; only a failed removal leaves one out, until
\* it is put again or found by the next start.
NoOrphanFile ==
  stage = "idle" => \A n \in Scanned(fp) \ stuck : n[2] \in DOMAIN index

\* Between calls used_bytes is the sum over the index and respects the cap,
\* also when open found more than a lowered cap allows.
UsedExact ==
  stage = "idle" => used = Bytes(index) /\ (cap > 0 => used <= cap)

\* No file of the directory is ever incomplete: what a crash or a failed
\* write leaves half done is only a .tmp, which scan never reads.
NoTornFile == \A n \in DOMAIN files : files[n].whole

UsedBefore(m, n) == <<m, n>> \in recent

\* Until the process is started again, an eviction takes the entry that has
\* gone longest without a put or a hit.
EvictsOldest ==
  [][\A k \in DOMAIN index \ DOMAIN index' : crashes' = 0 =>
       \A j \in DOMAIN index \ {k} : UsedBefore(Name(k), Name(j))]_vars

\* The eviction at the end of a put spares what was just put unless it is
\* alone: "Drop the oldest entries until used_bytes <= max_bytes".
FreshSurvives ==
  [][\A k \in DOMAIN index \ DOMAIN index' :
       stage' # "down" /\ k = job.key => DOMAIN index = {k}]_vars
=============================================================================
