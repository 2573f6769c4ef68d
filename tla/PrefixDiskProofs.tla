-------------------------- MODULE PrefixDiskProofs --------------------------
(***************************************************************************)
(* The disk tier's directory and index agree, for every set of prefixes,   *)
(* fingerprints, sizes and caps and any number of crashes.  The tier in    *)
(* host memory counts its bytes, keeps its caps and takes on demand only   *)
(* what prompts share, for every set of prompts, sizes and caps.           *)
(***************************************************************************)
EXTENDS PrefixDisk, HostRam, FoldLemmas, FunctionTheorems

\* The names of two prefixes differ.
LEMMA NamesDiffer ==
  ASSUME NEW k, NEW j, k # j
  PROVE  Name(k) # Name(j)
BY DEF Name

-----------------------------------------------------------------------------
Stages == {"down", "idle", "tmp", "renamed", "evict"}
NamedByPairs == \A n \in DOMAIN files : n = <<n[1], n[2]>>

\* Between rename and insert the index may still describe the old file.
Landed ==
  stage = "renamed" =>
    /\ Name(job.key) \in DOMAIN files
    /\ files[Name(job.key)].whole
    /\ files[Name(job.key)].bytes = job.bytes
InFlight(k) == stage = "renamed" /\ k = job.key
Backed == \A k \in DOMAIN index : InFlight(k) \/ Readable(k)

\* The inductive strengthening of IndexBacked and NoTornFile.
DiskInv ==
  /\ stage \in Stages /\ NamedByPairs /\ NoTornFile
  /\ Landed /\ Backed

\* An empty directory and an empty index.
LEMMA DiskInit == Init => DiskInv
BY DEF Init, DiskInv, Stages, NamedByPairs, NoTornFile, Landed, Backed, NoFun

\* Every step of put, evict, find, a crash and a restart keeps it.
LEMMA DiskInductive == DiskInv /\ [Next]_vars => DiskInv'
<1> SUFFICES ASSUME DiskInv, [Next]_vars PROVE DiskInv'
  OBVIOUS
<1> USE DEF DiskInv, Stages
<1>1. CASE \E k \in Keys \cup {<<>>}, b \in Sizes \cup {0} : PutWrite(k, b)
  BY <1>1 DEF PutWrite, NamedByPairs, NoTornFile, Landed, Backed, InFlight, Readable, Name
<1>2. CASE WriteFails
  BY <1>2 DEF WriteFails, NamedByPairs, NoTornFile, Landed, Backed, InFlight, Readable, Name
<1>3. CASE PutRename
  <2> DEFINE n == Name(job.key)
             c == [bytes |-> job.bytes, mtime |-> job.mtime, whole |-> TRUE]
  <2>1. files' = With(files, n, c) /\ stage = "tmp" /\ stage' = "renamed"
        /\ UNCHANGED <<fp, index, job>>
    BY <1>3 DEF PutRename
  <2>2. n' = n
    BY <2>1 DEF Name
  <2>3. c.whole = TRUE /\ c.bytes = job.bytes
    OBVIOUS
  <2>4. /\ DOMAIN files' = DOMAIN files \cup {n}
        /\ files'[n] = c
        /\ \A m \in DOMAIN files \ {n} : files'[m] = files[m]
    <3> HIDE DEF n, c
    <3> QED BY <2>1 DEF With
  <2>5. NamedByPairs'
    BY <2>4 DEF NamedByPairs, Name
  <2>6. NoTornFile'
    BY <2>3, <2>4 DEF NoTornFile
  <2>7. Landed'
    BY <2>1, <2>2, <2>3, <2>4 DEF Landed
  <2>8. Backed'
    <3> SUFFICES ASSUME NEW k \in DOMAIN index, k # job.key
                 PROVE  Readable(k)'
      BY <2>1 DEF Backed, InFlight
    <3>1. Readable(k) /\ Name(k) # n /\ Name(k)' = Name(k)
      BY <2>1, NamesDiffer DEF Backed, InFlight, Name
    <3> QED BY <2>1, <2>4, <3>1 DEF Readable
  <2> QED BY <2>1, <2>5, <2>6, <2>7, <2>8
<1>4. CASE PutIndex
  <2> DEFINE m == [bytes |-> job.bytes, tick |-> tick']
  <2>1. index' = With(index, job.key, m) /\ stage = "renamed" /\ stage' = "evict"
        /\ UNCHANGED <<files, fp, job>>
    BY <1>4 DEF PutIndex
  <2>2. /\ DOMAIN index' = DOMAIN index \cup {job.key}
        /\ index'[job.key].bytes = job.bytes
        /\ \A k \in DOMAIN index \ {job.key} : index'[k] = index[k]
    <3>1. m.bytes = job.bytes
      OBVIOUS
    <3> HIDE DEF m
    <3> QED BY <2>1, <3>1 DEF With
  <2>3. NamedByPairs' /\ NoTornFile' /\ Landed'
    BY <2>1 DEF NamedByPairs, NoTornFile, Landed
  <2>4. Backed'
    <3> SUFFICES ASSUME NEW k \in DOMAIN index'
                 PROVE  Readable(k)'
      BY DEF Backed
    <3>1. CASE k = job.key
      BY <2>1, <2>2, <3>1 DEF Landed, Readable, Name
    <3>2. CASE k # job.key
      BY <2>1, <2>2, <3>2 DEF Backed, InFlight, Readable, Name
    <3> QED BY <3>1, <3>2
  <2> QED BY <2>1, <2>3, <2>4
<1>5. CASE \E k \in Keys : EvictOne(k)
  <2> PICK k \in Keys : EvictOne(k)
    BY <1>5
  <2>1. /\ index' = Without(index, k) /\ stage = "evict"
        /\ files' = Without(files, Name(k)) \/ files' = files
        /\ UNCHANGED <<stage, fp, job>>
    BY DEF EvictOne
  <2>2. /\ DOMAIN index' = DOMAIN index \ {k}
        /\ \A j \in DOMAIN index \ {k} : index'[j] = index[j]
    BY <2>1 DEF Without, Restrict
  <2>3. /\ DOMAIN files \ {Name(k)} \subseteq DOMAIN files'
        /\ DOMAIN files' \subseteq DOMAIN files
        /\ \A n \in DOMAIN files' : files'[n] = files[n]
    <3>1. CASE files' = files
      BY <3>1
    <3>2. CASE files' = Without(files, Name(k))
      BY <3>2 DEF Without, Restrict
    <3> QED BY <2>1, <3>1, <3>2
  <2>4. NamedByPairs' /\ NoTornFile' /\ Landed'
    BY <2>1, <2>3 DEF NamedByPairs, NoTornFile, Landed
  <2>5. Backed'
    <3> SUFFICES ASSUME NEW j \in DOMAIN index, j # k
                 PROVE  Readable(j)'
      BY <2>2 DEF Backed
    <3>1. Readable(j) /\ Name(j) # Name(k) /\ Name(j)' = Name(j)
      BY <2>1, NamesDiffer DEF Backed, InFlight, Name
    <3> QED BY <2>2, <2>3, <3>1 DEF Readable
  <2> QED BY <2>1, <2>4, <2>5
<1>6. CASE EvictDone
  BY <1>6 DEF EvictDone, NamedByPairs, NoTornFile, Landed, Backed, InFlight, Readable, Name
<1>7. CASE \E p \in Prompts : Find(p)
  <2> PICK p \in Prompts : Find(p)
    BY <1>7
  <2>1. /\ DOMAIN index' = DOMAIN index
        /\ \A k \in DOMAIN index : index'[k].bytes = index[k].bytes \/ ~Readable(k)
        /\ UNCHANGED <<files, fp, stage, job>>
    <3>1. index' = [index EXCEPT ![Best(p)].tick = tick + 1]
      BY DEF Find, Touched
    <3> QED BY <3>1 DEF Find
  <2> QED BY <2>1 DEF NamedByPairs, NoTornFile, Landed, Backed, InFlight, Readable, Name
<1>8. CASE Crash
  BY <1>8 DEF Crash, NamedByPairs, NoTornFile, Landed, Backed, NoFun
<1>9. CASE \E f \in Fps, c \in Caps : Open(f, c)
  <2> PICK f \in Fps, c \in Caps : Open(f, c)
    BY <1>9
  <2> DEFINE own == Scanned(f)
             FileOf(k) == CHOOSE n \in own : n[2] = k
  <2>1. /\ fp' = f /\ stage' = "evict"
        /\ UNCHANGED <<files, job>>
        /\ \E pos \in Bijection(own, 1..Cardinality(own)) :
             index' = [k \in {n[2] : n \in own} |->
                         [bytes |-> files[FileOf(k)].bytes,
                          tick |-> Larger(files[FileOf(k)].mtime, pos[FileOf(k)])]]
    BY DEF Open
  <2>2. \A n \in own : n \in DOMAIN files /\ n = <<f, n[2]>>
    BY DEF Scanned, NamedByPairs
  <2>3. \A k \in {n[2] : n \in own} : FileOf(k) = <<f, k>> /\ <<f, k>> \in own
    <3> SUFFICES ASSUME NEW n \in own
                 PROVE  FileOf(n[2]) = <<f, n[2]>> /\ <<f, n[2]>> \in own
      OBVIOUS
    <3>1. FileOf(n[2]) \in own /\ FileOf(n[2])[2] = n[2]
      OBVIOUS
    <3> QED BY <2>2, <3>1
  <2>4. /\ DOMAIN index' = {n[2] : n \in own}
        /\ \A k \in {n[2] : n \in own} : index'[k].bytes = files[<<f, k>>].bytes
    <3> PICK pos \in Bijection(own, 1..Cardinality(own)) :
               index' = [k \in {n[2] : n \in own} |->
                           [bytes |-> files[FileOf(k)].bytes,
                            tick |-> Larger(files[FileOf(k)].mtime, pos[FileOf(k)])]]
      BY <2>1
    <3> HIDE DEF own, FileOf
    <3> QED BY <2>3
  <2>5. NamedByPairs' /\ NoTornFile' /\ Landed'
    BY <2>1 DEF NamedByPairs, NoTornFile, Landed
  <2>6. Backed'
    BY <2>1, <2>2, <2>3, <2>4 DEF Backed, InFlight, Readable, Name, NoTornFile
  <2> QED BY <2>1, <2>5, <2>6
<1>10. CASE Second \/ \E p \in Prompts : Miss(p)
  BY <1>10 DEF Second, Miss, vars, NamedByPairs, NoTornFile, Landed, Backed, InFlight,
               Readable, Name
<1>11. CASE UNCHANGED vars
  BY <1>11 DEF vars, NamedByPairs, NoTornFile, Landed, Backed, InFlight, Readable, Name
<1> QED
  BY <1>1, <1>2, <1>3, <1>4, <1>5, <1>6, <1>7, <1>8, <1>9, <1>10, <1>11
     DEF Next, Put, Evict, Lookup, Start

\* Whenever the disk tier can be asked, each entry of its index reads back
\* from a complete file of this process's fingerprint: no crash, failed
\* write, overwrite, eviction or restart leaves an entry without its file.
THEOREM IndexBackedCorrect == Spec => []IndexBacked
<1>1. DiskInv => IndexBacked
  BY DEF DiskInv, Backed, InFlight, IndexBacked
<1> QED BY <1>1, DiskInit, DiskInductive, PTL DEF Spec

\* No file that scan could pick up is ever incomplete, wherever the process
\* dies: put writes another name first and renames.
THEOREM NoTornFileCorrect == Spec => []NoTornFile
<1>1. DiskInv => NoTornFile
  BY DEF DiskInv
<1> QED BY <1>1, DiskInit, DiskInductive, PTL DEF Spec

-----------------------------------------------------------------------------
(* The other direction.                                                     *)

\* Only the file that put has just renamed may lack its index entry.
Indexed == stage # "down" =>
  \A n \in Scanned(fp) \ stuck : n[2] \in DOMAIN index \/ InFlight(n[2])

\* Every step keeps each file of this fingerprint indexed: an eviction
\* removes the file with its entry or leaves it stuck, open indexes what a crash left behind.
LEMMA IndexedInductive ==
  DiskInv /\ Indexed /\ [Next]_vars => Indexed'
<1> SUFFICES ASSUME DiskInv, Indexed, [Next]_vars PROVE Indexed'
  OBVIOUS
<1>1. CASE \E k \in Keys \cup {<<>>}, b \in Sizes \cup {0} : PutWrite(k, b)
  BY <1>1 DEF PutWrite, Indexed, Scanned, InFlight
<1>2. CASE WriteFails
  BY <1>2 DEF WriteFails, Indexed, Scanned, InFlight
<1>3. CASE PutRename
  <2>1. /\ DOMAIN files' = DOMAIN files \cup {Name(job.key)}
        /\ stuck' = stuck \ {Name(job.key)}
        /\ stage = "tmp" /\ stage' = "renamed"
        /\ UNCHANGED <<fp, index, job>>
    BY <1>3 DEF PutRename, With
  <2> SUFFICES ASSUME NEW n \in Scanned(fp)' \ stuck'
               PROVE  n[2] \in DOMAIN index' \/ InFlight(n[2])'
    BY DEF Indexed
  <2>2. CASE n = Name(job.key)
    BY <2>1, <2>2 DEF InFlight, Name
  <2>3. CASE n # Name(job.key)
    BY <2>1, <2>3 DEF Indexed, Scanned, InFlight
  <2> QED BY <2>2, <2>3
<1>4. CASE PutIndex
  <2>1. /\ DOMAIN index' = DOMAIN index \cup {job.key}
        /\ stage = "renamed" /\ stage' = "evict"
        /\ UNCHANGED <<files, fp, job, stuck>>
    BY <1>4 DEF PutIndex, With
  <2> QED BY <2>1 DEF Indexed, Scanned, InFlight
<1>5. CASE \E k \in Keys : EvictOne(k)
  <2> PICK k \in Keys : EvictOne(k)
    BY <1>5
  <2>1. /\ DOMAIN index' = DOMAIN index \ {k}
        /\ DOMAIN files' \ stuck' \subseteq (DOMAIN files \ stuck) \ {<<fp, k>>}
        /\ stage = "evict"
        /\ UNCHANGED <<stage, fp, job>>
    BY DEF EvictOne, Without, Restrict, Name
  <2> SUFFICES ASSUME NEW n \in Scanned(fp)' \ stuck'
               PROVE  n[2] \in DOMAIN index'
    BY DEF Indexed
  <2>2. n \in Scanned(fp) \ stuck /\ n # <<fp, k>> /\ n = <<fp, n[2]>>
    BY <2>1 DEF Scanned, DiskInv, NamedByPairs
  <2> QED BY <2>1, <2>2 DEF Indexed, InFlight
<1>6. CASE EvictDone
  BY <1>6 DEF EvictDone, Indexed, Scanned, InFlight
<1>7. CASE \E p \in Prompts : Find(p)
  BY <1>7 DEF Find, Touched, Indexed, Scanned, InFlight
<1>8. CASE Crash
  BY <1>8 DEF Crash, Indexed
<1>9. CASE \E f \in Fps, c \in Caps : Open(f, c)
  <2> PICK f \in Fps, c \in Caps : Open(f, c)
    BY <1>9
  <2>1. /\ DOMAIN index' = {n[2] : n \in Scanned(f)}
        /\ fp' = f /\ UNCHANGED files
    BY DEF Open
  <2>2. Scanned(fp)' = Scanned(f)
    BY <2>1 DEF Scanned
  <2> QED BY <2>1, <2>2 DEF Indexed
<1>10. CASE Second \/ \E p \in Prompts : Miss(p)
  BY <1>10 DEF Second, Miss, vars, Indexed, Scanned, InFlight
<1>11. CASE UNCHANGED vars
  BY <1>11 DEF vars, Indexed, Scanned, InFlight
<1> QED
  BY <1>1, <1>2, <1>3, <1>4, <1>5, <1>6, <1>7, <1>8, <1>9, <1>10, <1>11
     DEF Next, Put, Evict, Lookup, Start

\* Every file of this process's fingerprint whose removal did not fail is in
\* the index whenever the tier is at rest, so it counts for the cap and can
\* be evicted, also after a crash between rename and insert.
THEOREM NoOrphanFileCorrect == Spec => []NoOrphanFile
<1>1. Init => DiskInv /\ Indexed
  BY DiskInit DEF Init, Indexed
<1>2. DiskInv /\ Indexed => NoOrphanFile
  BY DEF Indexed, InFlight, NoOrphanFile
<1> QED BY <1>1, <1>2, DiskInductive, IndexedInductive, PTL DEF Spec

-----------------------------------------------------------------------------
(* Sums over an index.                                                      *)

\* An index with finitely many entries of known lengths.
Summable(f) == IsFiniteSet(DOMAIN f) /\ \A x \in DOMAIN f : f[x].bytes \in Nat

\* The bytes of an entry.
Part(f, x) == {x} \X (1 .. f[x].bytes)

\* A part has as many bytes as its entry, and there are finitely many in all.
LEMMA Parts ==
  ASSUME NEW f, Summable(f)
  PROVE  /\ IsFiniteSet(UNION {Part(f, x) : x \in DOMAIN f}) /\ Bytes(f) \in Nat
         /\ \A x \in DOMAIN f : IsFiniteSet(Part(f, x)) /\ Cardinality(Part(f, x)) = f[x].bytes
<1> DEFINE D == DOMAIN f
           P == {Part(f, x) : x \in D}
           g == [x \in D |-> Part(f, x)]
<1>1. ASSUME NEW x \in D
      PROVE  IsFiniteSet(Part(f, x)) /\ Cardinality(Part(f, x)) = f[x].bytes
  <2> DEFINE n == f[x].bytes
  <2>1. n \in Nat
    BY DEF Summable
  <2> HIDE DEF n
  <2>2. IsFiniteSet(1 .. n) /\ Cardinality(1 .. n) = n
    <3>1. 1 \in Int /\ n \in Int
      BY <2>1
    <3>2. IsFiniteSet(1 .. n) /\ Cardinality(1 .. n) = IF 1 > n THEN 0 ELSE n - 1 + 1
      BY <3>1, FS_Interval
    <3> QED
      BY <2>1, <3>2
  <2>3. IsFiniteSet({x}) /\ Cardinality({x}) = 1
    BY FS_Singleton
  <2>4. IsFiniteSet({x} \X (1 .. n)) /\ Cardinality({x} \X (1 .. n)) = 1 * n
    BY <2>2, <2>3, FS_Product, ZenonT(40)
  <2>5. 1 * n = n
    BY <2>1
  <2> QED
    BY <2>4, <2>5 DEF Part, n
<1>2. g \in Surjection(D, P)
  <2>1. g \in [D -> P]
    OBVIOUS
  <2>2. \A t \in P : \E x \in D : g[x] = t
    OBVIOUS
  <2> QED
    BY <2>1, <2>2, Fun_IsSurj
<1>3. IsFiniteSet(D)
  BY DEF Summable
<1> HIDE DEF D, P, g
<1>4. IsFiniteSet(P)
  BY <1>2, <1>3, FS_Surjection
<1>5. IsFiniteSet(UNION P)
  <2>1. \A T \in P : IsFiniteSet(T)
    BY <1>1 DEF P
  <2> QED
    BY <1>4, <2>1, FS_UNION
<1>6. Bytes(f) = Cardinality(UNION P)
  BY DEF Bytes, P, D, Part
<1>7. Bytes(f) \in Nat
  BY <1>5, <1>6, FS_CardinalityType
<1> QED
  BY <1>1, <1>5, <1>7 DEF P, D

\* The bytes of an entry are those of the index without the others'.
LEMMA BytesSplit ==
  ASSUME NEW f, Summable(f), NEW k \in DOMAIN f, NEW g,
         DOMAIN g = DOMAIN f \ {k}, \A x \in DOMAIN g : g[x].bytes = f[x].bytes
  PROVE  Summable(g) /\ Bytes(g) \in Nat /\ Bytes(f) = Bytes(g) + f[k].bytes
<1> DEFINE A == UNION {Part(f, x) : x \in DOMAIN f}
           B == UNION {Part(g, x) : x \in DOMAIN g}
           C == Part(f, k)
<1>1. Summable(g)
  <2>1. IsFiniteSet(DOMAIN f) /\ DOMAIN g \in SUBSET DOMAIN f
    BY DEF Summable
  <2>2. IsFiniteSet(DOMAIN g)
    BY <2>1, FS_Subset
  <2> QED
    BY <2>2 DEF Summable
<1>2. /\ IsFiniteSet(A) /\ IsFiniteSet(C) /\ Cardinality(C) = f[k].bytes /\ f[k].bytes \in Nat
  BY Parts DEF Summable
<1>3. IsFiniteSet(B) /\ Bytes(g) \in Nat
  BY <1>1, Parts
<1>4. \A x \in DOMAIN g : Part(g, x) = Part(f, x)
  BY DEF Part
<1>5. A = B \cup C
  BY <1>4
<1>6. B \cap C = {}
  <2>1. \A x \in DOMAIN g : Part(g, x) \cap Part(f, k) = {}
    BY DEF Part
  <2> QED
    BY <2>1
<1>7. Bytes(f) = Cardinality(A) /\ Bytes(g) = Cardinality(B)
  BY DEF Bytes, Part
<1> HIDE DEF A, B, C
<1>8. Cardinality(B \cup C) = Cardinality(B) + Cardinality(C) - Cardinality(B \cap C)
  BY <1>2, <1>3, FS_Union
<1>9. Cardinality(B \cap C) = 0
  BY <1>6, FS_EmptySet
<1> QED
  BY <1>1, <1>2, <1>3, <1>5, <1>7, <1>8, <1>9

\* The sum is over the lengths only.
LEMMA BytesSame ==
  ASSUME NEW f, NEW g, DOMAIN g = DOMAIN f, \A x \in DOMAIN f : g[x].bytes = f[x].bytes
  PROVE  Bytes(g) = Bytes(f) /\ (Summable(f) => Summable(g))
<1>1. {{x} \X (1 .. g[x].bytes) : x \in DOMAIN g} = {{x} \X (1 .. f[x].bytes) : x \in DOMAIN f}
  OBVIOUS
<1> QED
  BY <1>1 DEF Bytes, Summable

\* Nothing is in an empty index.
LEMMA BytesNone ==
  ASSUME NEW f, DOMAIN f = {}
  PROVE  Bytes(f) = 0 /\ Summable(f)
<1>1. UNION {{x} \X (1 .. f[x].bytes) : x \in DOMAIN f} = {}
  OBVIOUS
<1> QED
  BY <1>1, FS_EmptySet DEF Bytes, Summable

-----------------------------------------------------------------------------
(* Types.                                                                   *)

JobRec == [key : Keys, bytes : Sizes, mtime : Nat]

\* The types, and that a put knows what it stores.
Typed == TypeOK /\ (stage \in {"tmp", "renamed"} => job \in JobRec)

\* A function with one value more is still one.
LEMMA WithTyped ==
  ASSUME NEW f, NEW S, NEW T, IsFunOn(f, S, T), NEW x \in S, NEW v \in T
  PROVE  /\ IsFunOn(With(f, x, v), S, T) /\ DOMAIN With(f, x, v) = DOMAIN f \cup {x}
         /\ With(f, x, v)[x] = v /\ \A y \in DOMAIN f \ {x} : With(f, x, v)[y] = f[y]
BY DEF IsFunOn, With

\* So is one with a value less.
LEMMA WithoutTyped ==
  ASSUME NEW f, NEW S, NEW T, IsFunOn(f, S, T), NEW x
  PROVE  /\ IsFunOn(Without(f, x), S, T) /\ DOMAIN Without(f, x) = DOMAIN f \ {x}
         /\ \A y \in DOMAIN f \ {x} : Without(f, x)[y] = f[y]
BY DEF IsFunOn, Without, Restrict

\* What the assumptions say of sizes and of an index of the right type.
LEMMA IndexSummable ==
  ASSUME TypeOK
  PROVE  /\ Summable(index) /\ Sizes \subseteq Nat /\ cap \in Nat
         /\ \A k \in DOMAIN index : /\ k \in Keys /\ index[k] \in Meta
                                    /\ index[k].bytes \in Nat /\ index[k].tick \in Nat
<1>1. Sizes \subseteq Nat /\ Caps \subseteq Nat /\ IsFiniteSet(Keys)
  BY SizesAssumption, KeysAssumption
<1>2. \A k \in DOMAIN index : /\ k \in Keys /\ index[k] \in Meta
                              /\ index[k].bytes \in Nat /\ index[k].tick \in Nat
  BY <1>1 DEF TypeOK, IsFunOn, Meta
<1>3. IsFiniteSet(DOMAIN index)
  BY <1>1, FS_Subset DEF TypeOK, IsFunOn
<1> QED
  BY <1>1, <1>2, <1>3 DEF Summable, TypeOK

\* A hit refreshes the tick of an entry and nothing else.
LEMMA TouchedTyped ==
  ASSUME TypeOK, NEW k \in DOMAIN index
  PROVE  /\ IsFunOn(Touched(k), Keys, Meta) /\ DOMAIN Touched(k) = DOMAIN index
         /\ Touched(k)[k].tick = tick + 1 /\ Touched(k)[k].bytes = index[k].bytes
         /\ \A j \in DOMAIN index \ {k} : Touched(k)[j] = index[j]
<1>1. /\ index = [j \in DOMAIN index |-> index[j]] /\ DOMAIN index \subseteq Keys
      /\ \A j \in DOMAIN index : index[j] \in Meta
      /\ tick + 1 \in Nat
  BY DEF TypeOK, IsFunOn
<1> DEFINE r == [index[k] EXCEPT !.tick = tick + 1]
<1>2. r \in Meta /\ r.tick = tick + 1 /\ r.bytes = index[k].bytes
  BY <1>1 DEF Meta
<1>3. Touched(k) = [index EXCEPT ![k] = r]
  BY DEF Touched
<1> HIDE DEF r
<1>4. /\ DOMAIN Touched(k) = DOMAIN index /\ Touched(k)[k] = r
      /\ \A j \in DOMAIN index \ {k} : Touched(k)[j] = index[j]
      /\ Touched(k) = [j \in DOMAIN Touched(k) |-> Touched(k)[j]]
  BY <1>1, <1>3
<1> QED
  BY <1>1, <1>2, <1>4 DEF IsFunOn

\* Which file was used last, in the right type.
LEMMA FreshestTyped ==
  ASSUME TypeOK, NEW k \in Keys
  PROVE  Freshest(Name(k)) \subseteq (Fps \X Keys) \X (Fps \X Keys) /\ Name(k) \in Fps \X Keys
<1>1. Name(k) \in Fps \X Keys
  BY DEF Name, TypeOK
<1> QED
  BY <1>1 DEF Freshest, TypeOK

\* What open reads of the directory.
LEMMA Opened ==
  ASSUME TypeOK, NEW f \in Fps, NEW c \in Caps, Open(f, c)
  PROVE  /\ IsFunOn(index', Keys, Meta) /\ DOMAIN index' = {n[2] : n \in Scanned(f)}
         /\ tick' \in Nat /\ used' = Bytes(index') /\ Summable(index')
<1> DEFINE own == Scanned(f)
           FileOf(k) == CHOOSE n \in own : n[2] = k
           D == {n[2] : n \in own}
<1>1. PICK pos \in Bijection(own, 1..Cardinality(own)) :
        index' = [k \in D |-> [bytes |-> files[FileOf(k)].bytes,
                               tick |-> Larger(files[FileOf(k)].mtime, pos[FileOf(k)])]]
  BY DEF Open
<1>2. tick' = Cardinality(own) /\ used' = Bytes(index')
  BY DEF Open
<1>3. /\ own \subseteq {f} \X Keys /\ D \subseteq Keys
      /\ \A n \in own : n \in DOMAIN files /\ files[n] \in Content
  BY DEF Scanned, TypeOK, IsFunOn
<1>4. IsFiniteSet(own) /\ Cardinality(own) \in Nat
  <2>1. IsFiniteSet({f}) /\ IsFiniteSet(Keys)
    BY KeysAssumption, FS_Singleton
  <2>2. IsFiniteSet({f} \X Keys)
    BY <2>1, FS_Product
  <2> QED
    BY <1>3, <2>2, FS_Subset, FS_CardinalityType
<1>5. ASSUME NEW k \in D PROVE FileOf(k) \in own
  OBVIOUS
<1>6. \A n \in own : pos[n] \in Nat
  <2>1. pos \in [own -> 1 .. Cardinality(own)]
    BY DEF Bijection, Injection
  <2> QED
    BY <1>4, <2>1
<1> HIDE DEF own, FileOf, D
<1>7. ASSUME NEW k \in D
      PROVE  [bytes |-> files[FileOf(k)].bytes,
              tick |-> Larger(files[FileOf(k)].mtime, pos[FileOf(k)])] \in Meta
  BY <1>3, <1>5, <1>6 DEF Content, Meta, Larger
<1>8. IsFunOn(index', Keys, Meta) /\ DOMAIN index' = D
  BY <1>1, <1>3, <1>7 DEF IsFunOn
<1>9. Summable(index')
  <2>1. IsFiniteSet(D)
    BY <1>3, KeysAssumption, FS_Subset
  <2>2. \A k \in D : index'[k].bytes \in Nat
    BY <1>8, SizesAssumption DEF IsFunOn, Meta
  <2> QED
    BY <1>8, <2>1, <2>2 DEF Summable
<1> QED
  BY <1>2, <1>4, <1>8, <1>9 DEF own, D

\* A hit is on a file that is there, so its name has the right type; on an
\* entry that is not in the index it would change nothing.
LEMMA FoundTyped ==
  ASSUME TypeOK, NEW p, Find(p)
  PROVE  /\ Best(p) \in Keys /\ tick' = tick + 1
         /\ IsFunOn(index', Keys, Meta) /\ DOMAIN index' = DOMAIN index
         /\ \A j \in DOMAIN index : index'[j].bytes = index[j].bytes
         /\ \A j \in DOMAIN index \ {Best(p)} : index'[j] = index[j]
         /\ Best(p) \in DOMAIN index => index'[Best(p)].tick = tick + 1
<1>1. Name(Best(p)) \in DOMAIN files /\ index' = Touched(Best(p)) /\ tick' = tick + 1
  BY DEF Find, Hit, Readable
<1>2. Best(p) \in Keys
  BY <1>1 DEF TypeOK, IsFunOn, Name
<1>3. CASE Best(p) \in DOMAIN index
  BY <1>1, <1>2, <1>3, TouchedTyped
<1>4. CASE Best(p) \notin DOMAIN index
  <2>1. index' = index
    <3>1. index = [j \in DOMAIN index |-> index[j]]
      BY DEF TypeOK, IsFunOn
    <3> QED
      BY <1>1, <1>4, <3>1 DEF Touched
  <2>2. IsFunOn(index, Keys, Meta)
    BY DEF TypeOK
  <2> QED
    BY <1>1, <1>2, <1>4, <2>1, <2>2
<1> QED
  BY <1>3, <1>4

\* The types hold at the start.
LEMMA TypedInit == Init => Typed
<1> SUFFICES ASSUME Init PROVE Typed
  OBVIOUS
<1>1. IsFunOn(NoFun, Fps \X Keys, Content) /\ IsFunOn(NoFun, Keys, Meta)
  BY DEF IsFunOn, NoFun
<1> QED
  BY <1>1, ClockAssumption DEF Init, Typed, TypeOK

\* Every step keeps the types.
LEMMA TypedInductive == Typed /\ [Next]_vars => Typed'
<1> SUFFICES ASSUME Typed, [Next]_vars PROVE Typed'
  OBVIOUS
<1>t. TypeOK
  BY DEF Typed
<1>n. /\ clock \in Nat /\ fp \in Fps /\ cap \in Caps /\ used \in Nat /\ tick \in Nat
      /\ crashes \in Nat /\ recent \subseteq (Fps \X Keys) \X (Fps \X Keys)
      /\ stuck \subseteq Fps \X Keys /\ Sizes \subseteq Nat
      /\ IsFunOn(files, Fps \X Keys, Content) /\ IsFunOn(index, Keys, Meta)
      /\ job \in JobRec \cup {NoJob}
  BY <1>t, SizesAssumption DEF TypeOK, JobRec
<1>1. CASE \E k \in Keys \cup {<<>>}, b \in Sizes \cup {0} : PutWrite(k, b)
  <2> PICK k \in Keys \cup {<<>>}, b \in Sizes \cup {0} : PutWrite(k, b)
    BY <1>1
  <2>1. k \in Keys /\ b \in Sizes
    BY DEF PutWrite
  <2>2. job' \in JobRec
    BY <1>n, <2>1 DEF PutWrite, JobRec
  <2> QED
    BY <1>n, <2>2 DEF PutWrite, Typed, TypeOK, JobRec
<1>2. CASE WriteFails
  BY <1>n, <1>2 DEF WriteFails, Typed, TypeOK
<1>3. CASE PutRename
  <2>1. job \in JobRec
    BY <1>3 DEF PutRename, Typed
  <2> DEFINE c == [bytes |-> job.bytes, mtime |-> job.mtime, whole |-> TRUE]
  <2>2. c \in Content /\ job.key \in Keys
    BY <2>1 DEF JobRec, Content
  <2>3. /\ files' = With(files, Name(job.key), c) /\ recent' = Freshest(Name(job.key))
        /\ stuck' = stuck \ {Name(job.key)} /\ stage' = "renamed"
        /\ UNCHANGED <<clock, fp, cap, index, used, tick, job, crashes>>
    BY <1>3 DEF PutRename
  <2> HIDE DEF c
  <2>4. recent' \subseteq (Fps \X Keys) \X (Fps \X Keys) /\ Name(job.key) \in Fps \X Keys
    BY <1>t, <2>2, <2>3, FreshestTyped
  <2>5. IsFunOn(files', Fps \X Keys, Content)
    BY <1>n, <2>2, <2>3, <2>4, WithTyped
  <2> QED
    BY <1>n, <2>1, <2>3, <2>4, <2>5 DEF Typed, TypeOK, JobRec
<1>4. CASE PutIndex
  <2>1. job \in JobRec
    BY <1>4 DEF PutIndex, Typed
  <2> DEFINE m == [bytes |-> job.bytes, tick |-> tick + 1]
  <2>2. m \in Meta /\ job.key \in Keys /\ job.bytes \in Nat /\ tick + 1 \in Nat
    BY <1>n, <2>1 DEF JobRec, Meta
  <2>3. /\ index' = With(index, job.key, m) /\ tick' = tick + 1
        /\ used' = SatSub(used, OldBytes(job.key)) + job.bytes /\ stage' = "evict"
        /\ UNCHANGED <<files, clock, fp, cap, job, recent, stuck, crashes>>
    BY <1>4 DEF PutIndex
  <2> HIDE DEF m
  <2>4. IsFunOn(index', Keys, Meta)
    BY <1>n, <2>2, <2>3, WithTyped
  <2>5. OldBytes(job.key) \in Nat
    BY <1>t, IndexSummable DEF OldBytes
  <2>6. SatSub(used, OldBytes(job.key)) \in Nat
    BY <1>n, <2>5 DEF SatSub
  <2>7. used' \in Nat
    BY <2>2, <2>3, <2>6
  <2> QED
    BY <1>n, <2>2, <2>3, <2>4, <2>7 DEF Typed, TypeOK, JobRec
<1>5. CASE \E k \in Keys : EvictOne(k)
  <2> PICK k \in Keys : EvictOne(k)
    BY <1>5
  <2>1. /\ index' = Without(index, k) /\ used' = SatSub(used, index[k].bytes)
        /\ k \in DOMAIN index /\ stage = "evict"
        /\ files' = Without(files, Name(k)) \/ files' = files
        /\ stuck' = stuck \/ stuck' = stuck \cup {Name(k)}
        /\ UNCHANGED <<clock, fp, cap, tick, stage, job, recent, crashes>>
    BY DEF EvictOne, Victims
  <2>2. IsFunOn(index', Keys, Meta) /\ IsFunOn(files', Fps \X Keys, Content)
    <3>1. IsFunOn(Without(index, k), Keys, Meta)
      BY <1>n, WithoutTyped
    <3>2. IsFunOn(Without(files, Name(k)), Fps \X Keys, Content)
      BY <1>n, WithoutTyped
    <3> QED
      BY <1>n, <2>1, <3>1, <3>2
  <2>3. stuck' \subseteq Fps \X Keys
    BY <1>n, <1>t, <2>1, FreshestTyped
  <2>4. used' \in Nat
    BY <1>n, <1>t, <2>1, IndexSummable DEF SatSub
  <2> QED
    BY <1>n, <2>1, <2>2, <2>3, <2>4 DEF Typed, TypeOK, JobRec
<1>6. CASE EvictDone
  BY <1>n, <1>6 DEF EvictDone, Typed, TypeOK
<1>7. CASE \E p \in Prompts : Find(p)
  <2> PICK p \in Prompts : Find(p)
    BY <1>7
  <2>1. /\ recent' = Freshest(Name(Best(p))) /\ tick' = tick + 1
        /\ UNCHANGED <<files, clock, fp, cap, used, stage, job, stuck, crashes>>
    BY DEF Find
  <2>2. Best(p) \in Keys /\ IsFunOn(index', Keys, Meta)
    BY <1>t, FoundTyped
  <2>3. recent' \subseteq (Fps \X Keys) \X (Fps \X Keys)
    BY <1>t, <2>1, <2>2, FreshestTyped
  <2>4. tick' \in Nat
    BY <1>n, <2>1
  <2> QED
    BY <1>n, <2>1, <2>2, <2>3, <2>4 DEF Typed, TypeOK, JobRec
<1>8. CASE Crash
  <2>1. IsFunOn(NoFun, Keys, Meta)
    BY DEF IsFunOn, NoFun
  <2>2. crashes' \in Nat
    BY <1>n, <1>8 DEF Crash
  <2> QED
    BY <1>n, <1>8, <2>1, <2>2 DEF Crash, Typed, TypeOK
<1>9. CASE \E f \in Fps, c \in Caps : Open(f, c)
  <2> PICK f \in Fps, c \in Caps : Open(f, c)
    BY <1>9
  <2>1. /\ fp' = f /\ cap' = c /\ stage' = "evict" /\ stuck' = stuck \ Scanned(f)
        /\ UNCHANGED <<files, clock, job, recent, crashes>>
    BY DEF Open
  <2>2. IsFunOn(index', Keys, Meta) /\ tick' \in Nat /\ used' = Bytes(index') /\ Summable(index')
    BY <1>t, Opened
  <2>3. used' \in Nat
    BY <2>2, Parts
  <2> QED
    BY <1>n, <2>1, <2>2, <2>3 DEF Typed, TypeOK, JobRec
<1>10. CASE Second
  <2>1. clock' \in Nat
    BY <1>n, <1>10 DEF Second
  <2> QED
    BY <1>n, <1>10, <2>1 DEF Second, Typed, TypeOK, JobRec
<1>11. CASE UNCHANGED vars \/ \E p \in Prompts : Miss(p)
  <2>1. UNCHANGED vars
    BY <1>11 DEF Miss
  <2> QED
    BY <2>1 DEF vars, Typed, TypeOK, IsFunOn
<1> QED
  BY <1>1, <1>2, <1>3, <1>4, <1>5, <1>6, <1>7, <1>8, <1>9, <1>10, <1>11
     DEF Next, Put, Evict, Lookup, Start

\* Type correctness, for every set of prefixes, sizes, caps and fingerprints.
THEOREM TypeCorrect == Spec => []TypeOK
<1>1. Typed => TypeOK
  BY DEF Typed
<1> QED
  BY <1>1, TypedInit, TypedInductive, PTL DEF Spec

-----------------------------------------------------------------------------
(* used_bytes.                                                              *)

\* The counter is the sum over the index at every step, also halfway through
\* a put, and an eviction goes on until the cap holds.
Exact ==
  /\ used = Bytes(index)
  /\ stage \in {"idle", "tmp"} => (cap > 0 => used <= cap)

\* Nothing is counted at the start.
LEMMA ExactInit == Init => Exact
<1>1. DOMAIN NoFun = {}
  BY DEF NoFun
<1> QED
  BY <1>1, BytesNone DEF Init, Exact

\* An overwrite replaces the old length, an eviction takes its own away, a hit
\* changes no length, and a start counts what it found.
LEMMA ExactInductive == Typed /\ Exact /\ [Next]_vars => Exact'
<1> SUFFICES ASSUME Typed, Exact, [Next]_vars PROVE Exact'
  OBVIOUS
<1>t. TypeOK
  BY DEF Typed
<1>n. /\ Summable(index) /\ used = Bytes(index) /\ used \in Nat /\ cap \in Nat
      /\ \A k \in DOMAIN index : index[k].bytes \in Nat
  BY <1>t, IndexSummable DEF TypeOK, Exact
<1>1. CASE \E k \in Keys \cup {<<>>}, b \in Sizes \cup {0} : PutWrite(k, b)
  BY <1>1 DEF PutWrite, Exact
<1>2. CASE WriteFails
  BY <1>2 DEF WriteFails, Exact
<1>3. CASE PutRename
  BY <1>3 DEF PutRename, Exact
<1>4. CASE PutIndex
  <2> DEFINE q == job.key
             m == [bytes |-> job.bytes, tick |-> tick + 1]
             h == [x \in DOMAIN index \ {q} |-> index[x]]
  <2>1. job \in JobRec
    BY <1>4 DEF PutIndex, Typed
  <2>2. m \in Meta /\ q \in Keys /\ job.bytes \in Nat /\ m.bytes = job.bytes
    BY <2>1, <1>t, SizesAssumption DEF JobRec, Meta, TypeOK
  <2>3. /\ index' = With(index, q, m) /\ stage' = "evict"
        /\ used' = SatSub(used, OldBytes(q)) + job.bytes
    BY <1>4 DEF PutIndex
  <2>4. DOMAIN h = DOMAIN index \ {q} /\ \A x \in DOMAIN h : h[x].bytes = index[x].bytes
    OBVIOUS
  <2>h. \A x \in DOMAIN h : h[x] = index[x]
    OBVIOUS
  <2> HIDE DEF q, m, h
  <2>5. /\ DOMAIN index' = DOMAIN index \cup {q} /\ index'[q] = m
        /\ \A x \in DOMAIN index \ {q} : index'[x] = index[x]
    BY <2>3 DEF With
  <2>6. Bytes(h) \in Nat /\ SatSub(used, OldBytes(q)) = Bytes(h)
    <3>1. CASE q \in DOMAIN index
      <4>1. Bytes(h) \in Nat /\ Bytes(index) = Bytes(h) + index[q].bytes
        BY <1>n, <2>4, <3>1, BytesSplit
      <4>2. index[q].bytes \in Nat
        BY <1>n, <3>1
      <4>3. used >= index[q].bytes /\ used - index[q].bytes = Bytes(h)
        BY <1>n, <4>1, <4>2
      <4> QED
        BY <1>n, <3>1, <4>1, <4>2, <4>3 DEF OldBytes, SatSub
    <3>2. CASE q \notin DOMAIN index
      <4>1. DOMAIN h = DOMAIN index
        BY <2>4, <3>2
      <4>2. Bytes(h) = Bytes(index)
        BY <2>4, <4>1, BytesSame
      <4> QED
        BY <1>n, <3>2, <4>2 DEF OldBytes, SatSub
    <3> QED
      BY <3>1, <3>2
  <2>7. Summable(index')
    <3>1. IsFiniteSet(DOMAIN index \cup {q})
      BY <1>n, FS_AddElement DEF Summable
    <3>2. \A x \in DOMAIN index' : index'[x].bytes \in Nat
      BY <1>n, <2>2, <2>5
    <3> QED
      BY <2>5, <3>1, <3>2 DEF Summable
  <2>8. Bytes(index') = Bytes(h) + index'[q].bytes
    <3>1. DOMAIN h = DOMAIN index' \ {q} /\ q \in DOMAIN index'
      BY <2>4, <2>5
    <3>2. \A x \in DOMAIN h : h[x].bytes = index'[x].bytes
      BY <2>4, <2>5, <2>h
    <3> QED
      BY <2>7, <3>1, <3>2, BytesSplit
  <2>9. used' = Bytes(index')
    BY <2>2, <2>3, <2>5, <2>6, <2>8
  <2> QED
    BY <2>3, <2>9 DEF Exact
<1>5. CASE \E k \in Keys : EvictOne(k)
  <2> PICK k \in Keys : EvictOne(k)
    BY <1>5
  <2>1. /\ index' = Without(index, k) /\ used' = SatSub(used, index[k].bytes)
        /\ k \in DOMAIN index /\ stage = "evict" /\ stage' = stage
    BY DEF EvictOne, Victims
  <2>2. /\ DOMAIN index' = DOMAIN index \ {k}
        /\ \A x \in DOMAIN index' : index'[x].bytes = index[x].bytes
    BY <2>1 DEF Without, Restrict
  <2>3. Bytes(index') \in Nat /\ Bytes(index) = Bytes(index') + index[k].bytes
    BY <1>n, <2>1, <2>2, BytesSplit
  <2>4. index[k].bytes \in Nat
    BY <1>n, <2>1
  <2>5. used >= index[k].bytes /\ used - index[k].bytes = Bytes(index')
    BY <1>n, <2>3, <2>4
  <2>6. used' = Bytes(index')
    BY <1>n, <2>1, <2>4, <2>5 DEF SatSub
  <2> QED
    BY <2>1, <2>6 DEF Exact
<1>6. CASE EvictDone
  <2>1. ~OverCap /\ UNCHANGED <<used, cap, index>>
    BY <1>6 DEF EvictDone
  <2>2. used = Bytes(index)
    BY <1>n
  <2>3. cap > 0 => used <= cap
    <3>1. CASE index = NoFun
      <4>1. DOMAIN index = {}
        BY <3>1 DEF NoFun
      <4>2. used = 0
        BY <2>2, <4>1, BytesNone
      <4> QED
        BY <1>n, <4>2
    <3>2. CASE index # NoFun
      BY <1>n, <2>1, <3>2 DEF OverCap
    <3> QED
      BY <3>1, <3>2
  <2> QED
    BY <2>1, <2>2, <2>3 DEF Exact
<1>7. CASE \E p \in Prompts : Find(p)
  <2> PICK p \in Prompts : Find(p)
    BY <1>7
  <2>1. UNCHANGED <<used, cap, stage>>
    BY DEF Find
  <2>2. DOMAIN index' = DOMAIN index /\ \A x \in DOMAIN index : index'[x].bytes = index[x].bytes
    BY <1>t, FoundTyped
  <2>3. Bytes(index') = Bytes(index)
    BY <2>2, BytesSame
  <2> QED
    BY <2>1, <2>3 DEF Exact
<1>8. CASE Crash
  <2>1. DOMAIN NoFun = {}
    BY DEF NoFun
  <2> QED
    BY <1>8, <2>1, BytesNone DEF Crash, Exact
<1>9. CASE \E f \in Fps, c \in Caps : Open(f, c)
  BY <1>9 DEF Open, Exact
<1>10. CASE Second
  BY <1>10 DEF Second, Exact
<1>11. CASE UNCHANGED vars \/ \E p \in Prompts : Miss(p)
  <2>1. UNCHANGED vars
    BY <1>11 DEF Miss
  <2> QED
    BY <2>1 DEF vars, Exact
<1> QED
  BY <1>1, <1>2, <1>3, <1>4, <1>5, <1>6, <1>7, <1>8, <1>9, <1>10, <1>11
     DEF Next, Put, Evict, Lookup, Start

\* Between calls used_bytes is the sum over the index and within the cap,
\* through overwrites, failed writes, evictions, crashes and restarts under a
\* lower cap.
THEOREM UsedExactCorrect == Spec => []UsedExact
<1>1. Exact => UsedExact
  BY DEF Exact, UsedExact
<1> QED
  BY <1>1, TypedInit, TypedInductive, ExactInit, ExactInductive, PTL DEF Spec

-----------------------------------------------------------------------------
(* LRU.                                                                     *)

\* Entries have ticks of their own.
Apart == \A j, k \in DOMAIN index : j # k => index[j].tick # index[k].tick

\* The tick tells which was used before, but for the entry of the file that
\* put has just renamed, whose tick is still that of the old file.
Older == \A j, k \in DOMAIN index :
  index[j].tick < index[k].tick => InFlight(j) \/ InFlight(k) \/ UsedBefore(Name(j), Name(k))

\* The file just renamed was used last.
Newest == stage = "renamed" =>
  \A j \in DOMAIN index \ {job.key} : UsedBefore(Name(j), Name(job.key))

\* As long as the process has not been started again: before its start the
\* directory and the index are empty, and then ticks go by last use.
Aged ==
  crashes = 0 =>
    /\ stage = "down" => DOMAIN files = {} /\ DOMAIN index = {}
    /\ \A k \in DOMAIN index : index[k].tick <= tick
    /\ Apart /\ Older /\ Newest

\* The name used last comes after every other one; the order of the others stays.
LEMMA FreshestLast ==
  ASSUME crashes = 0, NEW n, NEW m \in Fps \X Keys, m # n
  PROVE  /\ <<m, n>> \in Freshest(n)
         /\ \A l : l # n /\ <<l, m>> \in recent => <<l, m>> \in Freshest(n)
BY DEF Freshest

\* Every step of the first process keeps ticks in the order of use: a put and
\* a hit take a tick above all others, an eviction and a failed write move none.
LEMMA AgedInductive == Typed /\ Aged /\ [Next]_vars => Aged'
<1> SUFFICES ASSUME Typed, Aged, [Next]_vars, crashes' = 0 PROVE Aged'
  BY DEF Aged
<1>t. TypeOK
  BY DEF Typed
<1>n. /\ crashes \in Nat /\ tick \in Nat
      /\ \A k \in DOMAIN index : k \in Keys /\ index[k].tick \in Nat
      /\ \A k \in DOMAIN index : Name(k) \in Fps \X Keys
  BY <1>t, IndexSummable, FreshestTyped DEF TypeOK
<1>0. /\ crashes = 0 /\ (stage = "down" => DOMAIN files = {} /\ DOMAIN index = {})
      /\ \A k \in DOMAIN index : index[k].tick <= tick
      /\ Apart /\ Older /\ Newest
  <2>1. crashes = 0
    <3>1. crashes' = crashes \/ crashes' = crashes + 1
      BY DEF Next, vars, Put, PutWrite, WriteFails, PutRename, PutIndex, Evict, EvictOne,
             EvictDone, Lookup, Find, Miss, Crash, Start, Open, Second
    <3> QED
      BY <1>n, <3>1
  <2> QED
    BY <2>1 DEF Aged
<1>1. CASE \E k \in Keys \cup {<<>>}, b \in Sizes \cup {0} : PutWrite(k, b)
  BY <1>1, <1>0 DEF PutWrite, Aged, Apart, Older, Newest, InFlight, UsedBefore, Name
<1>2. CASE WriteFails
  BY <1>2, <1>0 DEF WriteFails, Aged, Apart, Older, Newest, InFlight, UsedBefore, Name
<1>3. CASE PutRename
  <2>1. /\ recent' = Freshest(Name(job.key)) /\ stage = "tmp" /\ stage' = "renamed"
        /\ UNCHANGED <<fp, index, tick, job>>
    BY <1>3 DEF PutRename
  <2>2. \A k : Name(k)' = Name(k)
    BY <2>1 DEF Name
  <2>3. Newest'
    <3> SUFFICES ASSUME NEW j \in DOMAIN index, j # job.key
                 PROVE  <<Name(j), Name(job.key)>> \in recent'
      BY <2>1, <2>2 DEF Newest, UsedBefore
    <3> QED
      BY <1>0, <1>n, <2>1, NamesDiffer, FreshestLast
  <2>4. Older'
    <3> SUFFICES ASSUME NEW j \in DOMAIN index, NEW k \in DOMAIN index,
                        index[j].tick < index[k].tick, j # job.key, k # job.key
                 PROVE  <<Name(j), Name(k)>> \in recent'
      BY <2>1, <2>2 DEF Older, UsedBefore, InFlight
    <3>1. <<Name(j), Name(k)>> \in recent
      BY <1>0, <2>1 DEF Older, UsedBefore, InFlight
    <3>2. Name(j) # Name(job.key) /\ Name(k) # Name(job.key)
      BY NamesDiffer
    <3> QED
      BY <1>0, <1>n, <2>1, <3>1, <3>2, FreshestLast
  <2> QED
    BY <1>0, <2>1, <2>3, <2>4 DEF Aged, Apart
<1>4. CASE PutIndex
  <2> DEFINE q == job.key
             m == [bytes |-> job.bytes, tick |-> tick + 1]
  <2>1. /\ index' = With(index, q, m) /\ tick' = tick + 1
        /\ stage = "renamed" /\ stage' = "evict"
        /\ UNCHANGED <<fp, job, recent>>
    BY <1>4 DEF PutIndex
  <2>2. m.tick = tick + 1
    OBVIOUS
  <2>3. \A j \in DOMAIN index \ {q} : UsedBefore(Name(j), Name(q))
    BY <1>0, <2>1 DEF Newest
  <2>4. \A k : InFlight(k) => k = q
    BY DEF InFlight
  <2>5. \A k : Name(k)' = Name(k)
    BY <2>1 DEF Name
  <2> HIDE DEF q, m
  <2>6. /\ DOMAIN index' = DOMAIN index \cup {q} /\ index'[q].tick = tick + 1
        /\ \A x \in DOMAIN index \ {q} : index'[x] = index[x]
    BY <2>1, <2>2 DEF With
  <2>7. \A x \in DOMAIN index \ {q} : index'[x].tick \in Nat /\ index'[x].tick <= tick
    BY <1>0, <1>n, <2>6
  <2>8. \A x \in DOMAIN index \ {q} : index'[x].tick < index'[q].tick
    BY <1>n, <2>6, <2>7
  <2>9. \A x \in DOMAIN index' : index'[x].tick <= tick'
    BY <1>n, <2>1, <2>6, <2>7
  <2>10. Apart'
    <3> SUFFICES ASSUME NEW j \in DOMAIN index', NEW k \in DOMAIN index', j # k
                 PROVE  index'[j].tick # index'[k].tick
      BY DEF Apart
    <3>1. CASE j = q \/ k = q
      BY <1>n, <2>6, <2>7, <2>8, <3>1
    <3>2. CASE j # q /\ k # q
      BY <1>0, <2>6, <3>2 DEF Apart
    <3> QED
      BY <3>1, <3>2
  <2>11. Older'
    <3> SUFFICES ASSUME NEW j \in DOMAIN index', NEW k \in DOMAIN index',
                        index'[j].tick < index'[k].tick
                 PROVE  UsedBefore(Name(j), Name(k))
      BY <2>1, <2>5 DEF Older, UsedBefore
    <3>1. CASE k = q
      <4>1. j # q
        BY <1>n, <2>6, <3>1
      <4> QED
        BY <2>3, <2>6, <3>1, <4>1
    <3>2. CASE j = q
      <4>1. k # q
        BY <1>n, <2>6, <3>2
      <4>2. index'[k].tick \in Nat /\ index'[k].tick <= tick /\ index'[j].tick = tick + 1
        BY <2>6, <2>7, <3>2, <4>1
      <4> QED
        BY <1>n, <4>2
    <3>3. CASE j # q /\ k # q
      BY <1>0, <2>4, <2>6, <3>3 DEF Older
    <3> QED
      BY <3>1, <3>2, <3>3
  <2> QED
    BY <2>1, <2>9, <2>10, <2>11 DEF Aged, Newest
<1>5. CASE \E k \in Keys : EvictOne(k)
  <2> PICK k \in Keys : EvictOne(k)
    BY <1>5
  <2>1. /\ index' = Without(index, k) /\ stage = "evict"
        /\ UNCHANGED <<fp, tick, stage, job, recent>>
    BY DEF EvictOne
  <2>2. DOMAIN index' \subseteq DOMAIN index /\ \A x \in DOMAIN index' : index'[x] = index[x]
    BY <2>1 DEF Without, Restrict
  <2> QED
    BY <1>0, <2>1, <2>2 DEF Aged, Apart, Older, Newest, InFlight, UsedBefore, Name
<1>6. CASE EvictDone
  BY <1>6, <1>0 DEF EvictDone, Aged, Apart, Older, Newest, InFlight, UsedBefore, Name
<1>7. CASE \E p \in Prompts : Find(p)
  <2> PICK p \in Prompts : Find(p)
    BY <1>7
  <2> DEFINE q == Best(p)
  <2>1. /\ recent' = Freshest(Name(q)) /\ stage = "idle" /\ UNCHANGED <<fp, stage, job>>
    BY DEF Find
  <2>2. /\ tick' = tick + 1 /\ DOMAIN index' = DOMAIN index
        /\ \A j \in DOMAIN index \ {q} : index'[j] = index[j]
        /\ q \in DOMAIN index => index'[q].tick = tick + 1
    BY <1>t, FoundTyped
  <2> HIDE DEF q
  <2>3. \A j \in DOMAIN index \ {q} : index'[j].tick \in Nat /\ index'[j].tick <= tick
    BY <1>0, <1>n, <2>2
  <2>4. \A j \in DOMAIN index' : index'[j].tick <= tick'
    BY <1>n, <2>2, <2>3
  <2>5. Apart'
    <3> SUFFICES ASSUME NEW j \in DOMAIN index, NEW k \in DOMAIN index, j # k
                 PROVE  index'[j].tick # index'[k].tick
      BY <2>2 DEF Apart
    <3>1. CASE j = q
      BY <1>n, <2>2, <2>3, <3>1
    <3>2. CASE k = q
      BY <1>n, <2>2, <2>3, <3>2
    <3>3. CASE j # q /\ k # q
      BY <1>0, <2>2, <3>3 DEF Apart
    <3> QED
      BY <3>1, <3>2, <3>3
  <2>6. Older'
    <3> SUFFICES ASSUME NEW j \in DOMAIN index, NEW k \in DOMAIN index,
                        index'[j].tick < index'[k].tick
                 PROVE  <<Name(j), Name(k)>> \in recent'
      BY <2>1, <2>2 DEF Older, UsedBefore, Name
    <3>1. CASE k = q
      <4>1. j # q
        BY <1>n, <2>2, <3>1
      <4>2. Name(j) # Name(q)
        BY <4>1, NamesDiffer
      <4> QED
        BY <1>0, <1>n, <2>1, <3>1, <4>2, FreshestLast
    <3>2. CASE j = q
      <4>1. k # q
        BY <1>n, <2>2, <3>2
      <4>2. index'[k].tick \in Nat /\ index'[k].tick <= tick /\ index'[j].tick = tick + 1
        BY <2>2, <2>3, <3>2, <4>1
      <4> QED
        BY <1>n, <4>2
    <3>3. CASE j # q /\ k # q
      <4>1. <<Name(j), Name(k)>> \in recent
        BY <1>0, <2>1, <2>2, <3>3 DEF Older, UsedBefore, InFlight
      <4>2. Name(j) # Name(q) /\ Name(k) # Name(q)
        BY <3>3, NamesDiffer
      <4> QED
        BY <1>0, <1>n, <2>1, <4>1, <4>2, FreshestLast
    <3> QED
      BY <3>1, <3>2, <3>3
  <2> QED
    BY <2>1, <2>4, <2>5, <2>6 DEF Aged, Newest
<1>8. CASE Crash
  BY <1>8, <1>n DEF Crash
<1>9. CASE \E f \in Fps, c \in Caps : Open(f, c)
  <2> PICK f \in Fps, c \in Caps : Open(f, c)
    BY <1>9
  <2>1. DOMAIN files = {} /\ stage' = "evict"
    BY <1>0 DEF Open
  <2>2. DOMAIN index' = {}
    <3>1. DOMAIN index' = {n[2] : n \in Scanned(f)}
      BY <1>t, Opened
    <3> QED
      BY <2>1, <3>1 DEF Scanned
  <2> QED
    BY <2>1, <2>2 DEF Aged, Apart, Older, Newest
<1>10. CASE Second
  BY <1>10, <1>0 DEF Second, Aged, Apart, Older, Newest, InFlight, UsedBefore, Name
<1>11. CASE UNCHANGED vars \/ \E p \in Prompts : Miss(p)
  <2>1. UNCHANGED vars
    BY <1>11 DEF Miss
  <2> QED
    BY <1>0, <2>1 DEF vars, Aged, Apart, Older, Newest, InFlight, UsedBefore, Name
<1> QED
  BY <1>1, <1>2, <1>3, <1>4, <1>5, <1>6, <1>7, <1>8, <1>9, <1>10, <1>11
     DEF Next, Put, Evict, Lookup, Start

\* Only an eviction takes an entry out, and it takes the one with the least tick.
LEMMA EvictsLeast ==
  ASSUME Typed, Aged, [Next]_vars, crashes' = 0,
         NEW k \in DOMAIN index \ DOMAIN index', NEW j \in DOMAIN index \ {k}
  PROVE  UsedBefore(Name(k), Name(j))
<1>t. TypeOK
  BY DEF Typed
<1>1. stage = "evict" /\ k \in Victims /\ crashes = 0
  <2>1. CASE \E i \in Keys : EvictOne(i)
    <3> PICK i \in Keys : EvictOne(i)
      BY <2>1
    <3>1. /\ index' = Without(index, i) /\ stage = "evict" /\ i \in Victims
          /\ crashes' = crashes
      BY DEF EvictOne
    <3>2. i = k
      BY <3>1 DEF Without, Restrict
    <3> QED
      BY <3>1, <3>2
  <2>2. CASE Crash
    BY <1>t, <2>2 DEF Crash, TypeOK
  <2>3. CASE PutIndex
    BY <2>3 DEF PutIndex, With
  <2>4. CASE \E p \in Prompts : Find(p)
    BY <1>t, <2>4, FoundTyped
  <2>5. CASE \E f \in Fps, c \in Caps : Open(f, c)
    <3>1. DOMAIN index = {}
      BY <2>5 DEF Open, Aged
    <3> QED
      BY <3>1
  <2>6. CASE index' = index
    BY <2>6
  <2> QED
    BY <2>1, <2>2, <2>3, <2>4, <2>5, <2>6
       DEF Next, vars, Put, PutWrite, WriteFails, PutRename, Evict, EvictDone, Lookup, Miss,
           Start, Second
<1>2. /\ index[k].tick \in Nat /\ index[j].tick \in Nat /\ index[k].tick <= index[j].tick
      /\ index[k].tick # index[j].tick
  BY <1>t, <1>1, IndexSummable DEF Victims, Aged, Apart
<1>3. index[k].tick < index[j].tick
  BY <1>2
<1> QED
  BY <1>1, <1>3 DEF Aged, Older, InFlight

\* Until the process is started again an eviction takes the entry that has
\* gone longest without a put or a hit, whatever was overwritten, found,
\* evicted or failed to be written before.
THEOREM EvictsOldestCorrect == Spec => EvictsOldest
<1>1. Init => Aged
  BY DEF Init, Aged, Apart, Older, Newest, NoFun
<1>2. Typed /\ Aged /\ [Next]_vars =>
        [\A k \in DOMAIN index \ DOMAIN index' : crashes' = 0 =>
           \A j \in DOMAIN index \ {k} : UsedBefore(Name(k), Name(j))]_vars
  BY EvictsLeast
<1> QED
  BY <1>1, <1>2, TypedInit, TypedInductive, AgedInductive, PTL DEF Spec, EvictsOldest

-----------------------------------------------------------------------------
(* Sums of the host store and of the chains.                                *)

\* Finitely many natural numbers.
Tally(f) == IsFiniteSet(DOMAIN f) /\ \A x \in DOMAIN f : f[x] \in Nat

\* One number's share of the sum.
Share(f, x) == {x} \X (1 .. f[x])

\* A share has as many members as its number, and there are finitely many in all.
LEMMA Shares ==
  ASSUME NEW f, Tally(f)
  PROVE  /\ IsFiniteSet(UNION {Share(f, x) : x \in DOMAIN f}) /\ SumOf(f) \in Nat
         /\ \A x \in DOMAIN f : IsFiniteSet(Share(f, x)) /\ Cardinality(Share(f, x)) = f[x]
<1> DEFINE D == DOMAIN f
           P == {Share(f, x) : x \in D}
           g == [x \in D |-> Share(f, x)]
<1>1. ASSUME NEW x \in D
      PROVE  IsFiniteSet(Share(f, x)) /\ Cardinality(Share(f, x)) = f[x]
  <2> DEFINE n == f[x]
  <2>1. n \in Nat
    BY DEF Tally
  <2> HIDE DEF n
  <2>2. IsFiniteSet(1 .. n) /\ Cardinality(1 .. n) = n
    <3>1. 1 \in Int /\ n \in Int
      BY <2>1
    <3>2. IsFiniteSet(1 .. n) /\ Cardinality(1 .. n) = IF 1 > n THEN 0 ELSE n - 1 + 1
      BY <3>1, FS_Interval
    <3> QED
      BY <2>1, <3>2
  <2>3. IsFiniteSet({x}) /\ Cardinality({x}) = 1
    BY FS_Singleton
  <2>4. IsFiniteSet({x} \X (1 .. n)) /\ Cardinality({x} \X (1 .. n)) = 1 * n
    BY <2>2, <2>3, FS_Product, ZenonT(40)
  <2>5. 1 * n = n
    BY <2>1
  <2> QED
    BY <2>4, <2>5 DEF Share, n
<1>2. g \in Surjection(D, P)
  <2>1. g \in [D -> P]
    OBVIOUS
  <2>2. \A t \in P : \E x \in D : g[x] = t
    OBVIOUS
  <2> QED
    BY <2>1, <2>2, Fun_IsSurj
<1>3. IsFiniteSet(D)
  BY DEF Tally
<1> HIDE DEF D, P, g
<1>4. IsFiniteSet(P)
  BY <1>2, <1>3, FS_Surjection
<1>5. IsFiniteSet(UNION P)
  <2>1. \A T \in P : IsFiniteSet(T)
    BY <1>1 DEF P
  <2> QED
    BY <1>4, <2>1, FS_UNION
<1>6. SumOf(f) = Cardinality(UNION P)
  BY DEF SumOf, P, D, Share
<1>7. SumOf(f) \in Nat
  BY <1>5, <1>6, FS_CardinalityType
<1> QED
  BY <1>1, <1>5, <1>7 DEF P, D

\* The sum is one number and the sum of the others.
LEMMA SumSplit ==
  ASSUME NEW f, Tally(f), NEW k \in DOMAIN f, NEW g,
         DOMAIN g = DOMAIN f \ {k}, \A x \in DOMAIN g : g[x] = f[x]
  PROVE  Tally(g) /\ SumOf(g) \in Nat /\ SumOf(f) = SumOf(g) + f[k]
<1> DEFINE A == UNION {Share(f, x) : x \in DOMAIN f}
           B == UNION {Share(g, x) : x \in DOMAIN g}
           C == Share(f, k)
<1>1. Tally(g)
  <2>1. IsFiniteSet(DOMAIN f) /\ DOMAIN g \in SUBSET DOMAIN f
    BY DEF Tally
  <2>2. IsFiniteSet(DOMAIN g)
    BY <2>1, FS_Subset
  <2> QED
    BY <2>2 DEF Tally
<1>2. /\ IsFiniteSet(A) /\ IsFiniteSet(C) /\ Cardinality(C) = f[k] /\ f[k] \in Nat
  BY Shares DEF Tally
<1>3. IsFiniteSet(B) /\ SumOf(g) \in Nat
  BY <1>1, Shares
<1>4. \A x \in DOMAIN g : Share(g, x) = Share(f, x)
  BY DEF Share
<1>5. A = B \cup C
  BY <1>4
<1>6. B \cap C = {}
  <2>1. \A x \in DOMAIN g : Share(g, x) \cap Share(f, k) = {}
    BY DEF Share
  <2> QED
    BY <2>1
<1>7. SumOf(f) = Cardinality(A) /\ SumOf(g) = Cardinality(B)
  BY DEF SumOf, Share
<1> HIDE DEF A, B, C
<1>8. Cardinality(B \cup C) = Cardinality(B) + Cardinality(C) - Cardinality(B \cap C)
  BY <1>2, <1>3, FS_Union
<1>9. Cardinality(B \cap C) = 0
  BY <1>6, FS_EmptySet
<1> QED
  BY <1>1, <1>2, <1>3, <1>5, <1>7, <1>8, <1>9

\* More and greater numbers have a greater sum.
LEMMA SumGrows ==
  ASSUME NEW f, NEW g, Tally(f), Tally(g), DOMAIN f \subseteq DOMAIN g,
         \A x \in DOMAIN f : f[x] <= g[x]
  PROVE  SumOf(f) <= SumOf(g) /\ SumOf(f) \in Nat /\ SumOf(g) \in Nat
<1> DEFINE A == UNION {Share(f, x) : x \in DOMAIN f}
           B == UNION {Share(g, x) : x \in DOMAIN g}
<1>1. IsFiniteSet(A) /\ IsFiniteSet(B) /\ SumOf(f) \in Nat /\ SumOf(g) \in Nat
  BY Shares
<1>2. \A x \in DOMAIN f : Share(f, x) \subseteq Share(g, x)
  BY DEF Tally, Share
<1>3. A \in SUBSET B
  BY <1>2
<1>4. SumOf(f) = Cardinality(A) /\ SumOf(g) = Cardinality(B)
  BY DEF SumOf, Share
<1> HIDE DEF A, B
<1>5. Cardinality(A) <= Cardinality(B)
  BY <1>1, <1>3, FS_Subset
<1> QED
  BY <1>1, <1>4, <1>5

\* Equal numbers, none, and the least a sum can be.
LEMMA SumFacts ==
  ASSUME NEW f, Tally(f)
  PROVE  /\ \A g : DOMAIN g = DOMAIN f /\ (\A x \in DOMAIN f : g[x] = f[x]) => SumOf(g) = SumOf(f) /\ Tally(g)
         /\ DOMAIN f = {} => SumOf(f) = 0
         /\ \A x \in DOMAIN f : f[x] <= SumOf(f)
<1>1. ASSUME NEW g, DOMAIN g = DOMAIN f, \A x \in DOMAIN f : g[x] = f[x]
      PROVE  SumOf(g) = SumOf(f) /\ Tally(g)
  <2>1. {{x} \X (1 .. g[x]) : x \in DOMAIN g} = {{x} \X (1 .. f[x]) : x \in DOMAIN f}
    BY <1>1
  <2> QED
    BY <1>1, <2>1 DEF SumOf, Tally
<1>2. ASSUME DOMAIN f = {} PROVE SumOf(f) = 0
  <2>1. UNION {{x} \X (1 .. f[x]) : x \in DOMAIN f} = {}
    BY <1>2
  <2> QED
    BY <2>1, FS_EmptySet DEF SumOf
<1>3. ASSUME NEW k \in DOMAIN f PROVE f[k] <= SumOf(f)
  <2> DEFINE g == [x \in DOMAIN f \ {k} |-> f[x]]
  <2>1. DOMAIN g = DOMAIN f \ {k} /\ \A x \in DOMAIN g : g[x] = f[x]
    OBVIOUS
  <2> HIDE DEF g
  <2>2. SumOf(g) \in Nat /\ SumOf(f) = SumOf(g) + f[k]
    BY <2>1, SumSplit
  <2> QED
    BY <2>2 DEF Tally
<1> QED
  BY <1>1, <1>2, <1>3

\* The sum goes up with one of the numbers.
LEMMA SumUp ==
  ASSUME NEW f, Tally(f), NEW g, Tally(g), DOMAIN g = DOMAIN f, NEW k \in DOMAIN f,
         \A x \in DOMAIN f \ {k} : g[x] = f[x]
  PROVE  SumOf(g) = SumOf(f) - f[k] + g[k]
<1> DEFINE h == [x \in DOMAIN f \ {k} |-> f[x]]
<1>1. DOMAIN h = DOMAIN f \ {k} /\ \A x \in DOMAIN h : h[x] = f[x]
  OBVIOUS
<1>2. \A x \in DOMAIN h : h[x] = g[x]
  OBVIOUS
<1> HIDE DEF h
<1>3. SumOf(h) \in Nat /\ SumOf(f) = SumOf(h) + f[k] /\ SumOf(g) = SumOf(h) + g[k]
  BY <1>1, <1>2, SumSplit
<1> QED
  BY <1>3 DEF Tally

\* Two numbers are at most the sum.
LEMMA SumOfTwo ==
  ASSUME NEW f, Tally(f), NEW k \in DOMAIN f, NEW j \in DOMAIN f, k # j
  PROVE  f[k] + f[j] <= SumOf(f)
<1> DEFINE h == [x \in DOMAIN f \ {k} |-> f[x]]
<1>1. DOMAIN h = DOMAIN f \ {k} /\ \A x \in DOMAIN h : h[x] = f[x]
  OBVIOUS
<1>2. j \in DOMAIN h /\ h[j] = f[j]
  OBVIOUS
<1> HIDE DEF h
<1>3. Tally(h) /\ SumOf(h) \in Nat /\ SumOf(f) = SumOf(h) + f[k]
  BY <1>1, SumSplit
<1>4. h[j] <= SumOf(h)
  BY <1>2, <1>3, SumFacts
<1> QED
  BY <1>2, <1>3, <1>4 DEF Tally

-----------------------------------------------------------------------------
\* What holds at 0 and goes on from each number to the next holds up to n.
LEMMA UpTo ==
  ASSUME NEW n \in Nat, NEW D, 0 \in D, \A k \in 1 .. n : k - 1 \in D => k \in D
  PROVE  \A k \in 0 .. n : k \in D
<1> DEFINE T == {k \in 0 .. n : k \notin D}
<1>1. SUFFICES ASSUME T # {} PROVE FALSE
  OBVIOUS
<1>2. PICK m \in T : \A k \in T : m <= k
  <2>1. T \in SUBSET Nat
    OBVIOUS
  <2> HIDE DEF T
  <2> QED
    BY <1>1, <2>1, LeastNat
<1>3. m \in 1 .. n /\ m - 1 \in 0 .. n /\ ~(m <= m - 1)
  BY <1>2
<1> QED
  BY <1>2, <1>3

-----------------------------------------------------------------------------
(* Sequences without repeats: the order of use.                             *)

\* No member twice.
Once(q) == \A i, j \in 1 .. Len(q) : q[i] = q[j] => i = j

\* What is left of q after each member.
OnlySteps(f, q, S) ==
  /\ Only(q, S) = f[Len(q)] /\ f[0] = <<>>
  /\ \A i \in 1 .. Len(q) : f[i] = IF q[i] \in S THEN Append(f[i - 1], q[i]) ELSE f[i - 1]

\* Only, member by member.
LEMMA OnlyReads ==
  ASSUME NEW T, NEW q \in Seq(T), NEW S
  PROVE  \E f \in [0 .. Len(q) -> Seq(T)] : OnlySteps(f, q, S)
<1> DEFINE n == Len(q)
           X == Seq(T)
           G == [i \in 1 .. n |-> [s \in X |-> IF q[i] \in S THEN Append(s, q[i]) ELSE s]]
           Go[i \in 0 .. n] ==
             IF i = 0 THEN <<>> ELSE IF q[i] \in S THEN Append(Go[i - 1], q[i]) ELSE Go[i - 1]
<1>1. n \in Nat /\ \A i \in 1 .. n : q[i] \in T
  OBVIOUS
<1>2. Only(q, S) = Go[n]
  BY DEF Only
<1> HIDE DEF n
<1>3. G \in [1 .. n -> [X -> X]] /\ <<>> \in X
  <2>1. ASSUME NEW i \in 1 .. n, NEW s \in X PROVE Append(s, q[i]) \in X
    BY <1>1, AppendProperties
  <2> QED
    BY <2>1
<1>4. PICK f \in [0 .. n -> X] : f[0] = <<>> /\ \A i \in 1 .. n : f[i] = G[i][f[i - 1]]
  <2> DEFINE z == <<>>
  <2>1. G \in [1 .. n -> [X -> X]] /\ z \in X /\ n \in Nat
    BY <1>1, <1>3
  <2> HIDE DEF G, X, z
  <2>2. \E f \in [0 .. n -> X] : f[0] = z /\ \A k \in 1 .. n : f[k] = G[k][f[k - 1]]
    BY <2>1, ChainExists
  <2> QED
    BY <2>2 DEF X, z
<1>5. \A i \in 1 .. n : G[i][f[i - 1]] = IF q[i] \in S THEN Append(f[i - 1], q[i]) ELSE f[i - 1]
  <2> TAKE i \in 1 .. n
  <2>1. i - 1 \in 0 .. n
    BY <1>1
  <2>2. f[i - 1] \in X
    <3> HIDE DEF X
    <3> QED
      BY <1>4, <2>1
  <2> QED
    BY <2>2
<1> HIDE DEF G
<1>6. f = [i \in 0 .. n |-> IF i = 0 THEN <<>> ELSE IF q[i] \in S THEN Append(f[i - 1], q[i]) ELSE f[i - 1]]
  <2>1. ASSUME NEW i \in 0 .. n
        PROVE  f[i] = IF i = 0 THEN <<>> ELSE IF q[i] \in S THEN Append(f[i - 1], q[i]) ELSE f[i - 1]
    <3>1. i = 0 \/ i \in 1 .. n
      BY <1>1
    <3> QED
      BY <1>4, <1>5, <3>1
  <2>2. f = [i \in 0 .. n |-> f[i]]
    BY <1>4
  <2> QED
    BY <2>1, <2>2
<1>7. Go = [i \in 0 .. n |-> IF i = 0 THEN <<>> ELSE IF q[i] \in S THEN Append(Go[i - 1], q[i]) ELSE Go[i - 1]]
  <2>1. \E g : g = [i \in 0 .. n |-> IF i = 0 THEN <<>> ELSE IF q[i] \in S THEN Append(g[i - 1], q[i]) ELSE g[i - 1]]
    BY <1>6
  <2> QED
    BY <2>1 DEF Go
<1> HIDE DEF Go
<1>8. /\ Go[0] = <<>>
      /\ \A i \in 1 .. n : Go[i] = IF q[i] \in S THEN Append(Go[i - 1], q[i]) ELSE Go[i - 1]
  <2>1. 0 \in 0 .. n /\ \A i \in 1 .. n : i \in 0 .. n /\ i # 0
    BY <1>1
  <2> QED
    BY <1>7, <2>1
<1>9. \A i \in 0 .. n : Go[i] \in X
  <2>1. \A i \in 1 .. n : Go[i - 1] \in X => Go[i] \in X
    <3> TAKE i \in 1 .. n
    <3> HAVE Go[i - 1] \in X
    <3>1. Append(Go[i - 1], q[i]) \in X
      BY <1>1, AppendProperties
    <3> QED
      BY <1>8, <3>1
  <2>2. Go[0] \in X
    BY <1>3, <1>8
  <2> HIDE DEF X
  <2> QED
    BY <1>1, <2>1, <2>2, ChainKeeps
<1>10. Go \in [0 .. n -> X]
  <2>1. Go = [i \in 0 .. n |-> Go[i]]
    BY <1>7
  <2> HIDE DEF X
  <2> QED
    BY <1>9, <2>1
<1> QED
  BY <1>2, <1>8, <1>10 DEF n, OnlySteps

\* What is left of a sequence: the members in S, none more often than before.
LEMMA OnlyIs ==
  ASSUME NEW T, NEW q \in Seq(T), NEW S
  PROVE  /\ Only(q, S) \in Seq(T) /\ ToSet(Only(q, S)) = ToSet(q) \cap S
         /\ Once(q) => Once(Only(q, S))
<1> DEFINE n == Len(q)
           Kept(k) == {q[j] : j \in 1 .. k} \cap S
<1>1. n \in Nat /\ n \in 0 .. n /\ \A i \in 1 .. n : q[i] \in T
  OBVIOUS
<1>2. PICK f \in [0 .. n -> Seq(T)] : OnlySteps(f, q, S)
  BY OnlyReads
<1>3. /\ Only(q, S) = f[n] /\ f[0] = <<>>
       /\ \A i \in 1 .. n : f[i] = IF q[i] \in S THEN Append(f[i - 1], q[i]) ELSE f[i - 1]
  BY <1>2 DEF OnlySteps
<1> DEFINE Good(k) == /\ {f[k][j] : j \in 1 .. Len(f[k])} = Kept(k)
                      /\ Once(q) => Once(f[k])
           D == {k \in 0 .. n : Good(k)}
<1>4. 0 \in D
  <2>1. f[0] = <<>> /\ Len(<<>>) = 0 /\ 0 \in 0 .. n
    BY <1>1, <1>3
  <2> QED
    BY <2>1 DEF Once
<1>5. ASSUME NEW k \in 1 .. n, k - 1 \in D PROVE k \in D
  <2> DEFINE s == f[k - 1]
             x == q[k]
             m == Len(s)
  <2>1. k - 1 \in 0 .. n /\ k \in 0 .. n /\ k \in 1 .. k
    BY <1>1
  <2>2. s \in Seq(T) /\ x \in T /\ m \in Nat
    BY <1>1, <1>2, <2>1
  <2>3. {s[j] : j \in 1 .. m} = Kept(k - 1) /\ (Once(q) => Once(s))
    BY <1>5
  <2>4. Kept(k) = IF x \in S THEN Kept(k - 1) \cup {x} ELSE Kept(k - 1)
    <3>1. 1 .. k = (1 .. k - 1) \cup {k}
      BY <2>1
    <3> QED
      BY <3>1
  <2>5. CASE x \notin S
    <3>1. f[k] = s
      BY <1>3, <2>5
    <3> QED
      BY <2>1, <2>3, <2>4, <2>5, <3>1
  <2>6. CASE x \in S
    <3> DEFINE t == Append(s, x)
    <3>1. f[k] = t
      BY <1>3, <2>6
    <3>2. Len(t) = m + 1 /\ t[m + 1] = x /\ \A j \in 1 .. m : t[j] = s[j]
      BY <2>2, AppendProperties
    <3>3. 1 .. m + 1 = (1 .. m) \cup {m + 1}
      BY <2>2
    <3> HIDE DEF t, s, m
    <3>4. {t[j] : j \in 1 .. m + 1} = {s[j] : j \in 1 .. m} \cup {x}
      BY <3>2, <3>3
    <3>5. Once(q) => Once(t)
      <4> SUFFICES ASSUME Once(q), NEW i \in 1 .. m + 1, NEW j \in 1 .. m + 1, t[i] = t[j] PROVE i = j
        BY <3>2 DEF Once
      <4>1. \A l \in 1 .. m : s[l] # x
        <5> SUFFICES ASSUME NEW l \in 1 .. m, s[l] = x PROVE FALSE
          OBVIOUS
        <5>1. x \in Kept(k - 1)
          BY <2>3
        <5>2. PICK h \in 1 .. k - 1 : q[h] = x
          BY <5>1
        <5>3. h \in 1 .. n /\ h # k
          BY <1>1, <5>2
        <5> QED
          BY <5>2, <5>3 DEF Once
      <4>2. (i \in 1 .. m \/ i = m + 1) /\ (j \in 1 .. m \/ j = m + 1)
        BY <3>3
      <4>3. Once(s)
        BY <2>3
      <4> QED
        BY <3>2, <4>1, <4>2, <4>3 DEF Once, m
    <3>6. {f[k][j] : j \in 1 .. Len(f[k])} = Kept(k)
      <4>1. {t[j] : j \in 1 .. Len(t)} = Kept(k)
        BY <2>3, <2>4, <2>6, <3>2, <3>4 DEF m
      <4> QED
        BY <3>1, <4>1
    <3> QED
      BY <2>1, <3>1, <3>5, <3>6
  <2> QED
    BY <2>5, <2>6
<1> HIDE DEF D, Good
<1>6. n \in D
  BY <1>1, <1>4, <1>5, UpTo
<1>7. Good(n)
  BY <1>6 DEF D
<1>8. f[n] \in Seq(T)
  BY <1>1, <1>2
<1>9. {q[j] : j \in 1 .. n} = ToSet(q) /\ \A t \in Seq(T) : {t[j] : j \in 1 .. Len(t)} = ToSet(t)
  BY DEF ToSet
<1> QED
  BY <1>3, <1>7, <1>8, <1>9 DEF Good

\* A member taken out.
LEMMA RemovedIs ==
  ASSUME NEW T, NEW q \in Seq(T), NEW x
  PROVE  /\ Removed(q, x) \in Seq(T) /\ ToSet(Removed(q, x)) = ToSet(q) \ {x}
         /\ Once(q) => Once(Removed(q, x))
<1>1. ToSet(q) \cap (ToSet(q) \ {x}) = ToSet(q) \ {x}
  OBVIOUS
<1> QED
  BY <1>1, OnlyIs DEF Removed

\* A member moved to the end.
LEMMA MovedIs ==
  ASSUME NEW T, NEW q \in Seq(T), NEW x \in T
  PROVE  /\ MovedToEnd(q, x) \in Seq(T) /\ ToSet(MovedToEnd(q, x)) = ToSet(q) \cup {x}
         /\ Once(q) => Once(MovedToEnd(q, x))
<1> DEFINE s == Removed(q, x)
           t == Append(s, x)
           m == Len(s)
<1>1. s \in Seq(T) /\ ToSet(s) = ToSet(q) \ {x} /\ (Once(q) => Once(s))
  BY RemovedIs
<1>2. MovedToEnd(q, x) = t
  BY DEF MovedToEnd
<1> HIDE DEF s
<1>3. m \in Nat /\ t \in Seq(T) /\ Len(t) = m + 1 /\ t[m + 1] = x /\ \A j \in 1 .. m : t[j] = s[j]
  BY <1>1, AppendProperties
<1>4. 1 .. m + 1 = (1 .. m) \cup {m + 1}
  BY <1>3
<1>5. ToSet(s) = {s[j] : j \in 1 .. m} /\ ToSet(t) = {t[j] : j \in 1 .. m + 1}
  BY <1>1, <1>3 DEF ToSet
<1> HIDE DEF t
<1>6. ToSet(t) = ToSet(s) \cup {x}
  BY <1>3, <1>4, <1>5
<1>7. Once(q) => Once(t)
  <2> SUFFICES ASSUME Once(q), NEW i \in 1 .. m + 1, NEW j \in 1 .. m + 1, t[i] = t[j] PROVE i = j
    BY <1>3 DEF Once
  <2>1. \A l \in 1 .. m : s[l] # x
    BY <1>1, <1>5
  <2>2. (i \in 1 .. m \/ i = m + 1) /\ (j \in 1 .. m \/ j = m + 1)
    BY <1>4
  <2>3. \A a, b \in 1 .. m : s[a] = s[b] => a = b
    BY <1>1 DEF Once
  <2> QED
    BY <1>3, <2>1, <2>2, <2>3
<1> QED
  BY <1>1, <1>2, <1>3, <1>6, <1>7

\* A sequence without repeats is as long as the set of its members is large.
LEMMA OnceCounts ==
  ASSUME NEW T, NEW q \in Seq(T), Once(q)
  PROVE  IsFiniteSet(ToSet(q)) /\ Cardinality(ToSet(q)) = Len(q)
<1> DEFINE n == Len(q)
<1>1. n \in Nat /\ q \in [1 .. n -> ToSet(q)] /\ ToSet(q) = {q[i] : i \in 1 .. n}
  BY DEF ToSet
<1>2. IsFiniteSet(1 .. n) /\ Cardinality(1 .. n) = n
  <2> HIDE DEF n
  <2>1. 1 \in Int /\ n \in Int
    BY <1>1
  <2>2. IsFiniteSet(1 .. n) /\ Cardinality(1 .. n) = IF 1 > n THEN 0 ELSE n - 1 + 1
    BY <2>1, FS_Interval
  <2> QED
    BY <1>1, <2>2
<1>3. q \in Bijection(1 .. n, ToSet(q))
  <2>1. \A i, j \in 1 .. n : q[i] = q[j] => i = j
    BY DEF Once
  <2>2. \A x \in ToSet(q) : \E i \in 1 .. n : q[i] = x
    BY <1>1
  <2>3. q \in Injection(1 .. n, ToSet(q)) /\ q \in Surjection(1 .. n, ToSet(q))
    BY <1>1, <2>1, <2>2, Fun_IsInj, Fun_IsSurj
  <2> QED
    BY <2>3 DEF Bijection
<1>4. ExistsBijection(1 .. n, ToSet(q))
  BY <1>3 DEF ExistsBijection
<1> HIDE DEF n
<1> QED
  BY <1>2, <1>4, FS_Bijection DEF n

-----------------------------------------------------------------------------
(* The host store, one entry at a time.                                     *)

Dumps == [bytes : Nat \ {0}, demand : BOOLEAN, refs : Nat]
Heads == Seq(Nat)
Finite(S) == {E \in SUBSET S : IsFiniteSet(E)}
Weights(es) == [k \in DOMAIN es |-> es[k].bytes]

\* The store counts its bytes and has each key once in its order of use.
Stores ==
  {st \in [entries : UNION {[D -> Dumps] : D \in Finite(Heads)}, lru : Seq(Heads), total : Nat] :
     st.total = SumOf(Weights(st.entries)) /\ Once(st.lru) /\ ToSet(st.lru) = DOMAIN st.entries}

\* The parts of a store.
LEMMA StoreIs ==
  ASSUME NEW st \in Stores
  PROVE  /\ st = [entries |-> st.entries, lru |-> st.lru, total |-> st.total]
         /\ IsFiniteSet(DOMAIN st.entries) /\ DOMAIN st.entries \subseteq Heads
         /\ Cardinality(DOMAIN st.entries) \in Nat
         /\ st.entries \in [DOMAIN st.entries -> Dumps] /\ Tally(Weights(st.entries))
         /\ st.lru \in Seq(Heads) /\ Once(st.lru) /\ ToSet(st.lru) = DOMAIN st.entries
         /\ st.total \in Nat /\ st.total = SumOf(Weights(st.entries))
<1>1. /\ st \in [entries : UNION {[D -> Dumps] : D \in Finite(Heads)}, lru : Seq(Heads), total : Nat]
      /\ st.total = SumOf(Weights(st.entries)) /\ Once(st.lru) /\ ToSet(st.lru) = DOMAIN st.entries
  BY DEF Stores
<1>2. PICK D \in Finite(Heads) : st.entries \in [D -> Dumps]
  BY <1>1
<1>3. IsFiniteSet(D) /\ D \subseteq Heads /\ DOMAIN st.entries = D
  BY <1>2 DEF Finite
<1>4. Tally(Weights(st.entries))
  BY <1>2, <1>3 DEF Tally, Weights, Dumps
<1>5. Cardinality(D) \in Nat
  BY <1>3, FS_CardinalityType
<1> QED
  BY <1>1, <1>2, <1>3, <1>4, <1>5

\* What makes a store.
LEMMA StoreMade ==
  ASSUME NEW D, IsFiniteSet(D), D \subseteq Heads, NEW es \in [D -> Dumps],
         NEW q \in Seq(Heads), Once(q), ToSet(q) = D, NEW t \in Nat, t = SumOf(Weights(es))
  PROVE  [entries |-> es, lru |-> q, total |-> t] \in Stores
<1>1. D \in Finite(Heads)
  BY DEF Finite
<1>2. es \in UNION {[E -> Dumps] : E \in Finite(Heads)} /\ DOMAIN es = D
  BY <1>1
<1> QED
  BY <1>2 DEF Stores

\* Of finitely many keys one is as long as any.
LEMMA LongestIs ==
  ASSUME NEW S, IsFiniteSet(S), S \subseteq Heads, S # {}
  PROVE  \E k \in S : \A l \in S : Len(l) <= Len(k)
<1> DEFINE f == [k \in S |-> Len(k)]
           b == SumOf(f)
           T == {b - Len(k) : k \in S}
<1>1. Tally(f)
  BY DEF Tally, Heads
<1>2. b \in Nat
  BY <1>1, Shares
<1>3. \A k \in S : f[k] <= b
  <2> HIDE DEF f
  <2>1. \A k \in DOMAIN f : f[k] <= b
    BY <1>1, SumFacts
  <2> QED
    BY <2>1 DEF f
<1>4. \A k \in S : Len(k) \in Nat /\ Len(k) <= b
  BY <1>3 DEF Heads
<1> HIDE DEF b
<1>5. T \in SUBSET Nat /\ T # {}
  BY <1>2, <1>4
<1>6. PICK m \in T : \A j \in T : m <= j
  <2> HIDE DEF T
  <2> QED
    BY <1>5, LeastNat
<1>7. PICK k \in S : m = b - Len(k)
  BY <1>6
<1>8. ASSUME NEW l \in S PROVE Len(l) <= Len(k)
  <2>1. b - Len(l) \in T
    OBVIOUS
  <2>2. b - Len(k) <= b - Len(l)
    BY <1>6, <1>7, <2>1
  <2> QED
    BY <1>2, <1>4, <2>2
<1> QED
  BY <1>8

\* The victim is one of the keys (pick_longest_victim).
LEMMA VictimIs ==
  ASSUME NEW st \in Stores, NEW keys, keys \subseteq DOMAIN st.entries, keys # {}
  PROVE  Victim(st, keys) \in keys
<1> DEFINE unreferenced == Prefer(keys, {k \in keys : st.entries[k].refs = 0})
           plain == Prefer(unreferenced, {k \in keys : ~st.entries[k].demand})
           longest == {k \in plain : \A l \in plain : Len(l) <= Len(k)}
           q == st.lru
           P == {i \in DOMAIN q : q[i] \in longest}
<1>1. unreferenced \subseteq keys /\ unreferenced # {}
  BY DEF Prefer
<1> HIDE DEF unreferenced
<1>2. plain \subseteq keys /\ plain # {}
  BY <1>1 DEF Prefer
<1> HIDE DEF plain
<1>3. IsFiniteSet(plain) /\ plain \subseteq Heads
  <2>1. IsFiniteSet(DOMAIN st.entries) /\ DOMAIN st.entries \subseteq Heads
    BY StoreIs
  <2>2. plain \in SUBSET DOMAIN st.entries
    BY <1>2
  <2> QED
    BY <2>1, <2>2, FS_Subset
<1>4. longest # {} /\ longest \subseteq plain
  BY <1>2, <1>3, LongestIs
<1> HIDE DEF longest
<1>5. q \in Seq(Heads) /\ ToSet(q) = DOMAIN st.entries
  BY StoreIs
<1>6. DOMAIN q = 1 .. Len(q) /\ Len(q) \in Nat
  BY <1>5
<1>7. P \in SUBSET Nat
  BY <1>6
<1>8. P # {}
  <2>1. PICK k \in longest : TRUE
    BY <1>4
  <2>2. k \in ToSet(q)
    BY <1>2, <1>4, <1>5
  <2>3. PICK i \in DOMAIN q : q[i] = k
    BY <2>2 DEF ToSet
  <2> QED
    BY <2>3
<1>9. Victim(st, keys) = q[Min(P)]
  BY DEF Victim, unreferenced, plain, longest
<1>10. Min(P) \in P
  <2> HIDE DEF P
  <2> QED
    BY <1>7, <1>8, MinPicks
<1> QED
  BY <1>2, <1>4, <1>9, <1>10

\* An entry removed (remove_entry).
LEMMA RemoveIs ==
  ASSUME NEW st \in Stores, NEW key \in DOMAIN st.entries
  PROVE  /\ RemoveEntry(st, key) \in Stores
         /\ RemoveEntry(st, key).entries = Minus(st.entries, {key})
         /\ DOMAIN RemoveEntry(st, key).entries = DOMAIN st.entries \ {key}
         /\ \A k \in DOMAIN st.entries \ {key} : RemoveEntry(st, key).entries[k] = st.entries[k]
         /\ RemoveEntry(st, key).total <= st.total
         /\ Cardinality(DOMAIN RemoveEntry(st, key).entries) = Cardinality(DOMAIN st.entries) - 1
<1> DEFINE es == st.entries
           D == DOMAIN es
           gs == Minus(es, {key})
           q == Removed(st.lru, key)
           t == st.total - es[key].bytes
<1>1. /\ IsFiniteSet(D) /\ D \subseteq Heads /\ es \in [D -> Dumps] /\ Tally(Weights(es))
      /\ st.lru \in Seq(Heads) /\ Once(st.lru) /\ ToSet(st.lru) = D
      /\ st.total \in Nat /\ st.total = SumOf(Weights(es))
  BY StoreIs
<1>2. IsFiniteSet(D \ {key}) /\ Cardinality(D \ {key}) = Cardinality(D) - 1
  BY <1>1, FS_RemoveElement
<1>3. DOMAIN gs = D \ {key} /\ \A k \in D \ {key} : gs[k] = es[k]
  BY DEF Minus
<1>4. gs \in [D \ {key} -> Dumps]
  BY <1>1 DEF Minus
<1>5. q \in Seq(Heads) /\ Once(q) /\ ToSet(q) = D \ {key}
  BY <1>1, RemovedIs
<1>6. t \in Nat /\ t = SumOf(Weights(gs)) /\ t <= st.total
  <2> DEFINE f == Weights(es)
             g == Weights(gs)
  <2>1. key \in DOMAIN f /\ DOMAIN g = DOMAIN f \ {key} /\ \A x \in DOMAIN g : g[x] = f[x]
    BY <1>3 DEF Weights
  <2>2. Tally(f) /\ f[key] = es[key].bytes /\ f[key] \in Nat
    BY <1>1, <2>1 DEF Weights, Tally
  <2> HIDE DEF f, g
  <2>3. SumOf(g) \in Nat /\ SumOf(f) = SumOf(g) + f[key]
    BY <2>1, <2>2, SumSplit
  <2>4. SumOf(f) = st.total
    BY <1>1 DEF f
  <2>5. t = st.total - f[key]
    BY <2>2
  <2>6. t = SumOf(g)
    BY <2>2, <2>3, <2>4, <2>5
  <2> QED
    BY <1>1, <2>2, <2>3, <2>5, <2>6 DEF g
<1>7. RemoveEntry(st, key) = [entries |-> gs, lru |-> q, total |-> t]
  BY DEF RemoveEntry
<1> HIDE DEF es, gs, q, t, D
<1>8. [entries |-> gs, lru |-> q, total |-> t] \in Stores
  <2>1. D \ {key} \subseteq Heads
    BY <1>1
  <2> QED
    BY <1>2, <1>4, <1>5, <1>6, <2>1, StoreMade
<1>9. RemoveEntry(st, key).entries = gs /\ RemoveEntry(st, key).total = t
  BY <1>7
<1>10. D = DOMAIN st.entries /\ gs = Minus(st.entries, {key}) /\ es = st.entries
  BY DEF es, gs, D
<1> QED
  BY <1>2, <1>3, <1>6, <1>7, <1>8, <1>9, <1>10

-----------------------------------------------------------------------------
(* The loops that evict.                                                    *)

\* Few and small enough, or nothing but what is spared.
Fits(st, most, bytes) == st.total <= bytes /\ Cardinality(DOMAIN st.entries) <= most
Spent(st, spare) == \A k \in DOMAIN st.entries : Len(k) \in spare

\* t is what is left of st.
Less(t, st) ==
  /\ t \in Stores /\ t.total <= st.total
  /\ DOMAIN t.entries \subseteq DOMAIN st.entries
  /\ Cardinality(DOMAIN t.entries) <= Cardinality(DOMAIN st.entries)
  /\ \A k \in DOMAIN t.entries : t.entries[k] = st.entries[k]

\* One turn of the loops that evict.
Turn(now, most, bytes, spare) ==
  LET keys == {k \in DOMAIN now.entries : Len(k) \notin spare}
  IN  IF (now.total <= bytes /\ Cardinality(DOMAIN now.entries) <= most) \/ keys = {}
      THEN now ELSE RemoveEntry(now, Victim(now, keys))

\* A turn leaves a store as it is or takes one of its entries out.
LEMMA TurnIs ==
  ASSUME NEW now \in Stores, NEW most, NEW bytes, NEW spare
  PROVE  LET t == Turn(now, most, bytes, spare)
         IN  /\ Less(t, now)
             /\ \/ t = now /\ (Fits(now, most, bytes) \/ Spent(now, spare))
                \/ Cardinality(DOMAIN t.entries) = Cardinality(DOMAIN now.entries) - 1
<1> DEFINE keys == {k \in DOMAIN now.entries : Len(k) \notin spare}
           t == Turn(now, most, bytes, spare)
<1>1. Cardinality(DOMAIN now.entries) \in Nat /\ now.total \in Nat
  BY StoreIs
<1>2. CASE Fits(now, most, bytes) \/ keys = {}
  <2>1. t = now
    BY <1>2 DEF Turn, Fits
  <2>2. keys = {} => Spent(now, spare)
    BY DEF Spent
  <2> QED
    BY <1>1, <1>2, <2>1, <2>2 DEF Less
<1>3. CASE ~Fits(now, most, bytes) /\ keys # {}
  <2> DEFINE v == Victim(now, keys)
  <2>1. v \in keys /\ t = RemoveEntry(now, v)
    BY <1>3, VictimIs DEF Turn, Fits
  <2>2. v \in DOMAIN now.entries
    BY <2>1
  <2> HIDE DEF v
  <2>3. /\ t \in Stores /\ t.total <= now.total
        /\ DOMAIN t.entries = DOMAIN now.entries \ {v}
        /\ \A k \in DOMAIN now.entries \ {v} : t.entries[k] = now.entries[k]
        /\ Cardinality(DOMAIN t.entries) = Cardinality(DOMAIN now.entries) - 1
    <3> HIDE DEF t
    <3> QED
      BY <2>1, <2>2, RemoveIs
  <2> HIDE DEF t
  <2>4. Cardinality(DOMAIN t.entries) <= Cardinality(DOMAIN now.entries)
    BY <1>1, <2>3
  <2>5. Less(t, now)
    BY <2>3, <2>4 DEF Less
  <2> QED
    BY <2>3, <2>5 DEF t
<1> QED
  BY <1>2, <1>3

\* What is left of what is left.
LEMMA LessOfLess ==
  ASSUME NEW a, NEW b, NEW c, a \in Stores, b \in Stores, c \in Stores, Less(a, b), Less(b, c)
  PROVE  Less(a, c)
<1>1. \A s \in {a, b, c} : s.total \in Nat /\ Cardinality(DOMAIN s.entries) \in Nat
  BY StoreIs
<1> QED
  BY <1>1 DEF Less

\* The loops end where it fits or nothing else may go (evict_if_over_cap,
\* evict_global_over_cap).
LEMMA EvictedIs ==
  ASSUME NEW st \in Stores, NEW most, NEW bytes, NEW spare
  PROVE  LET t == Evicted(st, most, bytes, spare)
         IN  Less(t, st) /\ (Fits(t, most, bytes) \/ Spent(t, spare))
<1> DEFINE n == Cardinality(DOMAIN st.entries)
           X == Stores
           Step(now) == Turn(now, most, bytes, spare)
           G == [i \in 1 .. n |-> [now \in X |-> Step(now)]]
           Go[i \in 0 .. n] == IF i = 0 THEN st ELSE Step(Go[i - 1])
<1>1. n \in Nat /\ n \in 0 .. n
  BY StoreIs
<1>2. Evicted(st, most, bytes, spare) = Go[n]
  BY DEF Evicted, Turn
<1>3. \A now \in X : Step(now) \in X
  BY TurnIs DEF Less
<1> HIDE DEF n, X, Step
<1>4. Go = [i \in 0 .. n |-> IF i = 0 THEN st ELSE Step(Go[i - 1])]
  <2>1. G \in [1 .. n -> [X -> X]] /\ st \in X
    BY <1>3 DEF X
  <2>2. PICK f \in [0 .. n -> X] : f[0] = st /\ \A i \in 1 .. n : f[i] = G[i][f[i - 1]]
    <3> DEFINE z == st
    <3>1. z \in X /\ n \in Nat /\ G \in [1 .. n -> [X -> X]]
      BY <1>1, <2>1
    <3> HIDE DEF G, z
    <3>2. \E f \in [0 .. n -> X] : f[0] = z /\ \A k \in 1 .. n : f[k] = G[k][f[k - 1]]
      BY <3>1, ChainExists
    <3> QED
      BY <3>2 DEF z
  <2>3. ASSUME NEW i \in 1 .. n PROVE f[i] = Step(f[i - 1])
    <3>1. i - 1 \in 0 .. n
      BY <1>1
    <3>2. f[i - 1] \in X
      BY <2>2, <3>1
    <3> QED
      BY <2>2, <3>2
  <2>4. f = [i \in 0 .. n |-> IF i = 0 THEN st ELSE Step(f[i - 1])]
    <3>1. ASSUME NEW i \in 0 .. n PROVE f[i] = IF i = 0 THEN st ELSE Step(f[i - 1])
      <4>1. i = 0 \/ i \in 1 .. n
        BY <1>1
      <4> QED
        BY <2>2, <2>3, <4>1
    <3>2. f = [i \in 0 .. n |-> f[i]]
      BY <2>2
    <3> QED
      BY <3>1, <3>2
  <2>5. \E g : g = [i \in 0 .. n |-> IF i = 0 THEN st ELSE Step(g[i - 1])]
    BY <2>4
  <2> QED
    BY <2>5 DEF Go
<1> HIDE DEF Go
<1>5. Go[0] = st /\ \A i \in 1 .. n : Go[i] = Step(Go[i - 1])
  <2>1. 0 \in 0 .. n /\ \A i \in 1 .. n : i \in 0 .. n /\ i # 0
    BY <1>1
  <2> QED
    BY <1>4, <2>1
<1> DEFINE Good(i) == /\ Less(Go[i], st)
                      /\ \/ Fits(Go[i], most, bytes) \/ Spent(Go[i], spare)
                         \/ Cardinality(DOMAIN Go[i].entries) <= n - i
           D == {i \in 0 .. n : Good(i)}
<1>6. 0 \in D
  <2>1. st.total \in Nat
    BY StoreIs
  <2>2. Less(st, st)
    BY <1>1, <2>1 DEF Less, n
  <2>3. Cardinality(DOMAIN st.entries) <= n - 0
    BY <1>1 DEF n
  <2>4. 0 \in 0 .. n
    BY <1>1
  <2> QED
    BY <1>5, <2>2, <2>3, <2>4
<1>7. ASSUME NEW k \in 1 .. n, k - 1 \in D PROVE k \in D
  <2> DEFINE now == Go[k - 1]
             t == Go[k]
  <2>1. t = Step(now) /\ k \in 0 .. n
    BY <1>5
  <2>2. Good(k - 1)
    BY <1>7
  <2>3. now \in Stores /\ Less(now, st)
    BY <2>2 DEF Less
  <2> HIDE DEF now, t
  <2>4. /\ Less(t, now)
        /\ \/ t = now /\ (Fits(now, most, bytes) \/ Spent(now, spare))
           \/ Cardinality(DOMAIN t.entries) = Cardinality(DOMAIN now.entries) - 1
    BY <2>1, <2>3, TurnIs DEF Step
  <2>5. Less(t, st)
    BY <2>3, <2>4, LessOfLess DEF Less
  <2>6. Cardinality(DOMAIN now.entries) \in Nat /\ now.total \in Nat
    BY <2>3, StoreIs
  <2>7. CASE t = now /\ (Fits(now, most, bytes) \/ Spent(now, spare))
    BY <2>1, <2>5, <2>7 DEF t
  <2>8. CASE Cardinality(DOMAIN t.entries) = Cardinality(DOMAIN now.entries) - 1
    <3>1. \/ Fits(now, most, bytes) \/ Spent(now, spare)
          \/ Cardinality(DOMAIN now.entries) <= n - (k - 1)
      BY <2>2 DEF now
    <3>2. Fits(now, most, bytes) \/ Spent(now, spare) => t = now
      BY <2>1 DEF Step, Turn, Fits, Spent
    <3>3. t # now
      BY <2>6, <2>8
    <3>4. Cardinality(DOMAIN t.entries) <= n - k
      BY <1>1, <2>6, <2>8, <3>1, <3>2, <3>3
    <3> QED
      BY <2>1, <2>5, <3>4 DEF t
  <2> QED
    BY <2>4, <2>7, <2>8
<1> HIDE DEF D, Good
<1>8. n \in D
  BY <1>1, <1>6, <1>7, UpTo
<1>9. Less(Go[n], st) /\ (Fits(Go[n], most, bytes) \/ Spent(Go[n], spare) \/ Cardinality(DOMAIN Go[n].entries) <= 0)
  <2>1. n - n = 0
    BY <1>1
  <2> QED
    BY <1>8, <2>1 DEF D, Good
<1>10. Cardinality(DOMAIN Go[n].entries) <= 0 => Spent(Go[n], spare)
  <2>1. Go[n] \in Stores
    BY <1>9 DEF Less
  <2>2. IsFiniteSet(DOMAIN Go[n].entries) /\ Cardinality(DOMAIN Go[n].entries) \in Nat
    BY <2>1, StoreIs
  <2>3. Cardinality(DOMAIN Go[n].entries) <= 0 => DOMAIN Go[n].entries = {}
    BY <2>2, FS_EmptySet
  <2> QED
    BY <2>3 DEF Spent
<1> QED
  BY <1>2, <1>9, <1>10

-----------------------------------------------------------------------------
(* The chains of anchors.                                                   *)

\* Anchors by their lengths, and the chains of all slots.
Anchors == UNION {[D -> Nat \ {0}] : D \in Finite(Nat)}
Chains == [HostSlots -> Anchors]

\* The parts of a chain.
LEMMA AnchorsAre ==
  ASSUME NEW a \in Anchors
  PROVE  /\ a \in [DOMAIN a -> Nat \ {0}] /\ IsFiniteSet(DOMAIN a) /\ DOMAIN a \subseteq Nat
         /\ Cardinality(DOMAIN a) \in Nat /\ Tally(a) /\ SumOf(a) \in Nat
         /\ Droppable(a) \subseteq DOMAIN a /\ (SumOf(a) <= 0 => Droppable(a) = {})
<1>1. PICK D \in Finite(Nat) : a \in [D -> Nat \ {0}]
  BY DEF Anchors
<1>2. D = DOMAIN a /\ IsFiniteSet(D) /\ D \subseteq Nat
  BY <1>1 DEF Finite
<1>3. Tally(a)
  BY <1>1, <1>2 DEF Tally
<1>4. Cardinality(D) \in Nat /\ SumOf(a) \in Nat
  BY <1>2, <1>3, FS_CardinalityType, Shares
<1>5. Droppable(a) \subseteq DOMAIN a
  BY DEF Droppable
<1>6. ASSUME SumOf(a) <= 0 PROVE Droppable(a) = {}
  <2>1. \A x \in DOMAIN a : a[x] <= SumOf(a)
    BY <1>3, SumFacts
  <2>2. \A x \in DOMAIN a : FALSE
    BY <1>1, <1>2, <1>4, <1>6, <2>1
  <2> QED
    BY <1>5, <2>2
<1> QED
  BY <1>1, <1>2, <1>3, <1>4, <1>5, <1>6

\* An anchor dropped.
LEMMA DropIs ==
  ASSUME NEW a \in Anchors, NEW S
  PROVE  /\ Minus(a, S) \in Anchors /\ DOMAIN Minus(a, S) = DOMAIN a \ S
         /\ \A x \in DOMAIN a \ S : Minus(a, S)[x] = a[x]
         /\ SumOf(Minus(a, S)) <= SumOf(a)
<1> DEFINE g == Minus(a, S)
<1>1. a \in [DOMAIN a -> Nat \ {0}] /\ IsFiniteSet(DOMAIN a) /\ DOMAIN a \subseteq Nat /\ Tally(a)
  BY AnchorsAre
<1>2. DOMAIN g = DOMAIN a \ S /\ \A x \in DOMAIN a \ S : g[x] = a[x]
  BY DEF Minus
<1>3. g \in [DOMAIN a \ S -> Nat \ {0}]
  BY <1>1 DEF Minus
<1> HIDE DEF g
<1>4. IsFiniteSet(DOMAIN a \ S)
  <2>1. DOMAIN a \ S \in SUBSET DOMAIN a
    OBVIOUS
  <2> QED
    BY <1>1, <2>1, FS_Subset
<1>5. DOMAIN a \ S \in Finite(Nat)
  BY <1>1, <1>4 DEF Finite
<1>6. g \in Anchors
  BY <1>3, <1>5 DEF Anchors
<1>7. Tally(g)
  BY <1>6, AnchorsAre
<1>8. SumOf(g) <= SumOf(a)
  <2>1. DOMAIN g \subseteq DOMAIN a /\ \A x \in DOMAIN g : g[x] <= a[x]
    BY <1>1, <1>2, <1>3
  <2> QED
    BY <1>1, <1>7, <2>1, SumGrows
<1> QED
  BY <1>2, <1>6, <1>8 DEF g

\* An anchor added or replaced.
LEMMA PlusIs ==
  ASSUME NEW a \in Anchors, NEW x \in Nat, NEW bytes \in Nat \ {0}
  PROVE  Plus(a, x, bytes) \in Anchors
<1>1. a \in [DOMAIN a -> Nat \ {0}] /\ IsFiniteSet(DOMAIN a) /\ DOMAIN a \subseteq Nat
  BY AnchorsAre
<1>2. IsFiniteSet(DOMAIN a \cup {x})
  BY <1>1, FS_AddElement
<1>3. DOMAIN a \cup {x} \in Finite(Nat)
  BY <1>1, <1>2 DEF Finite
<1>4. Plus(a, x, bytes) \in [DOMAIN a \cup {x} -> Nat \ {0}]
  BY <1>1 DEF Plus
<1> QED
  BY <1>3, <1>4 DEF Anchors

\* What is left of a chain that is trimmed: within its limits, or nothing that
\* may be dropped (trim_prefix_chain).
LEMMA TrimIs ==
  ASSUME NEW a \in Anchors, NEW maxN, NEW maxBytes
  PROVE  LET t == TrimChain(a, maxN, maxBytes)
         IN  /\ t \in Anchors /\ SumOf(t) <= SumOf(a)
             /\ Droppable(t) = {} \/ (Cardinality(DOMAIN t) <= maxN /\ SumOf(t) <= maxBytes)
<1> DEFINE n == Cardinality(DOMAIN a)
           X == Anchors
           Done(now) == Cardinality(DOMAIN now) <= maxN /\ SumOf(now) <= maxBytes
           Step(now) == IF Done(now) \/ Droppable(now) = {} THEN now
                        ELSE Minus(now, {Min(Droppable(now))})
           G == [i \in 1 .. n |-> [now \in X |-> Step(now)]]
           Go[i \in 0 .. n] == IF i = 0 THEN a ELSE Step(Go[i - 1])
<1>1. n \in Nat /\ n \in 0 .. n
  BY AnchorsAre
<1>2. TrimChain(a, maxN, maxBytes) = Go[n]
  BY DEF TrimChain
<1>3. ASSUME NEW now \in X
      PROVE  /\ Step(now) \in X /\ SumOf(Step(now)) <= SumOf(now)
             /\ \/ Step(now) = now /\ (Done(now) \/ Droppable(now) = {})
                \/ Cardinality(DOMAIN Step(now)) = Cardinality(DOMAIN now) - 1
  <2>1. /\ DOMAIN now \subseteq Nat /\ Droppable(now) \subseteq DOMAIN now /\ SumOf(now) \in Nat
        /\ IsFiniteSet(DOMAIN now)
    BY AnchorsAre
  <2>2. CASE Done(now) \/ Droppable(now) = {}
    BY <2>1, <2>2
  <2>3. CASE ~Done(now) /\ Droppable(now) # {}
    <3> DEFINE x == Min(Droppable(now))
               g == Minus(now, {x})
    <3>1. x \in DOMAIN now
      <4>1. Droppable(now) \in SUBSET Nat
        BY <2>1
      <4> QED
        BY <2>1, <2>3, <4>1, MinPicks
    <3>2. Step(now) = g
      BY <2>3
    <3> HIDE DEF x, Step
    <3>3. g \in Anchors /\ DOMAIN g = DOMAIN now \ {x} /\ SumOf(g) <= SumOf(now)
      BY DropIs
    <3>4. Cardinality(DOMAIN now \ {x}) = Cardinality(DOMAIN now) - 1
      BY <2>1, <3>1, FS_RemoveElement
    <3> QED
      BY <3>2, <3>3, <3>4
  <2> QED
    BY <2>2, <2>3
<1> HIDE DEF n, Step
<1>4. Go = [i \in 0 .. n |-> IF i = 0 THEN a ELSE Step(Go[i - 1])]
  <2>1. G \in [1 .. n -> [X -> X]] /\ a \in X
    BY <1>3
  <2> HIDE DEF X
  <2>2. PICK f \in [0 .. n -> X] : f[0] = a /\ \A i \in 1 .. n : f[i] = G[i][f[i - 1]]
    <3> DEFINE z == a
    <3>1. z \in X /\ n \in Nat /\ G \in [1 .. n -> [X -> X]]
      BY <1>1, <2>1
    <3> HIDE DEF G, z
    <3>2. \E f \in [0 .. n -> X] : f[0] = z /\ \A k \in 1 .. n : f[k] = G[k][f[k - 1]]
      BY <3>1, ChainExists
    <3> QED
      BY <3>2 DEF z
  <2>3. ASSUME NEW i \in 1 .. n PROVE f[i] = Step(f[i - 1])
    <3>1. i - 1 \in 0 .. n
      BY <1>1
    <3>2. f[i - 1] \in X
      BY <2>2, <3>1
    <3> QED
      BY <2>2, <3>2
  <2>4. f = [i \in 0 .. n |-> IF i = 0 THEN a ELSE Step(f[i - 1])]
    <3>1. ASSUME NEW i \in 0 .. n PROVE f[i] = IF i = 0 THEN a ELSE Step(f[i - 1])
      <4>1. i = 0 \/ i \in 1 .. n
        BY <1>1
      <4> QED
        BY <2>2, <2>3, <4>1
    <3>2. f = [i \in 0 .. n |-> f[i]]
      BY <2>2
    <3> QED
      BY <3>1, <3>2
  <2>5. \E g : g = [i \in 0 .. n |-> IF i = 0 THEN a ELSE Step(g[i - 1])]
    BY <2>4
  <2> QED
    BY <2>5 DEF Go
<1> HIDE DEF Go
<1>5. Go[0] = a /\ \A i \in 1 .. n : Go[i] = Step(Go[i - 1])
  <2>1. 0 \in 0 .. n /\ \A i \in 1 .. n : i \in 0 .. n /\ i # 0
    BY <1>1
  <2> QED
    BY <1>4, <2>1
<1> DEFINE Good(i) == /\ Go[i] \in X /\ SumOf(Go[i]) <= SumOf(a)
                      /\ \/ Done(Go[i]) \/ Droppable(Go[i]) = {}
                         \/ Cardinality(DOMAIN Go[i]) <= n - i
           D == {i \in 0 .. n : Good(i)}
<1>6. 0 \in D
  <2>1. SumOf(a) \in Nat /\ Cardinality(DOMAIN a) <= n - 0 /\ 0 \in 0 .. n
    BY <1>1, AnchorsAre DEF n
  <2> QED
    BY <1>5, <2>1
<1>7. ASSUME NEW k \in 1 .. n, k - 1 \in D PROVE k \in D
  <2> DEFINE now == Go[k - 1]
             t == Go[k]
  <2>1. t = Step(now) /\ k \in 0 .. n /\ Good(k - 1)
    BY <1>5, <1>7
  <2>2. now \in X /\ SumOf(now) <= SumOf(a)
    BY <2>1
  <2>3. \/ Done(now) \/ Droppable(now) = {}
        \/ Cardinality(DOMAIN now) <= n - (k - 1)
    BY <2>1
  <2> HIDE DEF now, t, Done
  <2>4. /\ t \in X /\ SumOf(t) <= SumOf(now)
        /\ \/ t = now /\ (Done(now) \/ Droppable(now) = {})
           \/ Cardinality(DOMAIN t) = Cardinality(DOMAIN now) - 1
    BY <1>3, <2>1, <2>2
  <2>5. /\ SumOf(t) \in Nat /\ SumOf(now) \in Nat /\ SumOf(a) \in Nat
        /\ Cardinality(DOMAIN now) \in Nat
    BY <2>2, <2>4, AnchorsAre DEF X
  <2>6. SumOf(t) <= SumOf(a)
    BY <2>2, <2>4, <2>5
  <2>7. Done(now) \/ Droppable(now) = {} => t = now
    BY <2>1 DEF Step
  <2>8. Done(t) \/ Droppable(t) = {} \/ Cardinality(DOMAIN t) <= n - k
    BY <1>1, <2>3, <2>4, <2>5, <2>7
  <2> QED
    BY <2>1, <2>4, <2>6, <2>8 DEF t
<1> HIDE DEF D
<1>8. n \in D
  BY <1>1, <1>6, <1>7, UpTo
<1>9. /\ Go[n] \in X /\ SumOf(Go[n]) <= SumOf(a)
      /\ Done(Go[n]) \/ Droppable(Go[n]) = {} \/ Cardinality(DOMAIN Go[n]) <= 0
  <2>1. n - n = 0
    BY <1>1
  <2> HIDE DEF Done
  <2> QED
    BY <1>8, <2>1 DEF D
<1>10. Cardinality(DOMAIN Go[n]) <= 0 => Droppable(Go[n]) = {}
  <2>1. IsFiniteSet(DOMAIN Go[n]) /\ Cardinality(DOMAIN Go[n]) \in Nat /\ Droppable(Go[n]) \subseteq DOMAIN Go[n]
    BY <1>9, AnchorsAre
  <2>2. Cardinality(DOMAIN Go[n]) <= 0 => DOMAIN Go[n] = {}
    BY <2>1, FS_EmptySet
  <2> QED
    BY <2>1, <2>2
<1> QED
  BY <1>2, <1>9, <1>10

\* The bytes of all chains, and that they go down with each chain's.
LEMMA ChainsCount ==
  ASSUME NEW ch \in Chains
  PROVE  /\ ChainsTotal(ch) \in Nat
         /\ \A th \in Chains : (\A s \in HostSlots : SumOf(th[s]) <= SumOf(ch[s]))
                                 => ChainsTotal(th) <= ChainsTotal(ch)
<1> DEFINE F(c) == [s \in HostSlots |-> SumOf(c[s])]
<1>1. \A c \in Chains : Tally(F(c)) /\ ChainsTotal(c) = SumOf(F(c))
  <2> SUFFICES ASSUME NEW c \in Chains PROVE Tally(F(c)) /\ ChainsTotal(c) = SumOf(F(c))
    OBVIOUS
  <2>1. \A s \in HostSlots : SumOf(c[s]) \in Nat
    BY AnchorsAre DEF Chains
  <2> QED
    BY <2>1, HostAssumption DEF Tally, ChainsTotal
<1>2. ChainsTotal(ch) \in Nat
  BY <1>1, Shares
<1>3. ASSUME NEW th \in Chains, \A s \in HostSlots : SumOf(th[s]) <= SumOf(ch[s])
      PROVE  ChainsTotal(th) <= ChainsTotal(ch)
  <2>1. DOMAIN F(th) \subseteq DOMAIN F(ch) /\ \A s \in DOMAIN F(th) : F(th)[s] <= F(ch)[s]
    BY <1>3
  <2>2. Tally(F(th)) /\ Tally(F(ch)) /\ ChainsTotal(th) = SumOf(F(th)) /\ ChainsTotal(ch) = SumOf(F(ch))
    BY <1>1
  <2> HIDE DEF F
  <2> QED
    BY <2>1, <2>2, SumGrows
<1> QED
  BY <1>2, <1>3

\* One turn of the loop over the chains leaves a chain with nothing to drop, or
\* they fit.
ChainTurn(now, s, storeBytes) ==
  IF ChainsTotal(now) + storeBytes <= HostCap THEN now
  ELSE [now EXCEPT ![s] = TrimChain(@, ChainAnchors, 0)]

\* Such a turn leaves the other chains alone and adds nothing.
LEMMA ChainTurnIs ==
  ASSUME NEW now \in Chains, NEW s \in HostSlots, NEW storeBytes \in Int
  PROVE  LET t == ChainTurn(now, s, storeBytes)
         IN  /\ t \in Chains /\ \A r \in HostSlots : SumOf(t[r]) <= SumOf(now[r])
             /\ \A r \in HostSlots \ {s} : t[r] = now[r]
             /\ ChainsTotal(now) + storeBytes <= HostCap => t = now
             /\ ChainsTotal(now) + storeBytes <= HostCap \/ Droppable(t[s]) = {}
<1> DEFINE a == now[s]
           b == TrimChain(a, ChainAnchors, 0)
           t == ChainTurn(now, s, storeBytes)
           Fit == ChainsTotal(now) + storeBytes <= HostCap
<1>1. \A r \in HostSlots : now[r] \in Anchors /\ SumOf(now[r]) \in Nat
  BY AnchorsAre DEF Chains
<1>2. /\ b \in Anchors /\ SumOf(b) <= SumOf(a)
      /\ Droppable(b) = {} \/ (Cardinality(DOMAIN b) <= ChainAnchors /\ SumOf(b) <= 0)
  BY <1>1, TrimIs
<1>3. Droppable(b) = {}
  BY <1>2, AnchorsAre
<1>4. CASE Fit
  <2>1. t = now
    BY <1>4 DEF ChainTurn
  <2> HIDE DEF t, Fit
  <2>2. t \in Chains /\ \A r \in HostSlots : SumOf(t[r]) <= SumOf(now[r])
    BY <1>1, <2>1
  <2>3. Fit /\ t = now
    BY <1>4, <2>1
  <2> QED
    BY <2>2, <2>3 DEF t, Fit
<1>5. CASE ~Fit
  <2>1. t = [now EXCEPT ![s] = b]
    BY <1>5 DEF ChainTurn
  <2> HIDE DEF b, t, Fit
  <2>2. t \in Chains /\ t[s] = b /\ \A r \in HostSlots \ {s} : t[r] = now[r]
    BY <1>2, <2>1 DEF Chains
  <2>3. \A r \in HostSlots : SumOf(t[r]) <= SumOf(now[r])
    BY <1>1, <1>2, <2>2
  <2> QED
    BY <1>3, <1>5, <2>2, <2>3 DEF t, Fit
<1> QED
  BY <1>4, <1>5

\* Each value made from the one before.
ChainOf(f, b, n, G) == f[0] = b /\ \A k \in 1 .. n : f[k] = G[k][f[k - 1]]

\* Such values are there (ChainExists).
LEMMA ChainOfExists ==
  ASSUME NEW X, NEW b \in X, NEW n \in Nat, NEW G \in [1 .. n -> [X -> X]]
  PROVE  \E f \in [0 .. n -> X] : ChainOf(f, b, n, G)
BY ChainExists DEF ChainOf

\* The chains are trimmed until they fit or none has an anchor to drop
\* (evict_global_over_cap's second stage).
LEMMA TrimChainsIs ==
  ASSUME NEW chains \in Chains, NEW order \in Seq(HostSlots), NEW storeBytes \in Int
  PROVE  LET t == TrimChains(chains, order, storeBytes)
         IN  /\ t \in Chains /\ ChainsTotal(t) <= ChainsTotal(chains)
             /\ \/ ChainsTotal(t) + storeBytes <= HostCap
                \/ \A s \in ToSet(order) : Droppable(t[s]) = {}
<1> DEFINE n == Len(order)
           X == Chains
           Step(now, i) == ChainTurn(now, order[i], storeBytes)
           G == [i \in 1 .. n |-> [now \in X |-> Step(now, i)]]
           Go[i \in 0 .. n] == IF i = 0 THEN chains ELSE Step(Go[i - 1], i)
<1>1. n \in Nat /\ n \in 0 .. n /\ \A i \in 1 .. n : order[i] \in HostSlots
  OBVIOUS
<1>2. TrimChains(chains, order, storeBytes) = Go[n]
  BY DEF TrimChains, ChainTurn
<1>3. \A now \in X : \A i \in 1 .. n : Step(now, i) \in X
  BY <1>1, ChainTurnIs
<1> HIDE DEF n, X, Step
<1>4. Go = [i \in 0 .. n |-> IF i = 0 THEN chains ELSE Step(Go[i - 1], i)]
  <2>1. G \in [1 .. n -> [X -> X]] /\ chains \in X
    BY <1>3 DEF X
  <2>2. PICK f \in [0 .. n -> X] : f[0] = chains /\ \A i \in 1 .. n : f[i] = G[i][f[i - 1]]
    <3>1. chains \in X /\ n \in Nat /\ G \in [1 .. n -> [X -> X]]
      BY <1>1, <2>1
    <3> HIDE DEF G
    <3>2. \E f \in [0 .. n -> X] : ChainOf(f, chains, n, G)
      BY <3>1, ChainOfExists
    <3> QED
      BY <3>2 DEF ChainOf
  <2>3. ASSUME NEW i \in 1 .. n PROVE f[i] = Step(f[i - 1], i)
    <3>1. i - 1 \in 0 .. n
      BY <1>1
    <3>2. f[i - 1] \in X
      BY <2>2, <3>1
    <3> QED
      BY <2>2, <3>2
  <2>4. f = [i \in 0 .. n |-> IF i = 0 THEN chains ELSE Step(f[i - 1], i)]
    <3>1. ASSUME NEW i \in 0 .. n PROVE f[i] = IF i = 0 THEN chains ELSE Step(f[i - 1], i)
      <4>1. i = 0 \/ i \in 1 .. n
        BY <1>1
      <4> QED
        BY <2>2, <2>3, <4>1
    <3>2. f = [i \in 0 .. n |-> f[i]]
      BY <2>2
    <3> QED
      BY <3>1, <3>2
  <2>5. \E g : g = [i \in 0 .. n |-> IF i = 0 THEN chains ELSE Step(g[i - 1], i)]
    BY <2>4
  <2> QED
    BY <2>5 DEF Go
<1> HIDE DEF Go
<1>5. Go[0] = chains /\ \A i \in 1 .. n : Go[i] = Step(Go[i - 1], i)
  <2>1. 0 \in 0 .. n /\ \A i \in 1 .. n : i \in 0 .. n /\ i # 0
    BY <1>1
  <2> QED
    BY <1>4, <2>1
<1> DEFINE Fit(c) == ChainsTotal(c) + storeBytes <= HostCap
           Good(i) == /\ Go[i] \in X /\ ChainsTotal(Go[i]) <= ChainsTotal(chains)
                      /\ \/ Fit(Go[i])
                         \/ \A j \in 1 .. i : Droppable(Go[i][order[j]]) = {}
           D == {i \in 0 .. n : Good(i)}
<1>6. 0 \in D
  <2>1. ChainsTotal(chains) \in Nat /\ 0 \in 0 .. n
    BY <1>1, ChainsCount
  <2> QED
    BY <1>5, <2>1 DEF X
<1>7. ASSUME NEW k \in 1 .. n, k - 1 \in D PROVE k \in D
  <2> DEFINE now == Go[k - 1]
             t == Go[k]
             s == order[k]
  <2>1. t = Step(now, k) /\ k \in 0 .. n /\ Good(k - 1)
    <3> HIDE DEF Good
    <3> QED
      BY <1>5, <1>7
  <2>2. now \in Chains /\ ChainsTotal(now) <= ChainsTotal(chains)
    BY <2>1 DEF X
  <2>3. Fit(now) \/ \A j \in 1 .. k - 1 : Droppable(now[order[j]]) = {}
    BY <2>1
  <2> HIDE DEF now, t, s
  <2>4. s \in HostSlots
    BY <1>1 DEF s
  <2>5. /\ t \in Chains /\ \A r \in HostSlots : SumOf(t[r]) <= SumOf(now[r])
        /\ \A r \in HostSlots \ {s} : t[r] = now[r]
        /\ Fit(now) => t = now
        /\ Fit(now) \/ Droppable(t[s]) = {}
    <3>1. t = ChainTurn(now, s, storeBytes)
      BY <2>1 DEF Step, s
    <3> QED
      BY <2>2, <2>4, <3>1, ChainTurnIs
  <2>6. ChainsTotal(t) <= ChainsTotal(chains)
    <3>1. ChainsTotal(t) \in Nat /\ ChainsTotal(now) \in Nat /\ ChainsTotal(chains) \in Nat
      BY <2>2, <2>5, ChainsCount
    <3>2. ChainsTotal(t) <= ChainsTotal(now)
      BY <2>2, <2>5, ChainsCount
    <3> QED
      BY <2>2, <3>1, <3>2
  <2> HIDE DEF Fit
  <2>7. Fit(t) \/ \A j \in 1 .. k : Droppable(t[order[j]]) = {}
    <3>1. CASE Fit(now)
      BY <2>5, <3>1
    <3>2. CASE ~Fit(now)
      <4> SUFFICES ASSUME NEW j \in 1 .. k PROVE Droppable(t[order[j]]) = {}
        OBVIOUS
      <4>1. CASE order[j] = s
        BY <2>5, <3>2, <4>1
      <4>2. CASE order[j] # s
        <5>1. j # k /\ j \in 1 .. k - 1 /\ j \in 1 .. n
          BY <1>1, <4>2 DEF s
        <5>2. order[j] \in HostSlots \ {s}
          BY <1>1, <4>2, <5>1
        <5> QED
          BY <2>3, <2>5, <3>2, <5>1, <5>2
      <4> QED
        BY <4>1, <4>2
    <3> QED
      BY <3>1, <3>2
  <2>8. Good(k)
    BY <2>5, <2>6, <2>7 DEF t, X
  <2> QED
    BY <2>1, <2>8
<1> HIDE DEF D
<1>8. n \in D
  BY <1>1, <1>6, <1>7, UpTo
<1>9. Good(n)
  BY <1>8 DEF D
<1>10. \A s \in ToSet(order) : \E j \in 1 .. n : s = order[j]
  BY DEF ToSet, n
<1> QED
  BY <1>2, <1>9, <1>10 DEF X

\* The order in which the chains are trimmed names every slot
\* (trim_chains_session_order).
LEMMA TrimOrderIs ==
  ASSUME NEW sessions, \A s \in HostSlots : sessions[s].active \in BOOLEAN,
         NEW idle \in Seq(HostSlots)
  PROVE  TrimOrder(sessions, idle) \in Seq(HostSlots) /\ HostSlots \subseteq ToSet(TrimOrder(sessions, idle))
<1> DEFINE c == Cardinality(HostSlots)
           all == [i \in 1 .. c |-> i - 1]
           Rest(active) == Only(all, {s \in HostSlots \ ToSet(idle) : sessions[s].active = active})
           a == Rest(FALSE)
           b == Rest(TRUE)
<1>1. c \in Nat /\ HostSlots = 0 .. c - 1
  BY HostAssumption, FS_CardinalityType
<1> HIDE DEF c
<1>2. all \in Seq(HostSlots) /\ ToSet(all) = HostSlots
  <2>1. \A i \in 1 .. c : i - 1 \in HostSlots
    BY <1>1
  <2>2. all \in Seq(HostSlots)
    BY <1>1, <2>1
  <2>3. Len(all) = c /\ DOMAIN all = 1 .. c
    BY <1>1
  <2>4. ASSUME NEW s \in HostSlots PROVE s \in ToSet(all)
    <3>1. s + 1 \in 1 .. c /\ all[s + 1] = s
      BY <1>1
    <3> QED
      BY <2>3, <3>1 DEF ToSet
  <2>5. \A s \in ToSet(all) : s \in HostSlots
    BY <2>1, <2>3 DEF ToSet
  <2> QED
    BY <2>2, <2>4, <2>5
<1> HIDE DEF all
<1>3. /\ a \in Seq(HostSlots) /\ ToSet(a) = HostSlots \cap {s \in HostSlots \ ToSet(idle) : sessions[s].active = FALSE}
      /\ b \in Seq(HostSlots) /\ ToSet(b) = HostSlots \cap {s \in HostSlots \ ToSet(idle) : sessions[s].active = TRUE}
  BY <1>2, OnlyIs
<1>4. TrimOrder(sessions, idle) = idle \o a \o b
  BY DEF TrimOrder, c, all
<1> HIDE DEF a, b
<1>5. \A q, r \in Seq(HostSlots) : q \o r \in Seq(HostSlots) /\ ToSet(q) \cup ToSet(r) \subseteq ToSet(q \o r)
  <2> SUFFICES ASSUME NEW q \in Seq(HostSlots), NEW r \in Seq(HostSlots)
               PROVE  q \o r \in Seq(HostSlots) /\ ToSet(q) \cup ToSet(r) \subseteq ToSet(q \o r)
    OBVIOUS
  <2>1. /\ q \o r \in Seq(HostSlots) /\ Len(q \o r) = Len(q) + Len(r)
        /\ \A i \in 1 .. Len(q) + Len(r) : (q \o r)[i] = IF i <= Len(q) THEN q[i] ELSE r[i - Len(q)]
    BY ConcatProperties
  <2>2. \A i \in 1 .. Len(q) : i \in 1 .. Len(q) + Len(r) /\ (q \o r)[i] = q[i]
    BY <2>1
  <2>3. ASSUME NEW i \in 1 .. Len(r) PROVE Len(q) + i \in 1 .. Len(q) + Len(r) /\ (q \o r)[Len(q) + i] = r[i]
    <3>1. Len(q) \in Nat /\ Len(r) \in Nat
      OBVIOUS
    <3>2. Len(q) + i \in 1 .. Len(q) + Len(r) /\ ~(Len(q) + i <= Len(q)) /\ Len(q) + i - Len(q) = i
      BY <3>1
    <3> QED
      BY <2>1, <3>2
  <2> DEFINE t == q \o r
  <2>4. \A x \in ToSet(q) : \E i \in 1 .. Len(q) : x = q[i]
    BY DEF ToSet
  <2>5. \A x \in ToSet(r) : \E i \in 1 .. Len(r) : x = r[i]
    BY DEF ToSet
  <2>6. t \in Seq(HostSlots) /\ DOMAIN t = 1 .. Len(q) + Len(r)
    BY <2>1
  <2> HIDE DEF t
  <2>7. \A i \in DOMAIN t : t[i] \in ToSet(t)
    BY DEF ToSet
  <2>8. \A i \in 1 .. Len(q) : q[i] \in ToSet(t)
    BY <2>2, <2>6, <2>7 DEF t
  <2>9. \A i \in 1 .. Len(r) : r[i] \in ToSet(t)
    BY <2>3, <2>6, <2>7 DEF t
  <2> QED
    BY <2>4, <2>5, <2>6, <2>8, <2>9 DEF t
<1>6. idle \o a \in Seq(HostSlots) /\ idle \o a \o b \in Seq(HostSlots)
  BY <1>3, <1>5
<1>7. ToSet(idle) \cup ToSet(a) \cup ToSet(b) \subseteq ToSet(idle \o a \o b)
  BY <1>3, <1>5, <1>6
<1>8. HostSlots \subseteq ToSet(idle) \cup ToSet(a) \cup ToSet(b)
  BY <1>3
<1> QED
  BY <1>4, <1>6, <1>7, <1>8

-----------------------------------------------------------------------------
(* The cap over all host memory.                                            *)

\* t is what is left of st, its references aside.
Kept(t, st) ==
  /\ t \in Stores /\ t.total <= st.total
  /\ DOMAIN t.entries \subseteq DOMAIN st.entries
  /\ Cardinality(DOMAIN t.entries) <= Cardinality(DOMAIN st.entries)
  /\ \A k \in DOMAIN t.entries : t.entries[k].demand = st.entries[k].demand

\* The references counted anew change nothing else (refresh_entry_refs).
LEMMA RefreshedIs ==
  ASSUME NEW st \in Stores, NEW sessions
  PROVE  LET t == Refreshed(st, sessions)
         IN  /\ t \in Stores /\ t.total = st.total
             /\ DOMAIN t.entries = DOMAIN st.entries
             /\ \A k \in DOMAIN t.entries : t.entries[k].demand = st.entries[k].demand
<1> DEFINE R(k) == {s \in LivePrompts(sessions) : IsPrefix(k, sessions[s].prompt)}
           c(k) == Cardinality(R(k))
           D == DOMAIN st.entries
           es == [k \in D |-> [st.entries[k] EXCEPT !.refs = c(k)]]
           t == Refreshed(st, sessions)
<1>1. /\ st = [entries |-> st.entries, lru |-> st.lru, total |-> st.total]
      /\ IsFiniteSet(D) /\ D \subseteq Heads
      /\ st.entries \in [D -> Dumps] /\ Tally(Weights(st.entries))
      /\ st.lru \in Seq(Heads) /\ Once(st.lru) /\ ToSet(st.lru) = D
      /\ st.total \in Nat /\ st.total = SumOf(Weights(st.entries))
  BY StoreIs
<1>2. t = [st EXCEPT !.entries = es]
  BY DEF Refreshed
<1>3. t = [entries |-> es, lru |-> st.lru, total |-> st.total]
  <2> HIDE DEF es, t
  <2> QED
    BY <1>1, <1>2
<1>4. \A k : c(k) \in Nat
  <2> TAKE k
  <2>1. R(k) \in SUBSET HostSlots
    BY DEF LivePrompts
  <2> HIDE DEF R
  <2>2. IsFiniteSet(R(k))
    BY <2>1, HostAssumption, FS_Subset
  <2> QED
    BY <2>2, FS_CardinalityType
<1> HIDE DEF c
<1>5. \A k \in D : /\ es[k] \in Dumps /\ es[k].bytes = st.entries[k].bytes
                   /\ es[k].demand = st.entries[k].demand
  <2> TAKE k \in D
  <2> DEFINE d == st.entries[k]
  <2>1. d \in Dumps
    BY <1>1
  <2>2. es[k] = [d EXCEPT !.refs = c(k)]
    OBVIOUS
  <2> HIDE DEF d, es
  <2> QED
    BY <1>4, <2>1, <2>2 DEF Dumps, d
<1>6. es \in [D -> Dumps] /\ DOMAIN es = D
  BY <1>5
<1>7. st.total = SumOf(Weights(es))
  <2> HIDE DEF es
  <2>1. /\ DOMAIN Weights(es) = DOMAIN Weights(st.entries)
        /\ \A x \in DOMAIN Weights(st.entries) : Weights(es)[x] = Weights(st.entries)[x]
    BY <1>5, <1>6 DEF Weights
  <2> QED
    BY <1>1, <2>1, SumFacts
<1> HIDE DEF es, D
<1>8. [entries |-> es, lru |-> st.lru, total |-> st.total] \in Stores
  BY <1>1, <1>6, <1>7, StoreMade
<1>9. t.entries = es /\ t.total = st.total
  BY <1>3
<1>10. D = DOMAIN st.entries
  BY DEF D
<1> QED
  BY <1>3, <1>5, <1>6, <1>8, <1>9, <1>10

\* Sessions whose slots are taken or not.
Marked(sessions) == \A s \in HostSlots : sessions[s].active \in BOOLEAN

\* The cap over all host memory: it holds, or what is left is protected
\* (enforce_host_ram_cap).
LEMMA EnforcedIs ==
  ASSUME NEW st \in Stores, NEW chains \in Chains, NEW sessions, Marked(sessions),
         NEW idle \in Seq(HostSlots)
  PROVE  LET e == Enforced(st, chains, sessions, idle)
         IN  /\ Kept(e.store, st) /\ e.chain \in Chains
             /\ \/ e.store.total + ChainsTotal(e.chain) <= HostCap
                \/ Spent(e.store, StubWindow) /\ \A s \in HostSlots : Droppable(e.chain[s]) = {}
<1> DEFINE r == Refreshed(st, sessions)
           c == ChainsTotal(chains)
           t == EvictGlobal(r, c)
           order == TrimOrder(sessions, idle)
           ch == TrimChains(chains, order, t.total)
           e == Enforced(st, chains, sessions, idle)
<1>1. st.total \in Nat /\ c \in Nat /\ HostCap \in Nat /\ Cardinality(DOMAIN st.entries) \in Nat
  BY StoreIs, ChainsCount, HostAssumption
<1>2. CASE st.total + c <= HostCap
  <2>1. e = [store |-> st, chain |-> chains]
    BY <1>2 DEF Enforced
  <2>2. e.store = st /\ e.chain = chains
    BY <2>1
  <2>3. Kept(st, st)
    BY <1>1 DEF Kept
  <2> QED
    BY <1>2, <2>2, <2>3
<1>3. CASE ~(st.total + c <= HostCap)
  <2>1. e = [store |-> t, chain |-> ch]
    BY <1>3 DEF Enforced
  <2>2. e.store = t /\ e.chain = ch
    BY <2>1
  <2>3. /\ r \in Stores /\ r.total = st.total /\ DOMAIN r.entries = DOMAIN st.entries
        /\ \A k \in DOMAIN r.entries : r.entries[k].demand = st.entries[k].demand
    BY RefreshedIs
  <2>4. /\ Less(t, r)
        /\ Fits(t, Cardinality(DOMAIN r.entries), HostCap - c) \/ Spent(t, StubWindow)
    <3> HIDE DEF r, c
    <3> QED
      BY <2>3, EvictedIs DEF EvictGlobal
  <2> HIDE DEF r, t, order, ch, e, c
  <2>5. Kept(t, st)
    BY <2>3, <2>4 DEF Less, Kept
  <2>6. t.total \in Nat /\ t \in Stores
    BY <2>4, StoreIs DEF Less
  <2>7. order \in Seq(HostSlots) /\ HostSlots \subseteq ToSet(order)
    BY TrimOrderIs DEF order, Marked
  <2>8. /\ ch \in Chains /\ ChainsTotal(ch) <= c
        /\ \/ ChainsTotal(ch) + t.total <= HostCap
           \/ \A s \in ToSet(order) : Droppable(ch[s]) = {}
    <3>1. t.total \in Int
      BY <2>6
    <3> QED
      BY <2>7, <3>1, TrimChainsIs DEF ch, c
  <2>9. ChainsTotal(ch) \in Nat
    BY <2>8, ChainsCount
  <2>10. \/ t.total + ChainsTotal(ch) <= HostCap
         \/ Spent(t, StubWindow) /\ \A s \in HostSlots : Droppable(ch[s]) = {}
    <3>1. CASE Fits(t, Cardinality(DOMAIN r.entries), HostCap - c)
      BY <1>1, <2>6, <2>8, <2>9, <3>1 DEF Fits
    <3>2. CASE Spent(t, StubWindow)
      <4>1. t.total + ChainsTotal(ch) = ChainsTotal(ch) + t.total
        BY <2>6, <2>9
      <4>2. (\A s \in ToSet(order) : Droppable(ch[s]) = {})
              => \A s \in HostSlots : Droppable(ch[s]) = {}
        BY <2>7
      <4> QED
        BY <2>8, <3>2, <4>1, <4>2
    <3> QED
      BY <2>4, <3>1, <3>2
  <2> QED
    BY <2>2, <2>5, <2>8, <2>10 DEF e
<1> QED
  BY <1>2, <1>3

-----------------------------------------------------------------------------
(* Dumps stored and touched.                                                *)

\* The caps of the store itself.
Capped(st) == Cardinality(DOMAIN st.entries) <= StoreEntries /\ st.total <= StoreBytes

\* What is left of a capped store is capped.
LEMMA KeptCapped ==
  ASSUME NEW t, NEW st \in Stores, Kept(t, st), Capped(st)
  PROVE  Capped(t)
<1>1. t \in Stores /\ t.total <= st.total /\ Cardinality(DOMAIN t.entries) <= Cardinality(DOMAIN st.entries)
  BY DEF Kept
<1>2. /\ t.total \in Nat /\ st.total \in Nat
      /\ Cardinality(DOMAIN t.entries) \in Nat /\ Cardinality(DOMAIN st.entries) \in Nat
  BY <1>1, StoreIs
<1>3. StoreBytes \in Nat /\ StoreEntries \in Nat
  BY HostAssumption
<1> QED
  BY <1>1, <1>2, <1>3 DEF Capped

\* The store ends within its caps (evict_if_over_cap).
LEMMA OverCapIs ==
  ASSUME NEW st \in Stores
  PROVE  Less(EvictIfOverCap(st), st) /\ Capped(EvictIfOverCap(st))
<1> DEFINE t == EvictIfOverCap(st)
<1>1. Less(t, st) /\ (Fits(t, StoreEntries, StoreBytes) \/ Spent(t, {}))
  BY EvictedIs DEF EvictIfOverCap
<1> HIDE DEF t
<1>2. t \in Stores
  BY <1>1 DEF Less
<1>3. CASE Fits(t, StoreEntries, StoreBytes)
  BY <1>1, <1>3 DEF Fits, Capped, t
<1>4. CASE Spent(t, {})
  <2>1. DOMAIN t.entries = {}
    BY <1>4 DEF Spent
  <2>2. t.total = SumOf(Weights(t.entries)) /\ Tally(Weights(t.entries))
    BY <1>2, StoreIs
  <2>3. t.total = 0
    <3>1. DOMAIN Weights(t.entries) = {}
      BY <2>1 DEF Weights
    <3> QED
      BY <2>2, <3>1, SumFacts
  <2>4. Cardinality(DOMAIN t.entries) = 0
    BY <2>1, FS_EmptySet
  <2>5. StoreBytes \in Nat /\ StoreEntries \in Nat
    BY HostAssumption
  <2> QED
    BY <1>1, <2>3, <2>4, <2>5 DEF Capped, t
<1> QED
  BY <1>1, <1>3, <1>4

\* A dump stored or replaced, within the caps (put_with).
LEMMA PutWithIs ==
  ASSUME NEW st \in Stores, NEW key \in Heads, NEW bytes \in Nat \ {0}, NEW demand \in BOOLEAN
  PROVE  LET t == PutWith(st, key, bytes, demand)
         IN  /\ t \in Stores /\ Capped(t) /\ DOMAIN t.entries \subseteq DOMAIN st.entries \cup {key}
             /\ \A k \in DOMAIN t.entries :
                  t.entries[k].demand => \/ k \in DOMAIN st.entries /\ st.entries[k].demand
                                         \/ k = key /\ demand
<1> DEFINE D == DOMAIN st.entries
           old == key \in D
           freed == IF old THEN st.entries[key].bytes ELSE 0
           d == [bytes |-> bytes, demand |-> demand \/ (old /\ st.entries[key].demand),
                 refs |-> IF old THEN st.entries[key].refs ELSE 0]
           es == Plus(st.entries, key, d)
           q == MovedToEnd(st.lru, key)
           n == st.total - freed + bytes
           u == [entries |-> es, lru |-> q, total |-> n]
           t == PutWith(st, key, bytes, demand)
<1>1. /\ IsFiniteSet(D) /\ D \subseteq Heads /\ st.entries \in [D -> Dumps]
      /\ Tally(Weights(st.entries))
      /\ st.lru \in Seq(Heads) /\ Once(st.lru) /\ ToSet(st.lru) = D
      /\ st.total \in Nat /\ st.total = SumOf(Weights(st.entries))
  BY StoreIs
<1>2. t = EvictIfOverCap(u)
  BY DEF PutWith
<1>3. d \in Dumps /\ d.bytes = bytes /\ d.demand = (demand \/ (old /\ st.entries[key].demand))
  <2>1. old => st.entries[key].refs \in Nat /\ st.entries[key].demand \in BOOLEAN
    BY <1>1 DEF Dumps
  <2> QED
    BY <2>1 DEF Dumps
<1> HIDE DEF d
<1>4. es \in [D \cup {key} -> Dumps] /\ es[key] = d /\ \A k \in D \ {key} : es[k] = st.entries[k]
  BY <1>1, <1>3 DEF Plus
<1>5. DOMAIN es = D \cup {key}
  BY DEF Plus
<1>6. q \in Seq(Heads) /\ Once(q) /\ ToSet(q) = D \cup {key}
  BY <1>1, MovedIs
<1> HIDE DEF es, q
<1>7. IsFiniteSet(D \cup {key}) /\ D \cup {key} \subseteq Heads
  BY <1>1, FS_AddElement
<1>8. n \in Nat /\ n = SumOf(Weights(es))
  <2> DEFINE f == Weights(st.entries)
             g == Weights(es)
             h == [k \in D \ {key} |-> f[k]]
  <2>1. DOMAIN f = D /\ DOMAIN g = D \cup {key} /\ DOMAIN h = D \ {key}
    BY <1>5 DEF Weights
  <2>2. \A k \in D : f[k] = st.entries[k].bytes
    BY DEF Weights
  <2>3. g[key] = bytes /\ \A k \in D \ {key} : g[k] = f[k] /\ h[k] = f[k]
    BY <1>3, <1>4, <1>5 DEF Weights
  <2>4. Tally(g)
    <3>1. \A k \in D \cup {key} : g[k] \in Nat
      BY <1>4, <1>5 DEF Weights, Dumps
    <3> QED
      BY <1>7, <2>1, <3>1 DEF Tally
  <2>5. Tally(f) /\ st.total = SumOf(f)
    BY <1>1
  <2> HIDE DEF f, g, h
  <2>6. DOMAIN h = DOMAIN g \ {key} /\ \A k \in DOMAIN h : h[k] = g[k]
    BY <2>1, <2>3
  <2>7. Tally(h) /\ SumOf(h) \in Nat /\ SumOf(g) = SumOf(h) + g[key]
    BY <2>1, <2>4, <2>6, SumSplit
  <2>8. SumOf(f) = SumOf(h) + freed
    <3>1. CASE old
      <4>1. DOMAIN h = DOMAIN f \ {key} /\ \A k \in DOMAIN h : h[k] = f[k]
        BY <2>1, <2>3
      <4>2. SumOf(f) = SumOf(h) + f[key]
        BY <2>1, <2>5, <3>1, <4>1, SumSplit
      <4> QED
        BY <2>2, <3>1, <4>2
    <3>2. CASE ~old
      <4>1. DOMAIN f = DOMAIN h /\ \A k \in DOMAIN h : f[k] = h[k]
        BY <2>1, <2>3, <3>2
      <4>2. SumOf(f) = SumOf(h)
        BY <2>7, <4>1, SumFacts
      <4> QED
        BY <2>7, <3>2, <4>2
    <3> QED
      BY <3>1, <3>2
  <2>9. freed \in Nat
    BY <1>1 DEF Dumps
  <2> HIDE DEF freed
  <2>10. n = SumOf(g) /\ n \in Nat
    BY <2>3, <2>5, <2>7, <2>8, <2>9
  <2> QED
    BY <2>10 DEF g
<1> HIDE DEF n
<1>9. u \in Stores
  BY <1>4, <1>6, <1>7, <1>8, StoreMade
<1>10. u.entries = es
  OBVIOUS
<1> HIDE DEF u, t, D
<1>11. Less(t, u) /\ Capped(t)
  BY <1>2, <1>9, OverCapIs
<1>12. ASSUME NEW k \in DOMAIN t.entries, t.entries[k].demand
       PROVE  \/ k \in D /\ st.entries[k].demand
              \/ k = key /\ demand
  <2>1. k \in D \cup {key} /\ es[k].demand
    BY <1>5, <1>10, <1>11, <1>12 DEF Less
  <2> QED
    BY <1>3, <1>4, <2>1
<1>13. t \in Stores /\ DOMAIN t.entries \subseteq D \cup {key}
  BY <1>5, <1>10, <1>11 DEF Less
<1> QED
  BY <1>11, <1>12, <1>13 DEF t, D

\* An entry touched (PrefixStore::touch).
LEMMA TouchedIs ==
  ASSUME NEW st \in Stores, NEW key \in DOMAIN st.entries
  PROVE  [st EXCEPT !.lru = MovedToEnd(st.lru, key)] \in Stores
<1> DEFINE q == MovedToEnd(st.lru, key)
<1>1. /\ st = [entries |-> st.entries, lru |-> st.lru, total |-> st.total]
      /\ IsFiniteSet(DOMAIN st.entries) /\ DOMAIN st.entries \subseteq Heads
      /\ st.entries \in [DOMAIN st.entries -> Dumps]
      /\ st.lru \in Seq(Heads) /\ Once(st.lru) /\ ToSet(st.lru) = DOMAIN st.entries
      /\ st.total \in Nat /\ st.total = SumOf(Weights(st.entries))
  BY StoreIs
<1>2. q \in Seq(Heads) /\ Once(q) /\ ToSet(q) = DOMAIN st.entries
  <2>1. key \in Heads
    BY <1>1
  <2>2. q \in Seq(Heads) /\ Once(q) /\ ToSet(q) = ToSet(st.lru) \cup {key}
    BY <1>1, <2>1, MovedIs
  <2> QED
    BY <1>1, <2>2
<1> HIDE DEF q
<1>3. [entries |-> st.entries, lru |-> q, total |-> st.total] \in Stores
  BY <1>1, <1>2, StoreMade
<1>4. [st EXCEPT !.lru = q] = [entries |-> st.entries, lru |-> q, total |-> st.total]
  BY <1>1
<1> QED
  BY <1>3, <1>4 DEF q

-----------------------------------------------------------------------------
(* Boundaries and touches.                                                  *)

\* The tokens two sequences have in common at their heads.
LEMMA CommonIs ==
  ASSUME NEW a \in Heads, NEW b \in Heads
  PROVE  /\ CommonLen(a, b) \in Nat /\ CommonLen(a, b) <= Len(a) /\ CommonLen(a, b) <= Len(b)
         /\ SubSeq(a, 1, CommonLen(a, b)) = SubSeq(b, 1, CommonLen(a, b))
<1> DEFINE m == Lesser(Len(a), Len(b))
           T == {n \in 1 .. m : SubSeq(a, 1, n) = SubSeq(b, 1, n)}
           c == Cardinality(T)
<1>1. m \in Nat /\ m <= Len(a) /\ m <= Len(b) /\ Len(a) \in Nat /\ Len(b) \in Nat
  BY DEF Heads, Lesser
<1>2. CommonLen(a, b) = c
  BY DEF CommonLen
<1> HIDE DEF m, c
<1>3. CASE T = {}
  <2>1. c = 0
    BY <1>3, FS_EmptySet DEF c
  <2>2. SubSeq(a, 1, 0) = SubSeq(b, 1, 0)
    BY DEF Heads
  <2> QED
    BY <1>1, <1>2, <2>1, <2>2
<1>4. CASE T # {}
  <2>1. PICK x \in T : \A n \in T : n <= x
    <3>1. T \in SUBSET Int /\ \A n \in T : n <= m
      BY <1>1
    <3>2. m \in Int
      BY <1>1
    <3> HIDE DEF T
    <3>3. Max(T) \in T /\ \A x \in T : x <= Max(T)
      BY <1>4, <3>1, <3>2, MaxPicks
    <3> QED
      BY <3>3
  <2>2. ASSUME NEW n \in 1 .. x PROVE n \in T
    <3>1. x \in Nat /\ n \in Nat /\ n <= x /\ x <= Len(a) /\ x <= Len(b) /\ n \in 1 .. m
      BY <1>1
    <3>2. SubSeq(a, 1, x) = SubSeq(b, 1, x)
      OBVIOUS
    <3>3. \A i \in 1 .. n : a[i] = b[i]
      <4> SUFFICES ASSUME NEW i \in 1 .. n PROVE a[i] = b[i]
        OBVIOUS
      <4>1. i \in 1 .. x /\ 1 + i - 1 = i
        BY <3>1
      <4>2. SubSeq(a, 1, x)[i] = a[i] /\ SubSeq(b, 1, x)[i] = b[i]
        BY <3>1, <4>1, SubSeqProperties DEF Heads
      <4> QED
        BY <3>2, <4>2
    <3>4. SubSeq(a, 1, n) = SubSeq(b, 1, n)
      <4>1. /\ SubSeq(a, 1, n) = [i \in 1 .. n |-> a[i]]
            /\ SubSeq(b, 1, n) = [i \in 1 .. n |-> b[i]]
        BY <3>1, SubSeqProperties DEF Heads
      <4> QED
        BY <3>3, <4>1
    <3> QED
      BY <3>1, <3>4
  <2>3. T = 1 .. x /\ x \in Nat /\ 1 <= x /\ x <= m
    <3>1. x \in 1 .. m
      OBVIOUS
    <3>2. \A n \in T : n \in 1 .. x
      BY <1>1, <2>1, <3>1
    <3>3. x \in Nat /\ 1 <= x /\ x <= m
      BY <1>1, <3>1
    <3> HIDE DEF T
    <3>4. T = 1 .. x
      BY <2>2, <3>2
    <3> QED
      BY <3>3, <3>4
  <2>4. c = x
    <3>1. 1 \in Int /\ x \in Int
      BY <2>3
    <3>2. Cardinality(1 .. x) = IF 1 > x THEN 0 ELSE x - 1 + 1
      BY <3>1, FS_Interval
    <3>3. ~(1 > x) /\ x - 1 + 1 = x
      BY <2>3
    <3> HIDE DEF T
    <3>4. c = Cardinality(1 .. x)
      BY <2>3 DEF c
    <3> QED
      BY <3>2, <3>3, <3>4
  <2>5. SubSeq(a, 1, x) = SubSeq(b, 1, x)
    OBVIOUS
  <2> QED
    BY <1>1, <1>2, <2>3, <2>4, <2>5
<1> QED
  BY <1>3, <1>4

\* A boundary is where the prompt leaves an observed one.
LEMMA BoundaryIs ==
  ASSUME NEW p \in HostPrompts, NEW reuse \in Nat, observed \in Seq(HostPrompts)
  PROVE  LET b == Boundary(p, reuse)
         IN  /\ b \in Nat /\ b <= Len(p)
             /\ b > 0 => b > reuse /\ \E i \in DOMAIN observed : b = CommonLen(observed[i], p)
<1> DEFINE T == {0} \cup {CommonLen(observed[i], p) : i \in DOMAIN observed}
           best == Max(T)
           b == Boundary(p, reuse)
<1>1. p \in Heads /\ \A i \in DOMAIN observed : observed[i] \in Heads
  BY HostAssumption DEF Heads
<1>2. Len(p) \in Nat
  BY <1>1 DEF Heads
<1>3. \A i \in DOMAIN observed : CommonLen(observed[i], p) \in Nat /\ CommonLen(observed[i], p) <= Len(p)
  BY <1>1, CommonIs
<1>4. T \in SUBSET Int /\ T # {} /\ \A x \in T : x \in Nat /\ x <= Len(p)
  BY <1>2, <1>3
<1>5. best \in T
  <2>1. T \in SUBSET Int /\ T # {} /\ Len(p) \in Int /\ \A x \in T : x <= Len(p)
    BY <1>2, <1>4
  <2> HIDE DEF T
  <2> QED
    BY <2>1, MaxPicks
<1>6. b = IF best < DemandMin \/ best >= Len(p) \/ best <= reuse THEN 0 ELSE best
  BY DEF Boundary
<1> HIDE DEF best, b
<1>7. best \in Nat /\ best <= Len(p)
  BY <1>4, <1>5
<1>8. best > 0 => \E i \in DOMAIN observed : best = CommonLen(observed[i], p)
  BY <1>5
<1>9. CASE best < DemandMin \/ best >= Len(p) \/ best <= reuse
  <2>1. b = 0
    BY <1>6, <1>9
  <2> QED
    BY <1>2, <2>1 DEF b
<1>10. CASE ~(best < DemandMin \/ best >= Len(p) \/ best <= reuse)
  <2>1. b = best
    BY <1>6, <1>10
  <2>2. best > reuse
    BY <1>7, <1>10
  <2> QED
    BY <1>7, <1>8, <2>1, <2>2 DEF b
<1> QED
  BY <1>9, <1>10

\* The touch of find_ram keeps the order of use one of the same keys.
LEMMA FoundIs ==
  ASSUME Store \in Stores, NEW p, NEW limit
  PROVE  [Store EXCEPT !.lru = Found(p, limit)] \in Stores
<1> DEFINE H == HeadsOf(p, limit)
           k == CHOOSE h \in H : \A l \in H : Len(l) <= Len(h)
<1>1. Store.lru = lru /\ Store.entries = entries /\ Store.total = total
  BY DEF Store
<1>2. CASE H = {}
  <2>1. Found(p, limit) = lru
    BY <1>2 DEF Found
  <2>2. [Store EXCEPT !.lru = lru] = Store
    BY DEF Store
  <2> QED
    BY <2>1, <2>2
<1>3. CASE H # {}
  <2>1. IsFiniteSet(DOMAIN entries) /\ DOMAIN entries \subseteq Heads
    BY <1>1, StoreIs
  <2>2. H \in SUBSET DOMAIN entries
    BY DEF HeadsOf
  <2>3. IsFiniteSet(H) /\ H \subseteq Heads
    BY <2>1, <2>2, FS_Subset
  <2>4. Found(p, limit) = MovedToEnd(lru, k)
    BY <1>3 DEF Found
  <2> HIDE DEF H
  <2>5. k \in H
    BY <1>3, <2>3, LongestIs
  <2> HIDE DEF k
  <2>6. k \in DOMAIN Store.entries
    BY <1>1, <2>2, <2>5
  <2>7. [Store EXCEPT !.lru = MovedToEnd(Store.lru, k)] \in Stores
    BY <2>6, TouchedIs
  <2> QED
    BY <1>1, <2>4, <2>7
<1> QED
  BY <1>2, <1>3

-----------------------------------------------------------------------------
(* What HostRam's steps keep.                                               *)

Sess == [prompt : Heads, pos : Nat, stop : Nat, active : BOOLEAN]

HostTypes ==
  /\ Store \in Stores /\ Capped(Store)
  /\ hostChain \in Chains /\ retained \in Seq(HostSlots) /\ session \in [HostSlots -> Sess]
  /\ observed \in Seq(HostPrompts)

\* What is prefilled is a part of the prompt, and an armed stop lies ahead.
HostSessions ==
  \A s \in HostSlots :
    /\ session[s].pos <= Len(session[s].prompt) /\ session[s].stop <= Len(session[s].prompt)
    /\ session[s].active => session[s].prompt \in HostPrompts
    /\ session[s].stop > 0 => session[s].pos < session[s].stop

HostInv == HostTypes /\ HostSessions /\ HostRamHeld

\* What a step leaves that ends in enforce_host_ram_cap.
LEMMA SettleIs ==
  ASSUME NEW st \in Stores, Capped(st), NEW chains \in Chains,
         NEW sessions \in [HostSlots -> Sess], NEW kept \in Seq(HostSlots),
         Settle(st, chains, sessions, kept)
  PROVE  /\ Store' \in Stores /\ Capped(Store') /\ hostChain' \in Chains /\ HostRamHeld'
         /\ session' = sessions /\ retained' = kept /\ Kept(Store', st)
<1> DEFINE e == Enforced(st, chains, sessions, kept)
<1>1. Marked(sessions)
  BY DEF Marked, Sess
<1>2. /\ Kept(e.store, st) /\ e.chain \in Chains
      /\ \/ e.store.total + ChainsTotal(e.chain) <= HostCap
         \/ Spent(e.store, StubWindow) /\ \A s \in HostSlots : Droppable(e.chain[s]) = {}
  BY <1>1, EnforcedIs
<1>3. /\ entries' = e.store.entries /\ lru' = e.store.lru /\ total' = e.store.total
      /\ hostChain' = e.chain /\ session' = sessions /\ retained' = kept
  BY DEF Settle
<1> HIDE DEF e
<1>4. e.store \in Stores
  BY <1>2 DEF Kept
<1>5. e.store = [entries |-> e.store.entries, lru |-> e.store.lru, total |-> e.store.total]
  BY <1>4, StoreIs
<1>6. Store' = e.store
  BY <1>3, <1>5 DEF Store
<1>7. Capped(e.store)
  BY <1>2, KeptCapped
<1>8. HostRamHeld'
  <2>1. CASE e.store.total + ChainsTotal(e.chain) <= HostCap
    <3>1. e.store.total \in Nat /\ ChainsTotal(e.chain) \in Nat /\ HostCap \in Nat
      BY <1>2, <1>4, StoreIs, ChainsCount, HostAssumption
    <3>2. ~(e.store.total + ChainsTotal(e.chain) > HostCap)
      BY <2>1, <3>1
    <3>3. ~(total' + ChainsTotal(hostChain') > HostCap)
      BY <1>3, <3>2
    <3> QED
      BY <3>3 DEF HostRamHeld
  <2>2. CASE Spent(e.store, StubWindow) /\ \A s \in HostSlots : Droppable(e.chain[s]) = {}
    <3>1. \A k \in DOMAIN entries' : Len(k) \in StubWindow
      BY <1>3, <2>2 DEF Spent
    <3>2. \A s \in HostSlots : \A n \in DOMAIN hostChain'[s] :
            n \in StubWindow \/ n = Max(DOMAIN hostChain'[s])
      BY <1>3, <2>2 DEF Droppable
    <3> QED
      BY <3>1, <3>2 DEF HostRamHeld
  <2> QED
    BY <1>2, <2>1, <2>2
<1> QED
  BY <1>2, <1>3, <1>4, <1>6, <1>7, <1>8

\* Nothing, counted.
LEMMA NoKeysIs == NoKeys \in Anchors /\ DOMAIN NoKeys = {} /\ SumOf(NoKeys) = 0
<1>1. IsFiniteSet({}) /\ {} \in Finite(Nat)
  BY FS_EmptySet DEF Finite
<1>2. NoKeys \in [{} -> Nat \ {0}] /\ DOMAIN NoKeys = {}
  BY DEF NoKeys
<1>3. Tally(NoKeys)
  BY <1>1, <1>2 DEF Tally
<1>4. NoKeys \in Anchors
  BY <1>1, <1>2 DEF Anchors
<1> QED
  BY <1>2, <1>3, <1>4, SumFacts

\* Nothing is held at the start.
LEMMA HostInitInv == HostInit => HostInv
<1> SUFFICES ASSUME HostInit PROVE HostInv
  OBVIOUS
<1>1. NoKeys \in Anchors /\ DOMAIN NoKeys = {} /\ SumOf(NoKeys) = 0
  BY NoKeysIs
<1>2. Store \in Stores /\ Capped(Store)
  <2>1. {} \subseteq Heads /\ IsFiniteSet({}) /\ NoKeys \in [{} -> Dumps]
    BY FS_EmptySet DEF NoKeys
  <2>2. <<>> \in Seq(Heads) /\ Once(<<>>) /\ ToSet(<<>>) = {}
    BY DEF Once, ToSet
  <2>3. 0 = SumOf(Weights(NoKeys))
    <3>1. DOMAIN Weights(NoKeys) = DOMAIN NoKeys
      BY DEF Weights
    <3>2. Tally(Weights(NoKeys))
      BY <1>1, <2>1, <3>1 DEF Tally
    <3> QED
      BY <1>1, <3>1, <3>2, SumFacts
  <2>4. [entries |-> NoKeys, lru |-> <<>>, total |-> 0] \in Stores
    <3> DEFINE D == {}
               q == <<>>
               t == 0
    <3>1. /\ D \subseteq Heads /\ IsFiniteSet(D) /\ NoKeys \in [D -> Dumps]
          /\ q \in Seq(Heads) /\ Once(q) /\ ToSet(q) = D /\ t \in Nat /\ t = SumOf(Weights(NoKeys))
      BY <2>1, <2>2, <2>3
    <3> HIDE DEF D, q, t
    <3>2. [entries |-> NoKeys, lru |-> q, total |-> t] \in Stores
      BY <3>1, StoreMade
    <3> QED
      BY <3>2 DEF q, t
  <2>5. Store = [entries |-> NoKeys, lru |-> <<>>, total |-> 0]
    BY DEF HostInit, Store
  <2>6. Cardinality(DOMAIN NoKeys) = 0
    BY <1>1, FS_EmptySet
  <2>7. StoreEntries \in Nat /\ StoreBytes \in Nat
    BY HostAssumption
  <2> QED
    BY <2>4, <2>5, <2>6, <2>7 DEF Capped
<1>3. session \in [HostSlots -> Sess]
  BY DEF HostInit, NoSession, Sess, Heads
<1>4. hostChain \in Chains /\ retained \in Seq(HostSlots) /\ observed \in Seq(HostPrompts)
  BY <1>1 DEF HostInit, Chains
<1>5. HostSessions
  <2>1. \A s \in HostSlots : session[s] = NoSession
    BY DEF HostInit
  <2>2. /\ NoSession.pos = 0 /\ NoSession.stop = 0 /\ NoSession.active = FALSE
        /\ Len(NoSession.prompt) = 0
    BY DEF NoSession
  <2> QED
    BY <2>1, <2>2 DEF HostSessions
<1>6. HostRamHeld
  <2>1. \A s \in HostSlots : hostChain[s] = NoKeys
    BY DEF HostInit
  <2>2. DOMAIN entries = {}
    BY <1>1 DEF HostInit
  <2> QED
    BY <1>1, <2>1, <2>2 DEF HostRamHeld
<1> QED
  BY <1>2, <1>3, <1>4, <1>5, <1>6 DEF HostInv, HostTypes

\* What a bind reuses is a part of the prompt.
LEMMA ReuseIs ==
  ASSUME HostInv, NEW s \in HostSlots, NEW p \in HostPrompts,
         NEW reuse \in {0, Lesser(CommonLen(session[s].prompt, p), Len(p) - 1)}
                         \cup {Len(k) : k \in HeadsOf(p, Len(p) - 2)}
  PROVE  reuse \in Nat /\ reuse <= Len(p) /\ p \in Heads /\ Len(p) \in Nat
<1>1. p \in Heads /\ p # <<>>
  BY HostAssumption DEF Heads
<1>2. Len(p) \in Nat /\ Len(p) - 1 \in Nat
  BY <1>1 DEF Heads
<1>3. session[s].prompt \in Heads
  BY DEF HostInv, HostTypes, Sess
<1>4. CommonLen(session[s].prompt, p) \in Nat /\ CommonLen(session[s].prompt, p) <= Len(p)
  BY <1>1, <1>3, CommonIs
<1>5. Store \in Stores
  BY DEF HostInv, HostTypes
<1>6. DOMAIN entries \subseteq Heads
  <2>1. DOMAIN Store.entries \subseteq Heads
    BY <1>5, StoreIs
  <2> QED
    BY <2>1 DEF Store
<1>7. \A k \in HeadsOf(p, Len(p) - 2) : Len(k) \in Nat /\ Len(k) <= Len(p)
  <2> TAKE k \in HeadsOf(p, Len(p) - 2)
  <2>1. k \in DOMAIN entries /\ Len(k) <= Len(p) - 2 + 1
    BY DEF HeadsOf
  <2>2. Len(k) \in Nat
    BY <1>6, <2>1 DEF Heads
  <2> QED
    BY <1>2, <2>1, <2>2
<1>8. Lesser(CommonLen(session[s].prompt, p), Len(p) - 1) \in Nat
      /\ Lesser(CommonLen(session[s].prompt, p), Len(p) - 1) <= Len(p)
  BY <1>2, <1>4 DEF Lesser
<1> QED
  BY <1>1, <1>2, <1>7, <1>8

\* The ring of prompts observed (record_prompt).
LEMMA RecordedIs ==
  ASSUME observed \in Seq(HostPrompts), NEW p \in HostPrompts
  PROVE  /\ Recorded(p) \in Seq(HostPrompts)
         /\ \A i \in DOMAIN Recorded(p) : Recorded(p)[i] = p \/ \E j \in DOMAIN observed : Recorded(p)[i] = observed[j]
<1> DEFINE ring == IF observed # <<>> /\ Last(observed) = p THEN observed ELSE Append(observed, p)
<1>1. /\ ring \in Seq(HostPrompts)
      /\ \A i \in DOMAIN ring : ring[i] = p \/ \E j \in DOMAIN observed : ring[i] = observed[j]
  <2>1. ring = observed \/ ring = Append(observed, p)
    OBVIOUS
  <2>2. /\ Append(observed, p) \in Seq(HostPrompts) /\ Len(Append(observed, p)) = Len(observed) + 1
        /\ DOMAIN Append(observed, p) = 1 .. Len(observed) + 1 /\ DOMAIN observed = 1 .. Len(observed)
        /\ Append(observed, p)[Len(observed) + 1] = p
        /\ \A i \in 1 .. Len(observed) : Append(observed, p)[i] = observed[i]
    BY AppendProperties
  <2>3. \A i \in 1 .. Len(observed) + 1 : i \in 1 .. Len(observed) \/ i = Len(observed) + 1
    OBVIOUS
  <2> HIDE DEF ring
  <2>4. CASE ring = observed
    BY <2>4
  <2>5. CASE ring = Append(observed, p)
    BY <2>2, <2>3, <2>5
  <2> QED
    BY <2>1, <2>4, <2>5
<1>2. Recorded(p) = ring \/ (ring # <<>> /\ Recorded(p) = Tail(ring))
  <2>1. Recorded(p) = IF Len(ring) > ObservedMax THEN Tail(ring) ELSE ring
    BY DEF Recorded
  <2>2. ring # <<>>
    BY AppendProperties
  <2> QED
    BY <2>1, <2>2
<1> HIDE DEF ring
<1>3. CASE Recorded(p) = ring
  BY <1>1, <1>3
<1>4. CASE ring # <<>> /\ Recorded(p) = Tail(ring)
  <2> DEFINE t == Tail(ring)
  <2>1. /\ t \in Seq(HostPrompts) /\ Len(t) = Len(ring) - 1 /\ Len(ring) \in Nat
        /\ DOMAIN t = 1 .. Len(t) /\ DOMAIN ring = 1 .. Len(ring)
        /\ \A i \in 1 .. Len(t) : t[i] = ring[i + 1]
    BY <1>1, <1>4, HeadTailProperties
  <2>2. \A i \in DOMAIN t : i + 1 \in DOMAIN ring /\ t[i] = ring[i + 1]
    <3> HIDE DEF t
    <3> QED
      BY <2>1
  <2> HIDE DEF t
  <2>3. \A i \in DOMAIN t : t[i] = p \/ \E j \in DOMAIN observed : t[i] = observed[j]
    BY <1>1, <2>2
  <2>4. Recorded(p) = t
    BY <1>4 DEF t
  <2> QED
    BY <2>1, <2>3, <2>4
<1> QED
  BY <1>2, <1>3, <1>4

\* The parts of a bind (bind_slot).
LEMMA BindIs ==
  ASSUME HostInv, NEW s \in HostSlots, NEW p \in HostPrompts, HostBind(s, p)
  PROVE  /\ HostInv' /\ ~session[s].active /\ Kept(Store', Store)
         /\ \E reuse \in Nat :
              LET b == IF reuse + 1 < Len(p) THEN Boundary(p, reuse) ELSE 0
                  key == SubSeq(p, 1, b)
              IN  /\ b \in Nat /\ b <= Len(p)
                  /\ b > 0 => \E i \in DOMAIN observed : b = CommonLen(observed[i], p)
                  /\ counts' \in IF b = 0 THEN {counts} ELSE Counted(key)
                  /\ session' = [session EXCEPT ![s] =
                                   [prompt |-> p, pos |-> reuse, active |-> TRUE,
                                    stop |-> IF b > 0 /\ Armed(key) THEN b ELSE 0]]
         /\ observed' = Recorded(p) /\ bound' = [bound EXCEPT ![p] = @ + 1]
<1>1. PICK reuse \in {0, Lesser(CommonLen(session[s].prompt, p), Len(p) - 1)}
                       \cup {Len(k) : k \in HeadsOf(p, Len(p) - 2)}, asked \in BOOLEAN :
       LET b == IF reuse + 1 < Len(p) THEN Boundary(p, reuse) ELSE 0
           key == SubSeq(p, 1, b)
           armed == b > 0 /\ Armed(key)
           order == IF asked THEN Found(p, IF reuse = 0 THEN Len(p) - 1 ELSE reuse) ELSE lru
           anchors == Minus(hostChain[s],
                            {n \in DOMAIN hostChain[s] : n > reuse + 1 \/ reuse = 0})
       IN  /\ counts' \in IF b = 0 THEN {counts} ELSE Counted(key)
           /\ Settle([Store EXCEPT !.lru = order], [hostChain EXCEPT ![s] = anchors],
                     [session EXCEPT ![s] = [prompt |-> p, pos |-> reuse, active |-> TRUE,
                                             stop |-> IF armed THEN b ELSE 0]],
                     Removed(retained, s))
  BY DEF HostBind
<1> DEFINE b == IF reuse + 1 < Len(p) THEN Boundary(p, reuse) ELSE 0
           key == SubSeq(p, 1, b)
           armed == b > 0 /\ Armed(key)
           order == IF asked THEN Found(p, IF reuse = 0 THEN Len(p) - 1 ELSE reuse) ELSE lru
           S == {n \in DOMAIN hostChain[s] : n > reuse + 1 \/ reuse = 0}
           anchors == Minus(hostChain[s], S)
           st == [Store EXCEPT !.lru = order]
           ch == [hostChain EXCEPT ![s] = anchors]
           d == [prompt |-> p, pos |-> reuse, active |-> TRUE, stop |-> IF armed THEN b ELSE 0]
           sessions == [session EXCEPT ![s] = d]
           kept == Removed(retained, s)
<1>2. /\ ~session[s].active /\ observed' = Recorded(p) /\ bound' = [bound EXCEPT ![p] = @ + 1]
  BY DEF HostBind
<1>3. /\ counts' \in IF b = 0 THEN {counts} ELSE Counted(key)
      /\ Settle(st, ch, sessions, kept)
  BY <1>1
<1>4. /\ Store \in Stores /\ Capped(Store) /\ hostChain \in Chains /\ retained \in Seq(HostSlots)
      /\ session \in [HostSlots -> Sess] /\ observed \in Seq(HostPrompts)
  BY DEF HostInv, HostTypes
<1>5. reuse \in Nat /\ reuse <= Len(p) /\ p \in Heads /\ Len(p) \in Nat
  BY ReuseIs
<1>6. /\ b \in Nat /\ b <= Len(p)
      /\ b > 0 => b > reuse /\ \E i \in DOMAIN observed : b = CommonLen(observed[i], p)
  <2>1. CASE reuse + 1 < Len(p)
    BY <1>4, <1>5, <2>1, BoundaryIs
  <2>2. CASE ~(reuse + 1 < Len(p))
    BY <1>5, <2>2
  <2> QED
    BY <2>1, <2>2
<1> HIDE DEF b
<1>7. st \in Stores /\ Capped(st) /\ Kept(Store, Store) /\ st.entries = Store.entries /\ st.total = Store.total
  <2>1. st \in Stores
    <3>1. [Store EXCEPT !.lru = Found(p, IF reuse = 0 THEN Len(p) - 1 ELSE reuse)] \in Stores
      BY <1>4, FoundIs
    <3>2. [Store EXCEPT !.lru = lru] = Store
      BY DEF Store
    <3> QED
      BY <1>4, <3>1, <3>2
  <2>2. st.entries = Store.entries /\ st.total = Store.total
    BY DEF Store
  <2>3. Capped(st)
    <3> HIDE DEF st
    <3> QED
      BY <1>4, <2>2 DEF Capped
  <2>4. Kept(Store, Store)
    <3>1. Store.total \in Nat /\ Cardinality(DOMAIN Store.entries) \in Nat
      BY <1>4, StoreIs
    <3> QED
      BY <1>4, <3>1 DEF Kept
  <2> QED
    BY <2>1, <2>2, <2>3, <2>4
<1>8. ch \in Chains
  <2>1. anchors \in Anchors
    <3>1. hostChain[s] \in Anchors
      BY <1>4 DEF Chains
    <3> HIDE DEF S
    <3> QED
      BY <3>1, DropIs
  <2> HIDE DEF anchors
  <2> QED
    BY <1>4, <2>1 DEF Chains
<1>9. d \in Sess
  BY <1>5, <1>6 DEF Sess
<1>10. sessions \in [HostSlots -> Sess]
  <2> HIDE DEF d
  <2> QED
    BY <1>4, <1>9
<1>11. kept \in Seq(HostSlots)
  BY <1>4, RemovedIs
<1> HIDE DEF st, ch, sessions, kept, d
<1>12. /\ Store' \in Stores /\ Capped(Store') /\ hostChain' \in Chains /\ HostRamHeld'
       /\ session' = sessions /\ retained' = kept /\ Kept(Store', st)
  BY <1>3, <1>7, <1>8, <1>10, <1>11, SettleIs
<1>13. Kept(Store', Store)
  BY <1>7, <1>12 DEF Kept
<1>14. HostTypes'
  <2>1. observed' \in Seq(HostPrompts)
    BY <1>2, <1>4, RecordedIs
  <2> QED
    BY <1>10, <1>11, <1>12, <2>1 DEF HostTypes
<1>15. HostSessions'
  <2>1. session'[s] = d /\ \A r \in HostSlots \ {s} : session'[r] = session[r]
    BY <1>4, <1>12 DEF sessions
  <2>2. /\ d.pos <= Len(d.prompt) /\ d.stop <= Len(d.prompt) /\ d.prompt \in HostPrompts
        /\ d.stop > 0 => d.pos < d.stop
    BY <1>5, <1>6 DEF d
  <2>3. HostSessions
    BY DEF HostInv
  <2> QED
    BY <2>1, <2>2, <2>3 DEF HostSessions
<1>16. HostInv'
  BY <1>12, <1>14, <1>15 DEF HostInv
<1>17. session' = [session EXCEPT ![s] = [prompt |-> p, pos |-> reuse, active |-> TRUE,
                                          stop |-> IF b > 0 /\ Armed(key) THEN b ELSE 0]]
  BY <1>12 DEF sessions, d
<1> HIDE DEF key
<1>18. b = (IF reuse + 1 < Len(p) THEN Boundary(p, reuse) ELSE 0) /\ key = SubSeq(p, 1, b)
  BY DEF b, key
<1> QED
  BY <1>2, <1>3, <1>5, <1>6, <1>13, <1>16, <1>17, <1>18

\* The marks of t come from those of st, or key is marked.
MarksFrom(t, st, key, demand) ==
  \A k \in DOMAIN t.entries :
    t.entries[k].demand => \/ k \in DOMAIN st.entries /\ st.entries[k].demand
                           \/ k = key /\ demand

\* The parts of a prefill (apply_plan).
LEMMA PrefillIs ==
  ASSUME HostInv, NEW s \in HostSlots, HostPrefill(s)
  PROVE  /\ HostInv' /\ session[s].active /\ UNCHANGED <<observed, counts, bound>>
         /\ \E n \in Nat, demand \in BOOLEAN :
              /\ demand => n = session[s].stop /\ n > 0
              /\ MarksFrom(Store', Store, SubSeq(session[s].prompt, 1, n), demand)
              /\ session' = [session EXCEPT ![s] =
                               [prompt |-> session[s].prompt, pos |-> n, active |-> TRUE,
                                stop |-> IF demand THEN 0 ELSE session[s].stop]]
<1> DEFINE e == session[s]
           end == IF e.stop > e.pos THEN e.stop ELSE Len(e.prompt)
<1>1. /\ e.active /\ e.pos < Len(e.prompt) /\ UNCHANGED <<observed, counts, bound>>
  BY DEF HostPrefill
<1>2. PICK n \in (Strides \cup {end}) \cap (e.pos + 1 .. end) : \E bytes \in DumpBytes[n] :
           LET demand == e.stop > 0 /\ n >= e.stop
               done == n = Len(e.prompt)
               promote == n \in Strides \/ demand
               anchor == done \/ (n = LastStride /\ ~demand)
               others == IF anchor /\ promote /\ n \in StubWindow
                         THEN Minus(hostChain[s], StubWindow \ {n}) ELSE hostChain[s]
           IN  Settle(IF promote THEN PutWith(Store, SubSeq(e.prompt, 1, n), bytes, demand)
                                 ELSE Store,
                      IF anchor THEN [hostChain EXCEPT ![s] = PushAnchor(others, n, bytes)]
                                ELSE hostChain,
                      [session EXCEPT ![s] = [prompt |-> e.prompt, pos |-> n, active |-> TRUE,
                                              stop |-> IF demand THEN 0 ELSE e.stop]],
                      retained)
  BY DEF HostPrefill
<1> DEFINE demand == e.stop > 0 /\ n >= e.stop
           promote == n \in Strides \/ demand
           anchor == (n = Len(e.prompt)) \/ (n = LastStride /\ ~demand)
           others == IF anchor /\ promote /\ n \in StubWindow
                     THEN Minus(hostChain[s], StubWindow \ {n}) ELSE hostChain[s]
           key == SubSeq(e.prompt, 1, n)
           d == [prompt |-> e.prompt, pos |-> n, active |-> TRUE, stop |-> IF demand THEN 0 ELSE e.stop]
           sessions == [session EXCEPT ![s] = d]
<1>3. PICK bytes \in DumpBytes[n] :
        Settle(IF promote THEN PutWith(Store, key, bytes, demand) ELSE Store,
               IF anchor THEN [hostChain EXCEPT ![s] = PushAnchor(others, n, bytes)] ELSE hostChain,
               sessions, retained)
  BY <1>2
<1> DEFINE st == IF promote THEN PutWith(Store, key, bytes, demand) ELSE Store
           a == PushAnchor(others, n, bytes)
           ch == IF anchor THEN [hostChain EXCEPT ![s] = a] ELSE hostChain
<1>4. Settle(st, ch, sessions, retained)
  BY <1>3
<1>5. /\ Store \in Stores /\ Capped(Store) /\ hostChain \in Chains /\ retained \in Seq(HostSlots)
      /\ session \in [HostSlots -> Sess] /\ observed \in Seq(HostPrompts)
  BY DEF HostInv, HostTypes
<1>6. HostSessions /\ HostRamHeld
  BY DEF HostInv
<1>7. /\ e \in Sess /\ e.pos \in Nat /\ e.stop \in Nat /\ e.prompt \in Heads /\ Len(e.prompt) \in Nat
      /\ e.prompt \in HostPrompts /\ e.stop <= Len(e.prompt)
      /\ e.stop > 0 => e.pos < e.stop
  <2>1. e \in Sess
    BY <1>5
  <2>2. e.prompt \in Heads /\ Len(e.prompt) \in Nat
    BY <2>1 DEF Sess, Heads
  <2> QED
    BY <1>1, <1>6, <2>1, <2>2 DEF Sess, HostSessions
<1>8. /\ n \in 1 .. Len(e.prompt) /\ e.pos < n /\ n <= end
  <2>1. end \in Nat /\ end <= Len(e.prompt)
    BY <1>7
  <2>2. n \in e.pos + 1 .. end
    OBVIOUS
  <2> HIDE DEF end
  <2> QED
    BY <1>7, <2>1, <2>2
<1>9. demand => n = e.stop /\ n > 0
  BY <1>7, <1>8
<1>10. ~demand /\ e.stop > 0 => n < e.stop
  BY <1>7, <1>8
<1>11. bytes \in Nat \ {0}
  <2>1. DumpBytes[n] \subseteq Nat \ {0}
    BY <1>7, <1>8, HostAssumption
  <2> QED
    BY <2>1
<1>12. key \in Heads /\ n \in Nat /\ demand \in BOOLEAN
  <2>1. n \in Nat /\ n <= Len(e.prompt)
    BY <1>7, <1>8
  <2>2. key \in Seq(Nat)
    BY <1>7, <2>1, SubSeqProperties DEF Heads
  <2> QED
    BY <2>1, <2>2 DEF Heads
<1> HIDE DEF demand, promote, anchor, key
<1>13. st \in Stores /\ Capped(st) /\ MarksFrom(st, Store, key, demand)
  <2>1. CASE promote
    <3>1. st = PutWith(Store, key, bytes, demand)
      BY <2>1
    <3> HIDE DEF st
    <3> QED
      BY <1>5, <1>11, <1>12, <3>1, PutWithIs DEF MarksFrom
  <2>2. CASE ~promote
    <3>1. st = Store
      BY <2>2
    <3> HIDE DEF st
    <3> QED
      BY <1>5, <3>1 DEF MarksFrom
  <2> QED
    BY <2>1, <2>2
<1>14. ch \in Chains
  <2>1. hostChain[s] \in Anchors
    BY <1>5 DEF Chains
  <2>2. others \in Anchors
    BY <2>1, DropIs
  <2>3. a \in Anchors
    <3> HIDE DEF others
    <3>1. Plus(others, n, bytes) \in Anchors
      BY <1>11, <1>12, <2>2, PlusIs
    <3> QED
      BY <3>1, TrimIs DEF PushAnchor
  <2> HIDE DEF a
  <2>4. [hostChain EXCEPT ![s] = a] \in Chains
    BY <1>5, <2>3 DEF Chains
  <2> QED
    BY <1>5, <2>4
<1>15. d \in Sess
  BY <1>7, <1>12 DEF Sess
<1>16. sessions \in [HostSlots -> Sess]
  <2> HIDE DEF d
  <2> QED
    BY <1>5, <1>15
<1> HIDE DEF st, ch, sessions, d
<1>17. /\ Store' \in Stores /\ Capped(Store') /\ hostChain' \in Chains /\ HostRamHeld'
       /\ session' = sessions /\ retained' = retained /\ Kept(Store', st)
  BY <1>4, <1>5, <1>13, <1>14, <1>16, SettleIs
<1>18. MarksFrom(Store', Store, key, demand)
  BY <1>13, <1>17 DEF Kept, MarksFrom
<1>19. HostTypes'
  BY <1>1, <1>5, <1>16, <1>17 DEF HostTypes
<1>20. HostSessions'
  <2>1. session'[s] = d /\ \A r \in HostSlots \ {s} : session'[r] = session[r]
    BY <1>5, <1>17 DEF sessions
  <2>2. /\ d.pos <= Len(d.prompt) /\ d.stop <= Len(d.prompt) /\ d.prompt \in HostPrompts
        /\ d.stop > 0 => d.pos < d.stop
    <3>1. CASE demand
      BY <1>7, <1>8, <3>1 DEF d
    <3>2. CASE ~demand
      BY <1>7, <1>8, <1>10, <3>2 DEF d
    <3> QED
      BY <3>1, <3>2
  <2> QED
    BY <1>6, <2>1, <2>2 DEF HostSessions
<1>21. HostInv'
  BY <1>17, <1>19, <1>20 DEF HostInv
<1>22. session' = [session EXCEPT ![s] = [prompt |-> e.prompt, pos |-> n, active |-> TRUE,
                                          stop |-> IF demand THEN 0 ELSE e.stop]]
  BY <1>17 DEF sessions, d
<1>23. key = SubSeq(e.prompt, 1, n)
  BY DEF key
<1> QED
  BY <1>1, <1>9, <1>12, <1>18, <1>21, <1>22, <1>23

\* A request ends: at most its chain goes (finish_slot).
LEMMA FinishIs ==
  ASSUME HostInv, NEW s \in HostSlots, HostFinish(s)
  PROVE  /\ HostInv' /\ UNCHANGED <<storeVars, observed, counts, bound>>
         /\ \A r \in HostSlots : session'[r] = session[r] \/ session'[r].stop = 0
<1>1. /\ Store \in Stores /\ Capped(Store) /\ hostChain \in Chains /\ retained \in Seq(HostSlots)
      /\ session \in [HostSlots -> Sess] /\ observed \in Seq(HostPrompts)
      /\ HostSessions /\ HostRamHeld
  BY DEF HostInv, HostTypes
<1>2. UNCHANGED <<storeVars, observed, counts, bound>>
  BY DEF HostFinish
<1>3. entries' = entries /\ lru' = lru /\ total' = total /\ observed' = observed /\ Store' = Store
  BY <1>2 DEF storeVars, Store
<1> DEFINE e == session[s]
           d == [prompt |-> SubSeq(e.prompt, 1, e.pos), pos |-> e.pos, stop |-> 0, active |-> FALSE]
<1>4. CASE /\ session' = [session EXCEPT ![s] = d]
           /\ retained' = Append(retained, s) /\ UNCHANGED hostChain
  <2>1. e \in Sess /\ e.pos <= Len(e.prompt) /\ e.prompt \in Heads /\ e.pos \in Nat
    <3>1. e \in Sess
      BY <1>1
    <3> QED
      BY <1>1, <3>1 DEF Sess, HostSessions
  <2>2. d.prompt \in Heads /\ Len(d.prompt) = e.pos
    <3>1. SubSeq(e.prompt, 1, e.pos) \in Seq(Nat) /\ Len(SubSeq(e.prompt, 1, e.pos)) = e.pos
      BY <2>1, SubSeqProperties DEF Heads
    <3> QED
      BY <3>1 DEF Heads
  <2>3. d \in Sess /\ d.pos = Len(d.prompt) /\ d.stop = 0 /\ d.active = FALSE /\ d.pos \in Nat
    BY <2>1, <2>2 DEF Sess
  <2> HIDE DEF d
  <2>4. session' \in [HostSlots -> Sess]
    BY <1>1, <1>4, <2>3
  <2>5. session'[s] = d /\ \A r \in HostSlots \ {s} : session'[r] = session[r]
    BY <1>1, <1>4
  <2>6. retained' \in Seq(HostSlots)
    BY <1>1, <1>4, AppendProperties
  <2>7. HostTypes'
    BY <1>1, <1>3, <1>4, <2>4, <2>6 DEF HostTypes
  <2>8. HostSessions'
    <3>1. d.pos <= Len(d.prompt) /\ d.stop <= Len(d.prompt) /\ ~d.active /\ ~(d.stop > 0)
      BY <2>3
    <3> QED
      BY <1>1, <2>5, <3>1 DEF HostSessions
  <2>9. HostRamHeld'
    <3>1. ChainsTotal(hostChain)' = ChainsTotal(hostChain)
      BY <1>4 DEF ChainsTotal, SumOf
    <3>2. HostRamHeld' = HostRamHeld
      BY <1>3, <1>4, <3>1 DEF HostRamHeld
    <3> QED
      BY <1>1, <3>2
  <2> QED
    BY <1>2, <2>3, <2>5, <2>7, <2>8, <2>9 DEF HostInv
<1>5. CASE /\ session' = [session EXCEPT ![s] = NoSession]
           /\ hostChain' = [hostChain EXCEPT ![s] = NoKeys] /\ UNCHANGED retained
  <2>1. /\ NoSession \in Sess /\ NoSession.pos = 0 /\ NoSession.stop = 0 /\ NoSession.active = FALSE
        /\ Len(NoSession.prompt) = 0
    BY DEF NoSession, Sess, Heads
  <2>2. session' \in [HostSlots -> Sess]
    BY <1>1, <1>5, <2>1
  <2>3. session'[s] = NoSession /\ \A r \in HostSlots \ {s} : session'[r] = session[r]
    BY <1>1, <1>5
  <2>4. NoKeys \in Anchors /\ DOMAIN NoKeys = {} /\ SumOf(NoKeys) = 0
    BY NoKeysIs
  <2>5. hostChain' \in Chains
    BY <1>1, <1>5, <2>4 DEF Chains
  <2>6. hostChain'[s] = NoKeys /\ \A r \in HostSlots \ {s} : hostChain'[r] = hostChain[r]
    BY <1>1, <1>5 DEF Chains
  <2>7. HostTypes'
    BY <1>1, <1>3, <1>5, <2>2, <2>5 DEF HostTypes
  <2>8. HostSessions'
    BY <1>1, <2>1, <2>3 DEF HostSessions
  <2>9. HostRamHeld'
    <3>1. ChainsTotal(hostChain') <= ChainsTotal(hostChain) /\ ChainsTotal(hostChain) \in Nat /\ ChainsTotal(hostChain') \in Nat
      <4>1. \A r \in HostSlots : SumOf(hostChain'[r]) <= SumOf(hostChain[r])
        <5>1. \A r \in HostSlots : SumOf(hostChain[r]) \in Nat
          BY <1>1, AnchorsAre DEF Chains
        <5> QED
          BY <2>4, <2>6, <5>1
      <4> QED
        BY <1>1, <2>5, <4>1, ChainsCount
    <3>2. total \in Nat /\ HostCap \in Nat
      <4>1. Store.total \in Nat
        BY <1>1, StoreIs
      <4> QED
        BY <4>1, HostAssumption DEF Store
    <3>3. total + ChainsTotal(hostChain') > HostCap => total + ChainsTotal(hostChain) > HostCap
      BY <3>1, <3>2
    <3>4. total' + ChainsTotal(hostChain') > HostCap => total + ChainsTotal(hostChain) > HostCap
      BY <1>3, <3>3
    <3> HIDE DEF d
    <3>5. SUFFICES ASSUME total + ChainsTotal(hostChain) > HostCap
                   PROVE  /\ \A k \in DOMAIN entries' : Len(k) \in StubWindow
                          /\ \A r \in HostSlots : \A n \in DOMAIN hostChain'[r] :
                               n \in StubWindow \/ n = Max(DOMAIN hostChain'[r])
      BY <3>4 DEF HostRamHeld
    <3>6. /\ \A k \in DOMAIN entries : Len(k) \in StubWindow
          /\ \A r \in HostSlots : \A n \in DOMAIN hostChain[r] :
               n \in StubWindow \/ n = Max(DOMAIN hostChain[r])
      BY <1>1, <3>5 DEF HostRamHeld
    <3> QED
      BY <1>3, <2>4, <2>6, <3>6
  <2> QED
    BY <1>2, <2>1, <2>3, <2>7, <2>8, <2>9 DEF HostInv
<1> QED
  BY <1>4, <1>5 DEF HostFinish

\* Idle slots give their cells up (release_retained_under_pressure).
LEMMA ReleaseIs ==
  ASSUME HostInv, HostRelease
  PROVE  HostInv' /\ UNCHANGED <<session, observed, counts, bound>> /\ Kept(Store', Store)
<1>1. /\ Store \in Stores /\ Capped(Store) /\ hostChain \in Chains /\ retained \in Seq(HostSlots)
      /\ session \in [HostSlots -> Sess] /\ observed \in Seq(HostPrompts)
      /\ HostSessions /\ HostRamHeld
  BY DEF HostInv, HostTypes
<1>2. Settle(Store, hostChain, session, <<>>) /\ UNCHANGED <<observed, counts, bound>>
  BY DEF HostRelease
<1>3. <<>> \in Seq(HostSlots)
  OBVIOUS
<1>4. /\ Store' \in Stores /\ Capped(Store') /\ hostChain' \in Chains /\ HostRamHeld'
      /\ session' = session /\ retained' = <<>> /\ Kept(Store', Store)
  BY <1>1, <1>2, <1>3, SettleIs
<1>5. HostTypes' /\ HostSessions'
  BY <1>1, <1>2, <1>3, <1>4 DEF HostTypes, HostSessions
<1> QED
  BY <1>2, <1>4, <1>5 DEF HostInv

\* The worker starts anew and the store stays.
LEMMA PanicIs ==
  ASSUME HostInv, Panics
  PROVE  /\ HostInv' /\ UNCHANGED <<storeVars, observed, counts, bound>>
         /\ \A r \in HostSlots : session'[r].stop = 0
<1>1. /\ Store \in Stores /\ Capped(Store) /\ observed \in Seq(HostPrompts)
      /\ hostChain \in Chains /\ HostRamHeld
  BY DEF HostInv, HostTypes
<1>2. /\ session' = [s \in HostSlots |-> NoSession] /\ hostChain' = [s \in HostSlots |-> NoKeys]
      /\ retained' = <<>> /\ UNCHANGED <<storeVars, observed, counts, bound>>
  BY DEF Panics
<1>3. entries' = entries /\ lru' = lru /\ total' = total /\ observed' = observed /\ Store' = Store
  BY <1>2 DEF storeVars, Store
<1>4. /\ NoSession \in Sess /\ NoSession.pos = 0 /\ NoSession.stop = 0 /\ NoSession.active = FALSE
      /\ Len(NoSession.prompt) = 0
  BY DEF NoSession, Sess, Heads
<1>5. NoKeys \in Anchors /\ DOMAIN NoKeys = {} /\ SumOf(NoKeys) = 0
  BY NoKeysIs
<1>6. \A r \in HostSlots : session'[r] = NoSession /\ hostChain'[r] = NoKeys
  BY <1>2
<1>7. hostChain' \in Chains /\ session' \in [HostSlots -> Sess]
  BY <1>2, <1>4, <1>5 DEF Chains
<1>8. HostTypes' /\ HostSessions'
  <2>1. <<>> \in Seq(HostSlots)
    OBVIOUS
  <2>2. HostTypes'
    BY <1>1, <1>2, <1>3, <1>7, <2>1 DEF HostTypes
  <2>3. HostSessions'
    BY <1>4, <1>6 DEF HostSessions
  <2> QED
    BY <2>2, <2>3
<1>9. HostRamHeld'
  <2>1. /\ ChainsTotal(hostChain') <= ChainsTotal(hostChain) /\ ChainsTotal(hostChain) \in Nat
        /\ ChainsTotal(hostChain') \in Nat
    <3>1. \A r \in HostSlots : SumOf(hostChain'[r]) <= SumOf(hostChain[r])
      <4>1. \A r \in HostSlots : SumOf(hostChain[r]) \in Nat
        BY <1>1, AnchorsAre DEF Chains
      <4> QED
        BY <1>5, <1>6, <4>1
    <3> QED
      BY <1>1, <1>7, <3>1, ChainsCount
  <2>2. total \in Nat /\ HostCap \in Nat
    <3>1. Store.total \in Nat
      BY <1>1, StoreIs
    <3> QED
      BY <3>1, HostAssumption DEF Store
  <2>3. total' + ChainsTotal(hostChain') > HostCap => total + ChainsTotal(hostChain) > HostCap
    <3>1. total + ChainsTotal(hostChain') > HostCap => total + ChainsTotal(hostChain) > HostCap
      BY <2>1, <2>2
    <3> QED
      BY <1>3, <3>1
  <2>4. SUFFICES ASSUME total + ChainsTotal(hostChain) > HostCap
                 PROVE  /\ \A k \in DOMAIN entries' : Len(k) \in StubWindow
                        /\ \A r \in HostSlots : \A n \in DOMAIN hostChain'[r] :
                             n \in StubWindow \/ n = Max(DOMAIN hostChain'[r])
    BY <2>3 DEF HostRamHeld
  <2>5. \A k \in DOMAIN entries : Len(k) \in StubWindow
    BY <1>1, <2>4 DEF HostRamHeld
  <2> QED
    BY <1>3, <1>5, <1>6, <2>5
<1> QED
  BY <1>2, <1>4, <1>6, <1>8, <1>9 DEF HostInv
-----------------------------------------------------------------------------
\* Every step keeps the invariant.
LEMMA HostNextInv == HostInv /\ [HostNext]_hostVars => HostInv'
<1> SUFFICES ASSUME HostInv, [HostNext]_hostVars PROVE HostInv'
  OBVIOUS
<1>1. CASE UNCHANGED hostVars
  <2>1. UNCHANGED <<entries, lru, total, observed, session, hostChain, retained>>
    BY <1>1 DEF hostVars, storeVars
  <2>2. Store' = Store /\ ChainsTotal(hostChain)' = ChainsTotal(hostChain)
    BY <2>1 DEF Store, ChainsTotal, SumOf
  <2>3. HostTypes' /\ HostSessions'
    BY <2>1, <2>2 DEF HostInv, HostTypes, HostSessions
  <2>4. HostRamHeld' = HostRamHeld
    BY <2>1, <2>2 DEF HostRamHeld
  <2> QED
    BY <2>3, <2>4 DEF HostInv
<1>2. ASSUME NEW s \in HostSlots, HostPrefill(s) PROVE HostInv'
  BY <1>2, PrefillIs
<1>3. ASSUME NEW s \in HostSlots, HostFinish(s) PROVE HostInv'
  BY <1>3, FinishIs
<1>4. ASSUME NEW s \in HostSlots, NEW p \in HostPrompts, HostBind(s, p) PROVE HostInv'
  BY <1>4, BindIs
<1>5. CASE HostRelease
  BY <1>5, ReleaseIs
<1>6. CASE Panics
  BY <1>6, PanicIs
<1> QED
  BY <1>1, <1>2, <1>3, <1>4, <1>5, <1>6 DEF HostNext

\* It holds always.
LEMMA HostInvAlways == HostInit /\ [][HostNext]_hostVars => []HostInv
BY HostInitInv, HostNextInv, PTL

\* The caps are compared with the bytes that are there, the order of use names
\* each dump once, and host memory is within its cap or holds only what is
\* protected (PrefixStore, enforce_host_ram_cap).
THEOREM HostRamSoundAlways == HostInit /\ [][HostNext]_hostVars => []HostRamSound
<1>1. HostInv => HostRamSound
  <2> SUFFICES ASSUME HostInv PROVE HostRamSound
    OBVIOUS
  <2>1. Store \in Stores /\ Capped(Store) /\ HostRamHeld
    BY DEF HostInv, HostTypes
  <2>2. /\ Store.lru \in Seq(Heads) /\ Once(Store.lru) /\ ToSet(Store.lru) = DOMAIN Store.entries
        /\ Store.total = SumOf(Weights(Store.entries))
    BY <2>1, StoreIs
  <2>3. Store.entries = entries /\ Store.lru = lru /\ Store.total = total
    BY DEF Store
  <2>4. Len(lru) = Cardinality(DOMAIN entries)
    BY <2>2, <2>3, OnceCounts
  <2>5. StoreAccounted
    BY <2>1, <2>2, <2>3, <2>4 DEF StoreAccounted, Capped, Weights
  <2> QED
    BY <2>1, <2>5 DEF HostRamSound
<1> QED
  BY <1>1, HostInvAlways, PTL

-----------------------------------------------------------------------------
(* How often prompts were bound.                                            *)

\* How often a prompt was bound that k heads.
BindsOf(f, k) == SumOf([p \in {q \in HostPrompts : IsPrefix(k, q)} |-> f[p]])

\* A part of a prompt heads it, and any other that begins so.
LEMMA PartHeads ==
  ASSUME NEW p \in Heads, NEW o \in Heads, NEW n \in Nat, n <= Len(p), n <= Len(o),
         SubSeq(o, 1, n) = SubSeq(p, 1, n)
  PROVE  IsPrefix(SubSeq(p, 1, n), o) /\ IsPrefix(SubSeq(p, 1, n), p)
<1> DEFINE k == SubSeq(p, 1, n)
<1>1. Len(p) \in Nat /\ Len(o) \in Nat
  BY DEF Heads
<1>2. k \in Seq(Nat) /\ Len(k) = n /\ k = [i \in 1 .. n |-> p[i]]
  BY <1>1, SubSeqProperties DEF Heads
<1> HIDE DEF k
<1>3. SubSeq(k, 1, n) = k
  BY <1>2
<1>4. k = SubSeq(p, 1, n) /\ k = SubSeq(o, 1, n)
  BY DEF k
<1>5. IsPrefix(k, o) /\ IsPrefix(k, p)
  BY <1>1, <1>2, <1>3, <1>4 DEF IsPrefix
<1> QED
  BY <1>5 DEF k

\* The binds counted.
LEMMA BindsIs ==
  ASSUME NEW f \in [HostPrompts -> Nat], NEW k
  PROVE  /\ Tally([p \in {q \in HostPrompts : IsPrefix(k, q)} |-> f[p]])
         /\ BindsOf(f, k) \in Nat
<1> DEFINE S == {q \in HostPrompts : IsPrefix(k, q)}
           F == [p \in S |-> f[p]]
<1>1. IsFiniteSet(S)
  <2>1. S \in SUBSET HostPrompts
    OBVIOUS
  <2> HIDE DEF S
  <2> QED
    BY <2>1, HostAssumption, FS_Subset
<1>2. Tally(F)
  BY <1>1 DEF Tally
<1>3. BindsOf(f, k) = SumOf(F)
  BY DEF BindsOf
<1> HIDE DEF F
<1>4. SumOf(F) \in Nat
  BY <1>2, Shares
<1> QED
  BY <1>2, <1>3, <1>4 DEF F

\* One bind more.
LEMMA BindsUp ==
  ASSUME NEW f \in [HostPrompts -> Nat], NEW p \in HostPrompts, NEW g,
         g = [f EXCEPT ![p] = @ + 1], NEW k
  PROVE  /\ g \in [HostPrompts -> Nat] /\ BindsOf(f, k) \in Nat /\ BindsOf(g, k) \in Nat
         /\ BindsOf(f, k) <= BindsOf(g, k)
<1> DEFINE S == {q \in HostPrompts : IsPrefix(k, q)}
           F == [q \in S |-> f[q]]
           G == [q \in S |-> g[q]]
<1>1. g \in [HostPrompts -> Nat] /\ g[p] = f[p] + 1 /\ \A q \in HostPrompts \ {p} : g[q] = f[q]
  OBVIOUS
<1>2. Tally(F) /\ Tally(G) /\ BindsOf(f, k) \in Nat /\ BindsOf(g, k) \in Nat
  BY <1>1, BindsIs
<1>3. BindsOf(f, k) = SumOf(F) /\ BindsOf(g, k) = SumOf(G)
  BY DEF BindsOf
<1>4. DOMAIN F = S /\ DOMAIN G = S /\ \A q \in S : F[q] = f[q] /\ G[q] = g[q]
  OBVIOUS
<1>5. S \subseteq HostPrompts
  OBVIOUS
<1> HIDE DEF F, G
<1>6. BindsOf(f, k) <= BindsOf(g, k)
  <2>1. \A q \in S : F[q] <= G[q]
    <3> TAKE q \in S
    <3>1. q \in HostPrompts /\ f[q] \in Nat
      OBVIOUS
    <3>2. g[q] = f[q] \/ g[q] = f[q] + 1
      BY <1>1, <3>1
    <3> QED
      BY <1>4, <3>1, <3>2
  <2>2. DOMAIN F \subseteq DOMAIN G /\ \A x \in DOMAIN F : F[x] <= G[x]
    BY <1>4, <2>1
  <2> HIDE DEF S
  <2>3. SumOf(F) <= SumOf(G)
    BY <1>2, <2>2, SumGrows
  <2> QED
    BY <1>3, <2>3
<1> QED
  BY <1>1, <1>2, <1>6

\* And one more of a prompt that k heads.
LEMMA BindsMore ==
  ASSUME NEW f \in [HostPrompts -> Nat], NEW g \in [HostPrompts -> Nat], NEW p \in HostPrompts,
         g[p] = f[p] + 1, \A q \in HostPrompts \ {p} : g[q] = f[q], NEW k, IsPrefix(k, p)
  PROVE  BindsOf(g, k) = BindsOf(f, k) + 1
<1> DEFINE S == {q \in HostPrompts : IsPrefix(k, q)}
           F == [q \in S |-> f[q]]
           G == [q \in S |-> g[q]]
<1>1. g \in [HostPrompts -> Nat] /\ g[p] = f[p] + 1 /\ \A q \in HostPrompts \ {p} : g[q] = f[q]
  OBVIOUS
<1>2. Tally(F) /\ Tally(G) /\ BindsOf(f, k) \in Nat /\ BindsOf(g, k) \in Nat
  BY <1>1, BindsIs
<1>3. BindsOf(f, k) = SumOf(F) /\ BindsOf(g, k) = SumOf(G)
  BY DEF BindsOf
<1>4. DOMAIN F = S /\ DOMAIN G = S /\ p \in S /\ \A q \in S : F[q] = f[q] /\ G[q] = g[q]
  OBVIOUS
<1>5. S \subseteq HostPrompts
  OBVIOUS
<1> HIDE DEF F, G, S
<1>6. F[p] = f[p] /\ G[p] = f[p] + 1 /\ \A q \in S \ {p} : G[q] = F[q]
  BY <1>1, <1>4, <1>5
<1>7. p \in DOMAIN F /\ DOMAIN G = DOMAIN F /\ \A x \in DOMAIN F \ {p} : G[x] = F[x]
  BY <1>4, <1>6
<1>8. SumOf(G) = SumOf(F) - F[p] + G[p]
  BY <1>2, <1>7, SumUp
<1>9. f[p] \in Nat
  OBVIOUS
<1> QED
  BY <1>2, <1>3, <1>6, <1>8, <1>9

\* A bind where the prompt leaves one that was bound before is at least the second.
LEMMA BindsTwo ==
  ASSUME NEW f \in [HostPrompts -> Nat], NEW p \in HostPrompts, NEW g,
         g = [f EXCEPT ![p] = @ + 1], NEW o \in HostPrompts, f[o] >= 1,
         NEW k, IsPrefix(k, p), IsPrefix(k, o)
  PROVE  BindsOf(g, k) >= 2
<1> DEFINE S == {q \in HostPrompts : IsPrefix(k, q)}
           G == [q \in S |-> g[q]]
<1>1. g \in [HostPrompts -> Nat] /\ g[p] = f[p] + 1 /\ \A q \in HostPrompts \ {p} : g[q] = f[q]
  OBVIOUS
<1>2. Tally(G) /\ BindsOf(g, k) \in Nat
  BY <1>1, BindsIs
<1>3. BindsOf(g, k) = SumOf(G)
  BY DEF BindsOf
<1>4. p \in DOMAIN G /\ o \in DOMAIN G /\ G[p] = g[p] /\ G[o] = g[o]
  OBVIOUS
<1> HIDE DEF G
<1>5. f[p] \in Nat /\ f[o] \in Nat
  OBVIOUS
<1>6. CASE o = p
  <2>1. G[p] <= SumOf(G)
    BY <1>2, <1>4, SumFacts
  <2> QED
    BY <1>1, <1>2, <1>3, <1>4, <1>5, <1>6, <2>1
<1>7. CASE o # p
  <2>1. G[p] + G[o] <= SumOf(G)
    BY <1>2, <1>4, <1>7, SumOfTwo
  <2>2. G[p] >= 1 /\ G[o] >= 1 /\ G[p] \in Nat /\ G[o] \in Nat
    BY <1>1, <1>4, <1>5, <1>7
  <2> QED
    BY <1>2, <1>3, <2>1, <2>2
<1> QED
  BY <1>6, <1>7

\* The table of boundaries with one counted (observe_boundary).
LEMMA CountedIs ==
  ASSUME NEW key, NEW t \in Counted(key)
  PROVE  \A k \in DOMAIN t : \/ k \in DOMAIN counts /\ k # key /\ t[k] = counts[k]
                             \/ k = key /\ t[k] = Lesser(Count(key), 3)
<1> DEFINE v == Lesser(Count(key), 3)
           table == Plus(counts, key, v)
<1>1. \A k \in DOMAIN table : \/ k \in DOMAIN counts /\ k # key /\ table[k] = counts[k]
                              \/ k = key /\ table[k] = v
  BY DEF Plus
<1>2. t = table \/ \E k \in DOMAIN table : t = Minus(table, {k})
  <2>1. Counted(key) = IF Cardinality(DOMAIN table) <= DemandMax THEN {table}
                       ELSE {Minus(table, {k}) : k \in DOMAIN table}
    BY DEF Counted
  <2> HIDE DEF table
  <2> QED
    BY <2>1
<1> HIDE DEF table, v
<1>3. CASE t = table
  BY <1>1, <1>3 DEF v
<1>4. CASE \E k \in DOMAIN table : t = Minus(table, {k})
  <2>1. PICK x \in DOMAIN table : t = Minus(table, {x})
    BY <1>4
  <2>2. DOMAIN t = DOMAIN table \ {x} /\ \A k \in DOMAIN table \ {x} : t[k] = table[k]
    BY <2>1 DEF Minus
  <2> QED
    BY <1>1, <2>2 DEF v
<1> QED
  BY <1>2, <1>3, <1>4

-----------------------------------------------------------------------------
(* Marks, stops and counts.                                                 *)

\* What the table of boundaries, the armed stops and the marks say of the
\* prompts that were bound.
CountsInv ==
  \A k \in DOMAIN counts : counts[k] \in 1 .. 3 /\ Lesser(counts[k] + 1, 3) <= BindsOf(bound, k)
StopsInv ==
  \A s \in HostSlots :
    session[s].stop > 0 => BindsOf(bound, SubSeq(session[s].prompt, 1, session[s].stop)) >= 3
MarksInv == \A k \in DOMAIN Store.entries : Store.entries[k].demand => BindsOf(bound, k) >= 3

DemandInv ==
  /\ bound \in [HostPrompts -> Nat] /\ \A i \in DOMAIN observed : bound[observed[i]] >= 1
  /\ CountsInv /\ StopsInv /\ MarksInv

\* Nothing was bound yet.
LEMMA DemandInit == HostInit => DemandInv
<1> SUFFICES ASSUME HostInit PROVE DemandInv
  OBVIOUS
<1>1. bound \in [HostPrompts -> Nat] /\ DOMAIN observed = {}
  BY DEF HostInit
<1>2. CountsInv
  BY DEF HostInit, NoKeys, CountsInv
<1>3. MarksInv
  BY DEF HostInit, NoKeys, Store, MarksInv
<1>4. StopsInv
  <2>1. NoSession.stop = 0
    BY DEF NoSession
  <2>2. \A s \in HostSlots : session[s].stop = 0
    BY <2>1 DEF HostInit
  <2> QED
    BY <2>2 DEF StopsInv
<1> QED
  BY <1>1, <1>2, <1>3, <1>4 DEF DemandInv

\* A bind: a boundary that is counted again heads three prompts by now, one
\* counted for the first time heads two (observe_boundary).
LEMMA BindDemand ==
  ASSUME HostInv, DemandInv, NEW s \in HostSlots, NEW p \in HostPrompts, HostBind(s, p)
  PROVE  DemandInv'
<1>1. /\ ~session[s].active /\ Kept(Store', Store)
      /\ observed' = Recorded(p) /\ bound' = [bound EXCEPT ![p] = @ + 1]
  BY BindIs
<1>2. PICK reuse \in Nat :
              LET b == IF reuse + 1 < Len(p) THEN Boundary(p, reuse) ELSE 0
                  key == SubSeq(p, 1, b)
              IN  /\ b \in Nat /\ b <= Len(p)
                  /\ b > 0 => \E i \in DOMAIN observed : b = CommonLen(observed[i], p)
                  /\ counts' \in IF b = 0 THEN {counts} ELSE Counted(key)
                  /\ session' = [session EXCEPT ![s] =
                                   [prompt |-> p, pos |-> reuse, active |-> TRUE,
                                    stop |-> IF b > 0 /\ Armed(key) THEN b ELSE 0]]
  BY BindIs
<1> DEFINE b == IF reuse + 1 < Len(p) THEN Boundary(p, reuse) ELSE 0
           key == SubSeq(p, 1, b)
           armed == b > 0 /\ Armed(key)
           d == [prompt |-> p, pos |-> reuse, active |-> TRUE, stop |-> IF armed THEN b ELSE 0]
<1>3. /\ b \in Nat /\ b <= Len(p)
      /\ b > 0 => \E i \in DOMAIN observed : b = CommonLen(observed[i], p)
      /\ counts' \in IF b = 0 THEN {counts} ELSE Counted(key)
      /\ session' = [session EXCEPT ![s] = d]
  BY <1>2
<1> HIDE DEF b
<1>4. /\ bound \in [HostPrompts -> Nat] /\ \A i \in DOMAIN observed : bound[observed[i]] >= 1
      /\ CountsInv /\ StopsInv /\ MarksInv
  BY DEF DemandInv
<1>5. /\ observed \in Seq(HostPrompts) /\ session \in [HostSlots -> Sess]
  BY DEF HostInv, HostTypes
<1>6. p \in Heads
  BY HostAssumption DEF Heads
<1>7. bound' \in [HostPrompts -> Nat]
  BY <1>1, <1>4
<1>8. \A k : BindsOf(bound, k) \in Nat /\ BindsOf(bound', k) \in Nat /\ BindsOf(bound, k) <= BindsOf(bound', k)
  BY <1>1, <1>4, BindsUp
<1>9. \A i \in DOMAIN observed' : bound'[observed'[i]] >= 1
  <2> SUFFICES ASSUME NEW i \in DOMAIN observed' PROVE bound'[observed'[i]] >= 1
    OBVIOUS
  <2>1. observed'[i] = p \/ \E j \in DOMAIN observed : observed'[i] = observed[j]
    BY <1>1, <1>5, RecordedIs
  <2>2. CASE observed'[i] = p
    BY <1>1, <1>4, <2>2
  <2>3. CASE \E j \in DOMAIN observed : observed'[i] = observed[j]
    <3>1. PICK j \in DOMAIN observed : observed'[i] = observed[j]
      BY <2>3
    <3>2. observed[j] \in HostPrompts
      BY <1>5
    <3>3. bound[observed[j]] >= 1 /\ bound[observed[j]] \in Nat
      BY <1>4, <3>2
    <3>4. bound'[observed[j]] = bound[observed[j]] \/ bound'[observed[j]] = bound[observed[j]] + 1
      BY <1>1, <1>4, <3>2
    <3> QED
      BY <3>1, <3>3, <3>4
  <2> QED
    BY <2>1, <2>2, <2>3
<1>10. ASSUME b > 0
       PROVE  /\ Lesser(Count(key), 3) \in 1 .. 3
              /\ Lesser(Lesser(Count(key), 3) + 1, 3) <= BindsOf(bound', key)
              /\ Count(key) >= 2 => BindsOf(bound', key) >= 3
  <2>1. PICK i \in DOMAIN observed : b = CommonLen(observed[i], p)
    BY <1>3, <1>10
  <2> DEFINE o == observed[i]
  <2>2. o \in HostPrompts /\ o \in Heads /\ bound[o] >= 1
    BY <1>4, <1>5, HostAssumption DEF Heads
  <2> HIDE DEF o
  <2>3. b <= Len(o) /\ SubSeq(o, 1, b) = SubSeq(p, 1, b)
    <3>1. b = CommonLen(o, p)
      BY <2>1 DEF o
    <3> QED
      BY <1>6, <2>2, <3>1, CommonIs
  <2>4. IsPrefix(key, o) /\ IsPrefix(key, p)
    BY <1>3, <1>6, <2>2, <2>3, PartHeads
  <2> HIDE DEF key
  <2>5. BindsOf(bound', key) >= 2
    BY <1>1, <1>4, <2>2, <2>4, BindsTwo
  <2>6. BindsOf(bound', key) = BindsOf(bound, key) + 1
    <3>1. IsPrefix(key, p) /\ bound \in [HostPrompts -> Nat] /\ bound' \in [HostPrompts -> Nat]
      BY <1>4, <1>7, <2>4
    <3>2. bound'[p] = bound[p] + 1 /\ \A q \in HostPrompts \ {p} : bound'[q] = bound[q]
      BY <1>1, <1>4
    <3> QED
      BY <3>1, <3>2, BindsMore
  <2>7. BindsOf(bound, key) \in Nat /\ BindsOf(bound', key) \in Nat
    BY <1>8
  <2>8. CASE key \notin DOMAIN counts
    <3>1. Count(key) = 1
      BY <2>8 DEF Count
    <3> QED
      BY <2>5, <2>7, <3>1 DEF Lesser
  <2>9. CASE key \in DOMAIN counts
    <3>1. Count(key) = counts[key] + 1
      BY <2>9 DEF Count
    <3>2. counts[key] \in 1 .. 3 /\ Lesser(counts[key] + 1, 3) <= BindsOf(bound, key)
      BY <1>4, <2>9 DEF CountsInv
    <3> QED
      BY <2>6, <2>7, <3>1, <3>2 DEF Lesser
  <2> QED
    BY <2>8, <2>9
<1>11. CountsInv'
  <2>1. CASE b = 0
    <3>1. counts' = counts
      BY <1>3, <2>1
    <3>2. \A k \in DOMAIN counts : Lesser(counts[k] + 1, 3) <= BindsOf(bound', k)
      <4> TAKE k \in DOMAIN counts
      <4>1. counts[k] \in 1 .. 3 /\ Lesser(counts[k] + 1, 3) <= BindsOf(bound, k)
        BY <1>4 DEF CountsInv
      <4>2. Lesser(counts[k] + 1, 3) \in Nat
        BY <4>1 DEF Lesser
      <4> QED
        BY <1>8, <4>1, <4>2
    <3> QED
      BY <1>4, <3>1, <3>2 DEF CountsInv
  <2>2. CASE b # 0
    <3>1. b > 0 /\ counts' \in Counted(key)
      BY <1>3, <2>2
    <3> HIDE DEF key
    <3>2. SUFFICES ASSUME NEW k \in DOMAIN counts'
                   PROVE  counts'[k] \in 1 .. 3 /\ Lesser(counts'[k] + 1, 3) <= BindsOf(bound', k)
      BY DEF CountsInv
    <3>3. \/ k \in DOMAIN counts /\ k # key /\ counts'[k] = counts[k]
          \/ k = key /\ counts'[k] = Lesser(Count(key), 3)
      BY <3>1, CountedIs
    <3>4. CASE k \in DOMAIN counts /\ k # key /\ counts'[k] = counts[k]
      <4>1. counts[k] \in 1 .. 3 /\ Lesser(counts[k] + 1, 3) <= BindsOf(bound, k)
        BY <1>4, <3>4 DEF CountsInv
      <4>2. Lesser(counts[k] + 1, 3) \in Nat
        BY <4>1 DEF Lesser
      <4> QED
        BY <1>8, <3>4, <4>1, <4>2
    <3>5. CASE k = key /\ counts'[k] = Lesser(Count(key), 3)
      BY <1>10, <3>1, <3>5
    <3> QED
      BY <3>3, <3>4, <3>5
  <2> QED
    BY <2>1, <2>2
<1>12. StopsInv'
  <2>1. session'[s] = d /\ \A r \in HostSlots \ {s} : session'[r] = session[r]
    BY <1>3, <1>5
  <2>2. d.stop > 0 => BindsOf(bound', SubSeq(d.prompt, 1, d.stop)) >= 3
    <3> SUFFICES ASSUME d.stop > 0 PROVE BindsOf(bound', SubSeq(d.prompt, 1, d.stop)) >= 3
      OBVIOUS
    <3>1. d.stop = IF armed THEN b ELSE 0
      OBVIOUS
    <3>2. armed /\ d.stop = b /\ d.prompt = p
      BY <3>1
    <3>3. b > 0 /\ Count(key) >= 2
      BY <3>2 DEF Armed
    <3>4. BindsOf(bound', key) >= 3
      BY <1>10, <3>3
    <3> QED
      BY <3>2, <3>4
  <2> HIDE DEF d
  <2>3. SUFFICES ASSUME NEW r \in HostSlots, session'[r].stop > 0
                 PROVE  BindsOf(bound', SubSeq(session'[r].prompt, 1, session'[r].stop)) >= 3
    BY DEF StopsInv
  <2>4. CASE r = s
    BY <2>1, <2>2, <2>3, <2>4
  <2>5. CASE r # s
    <3> DEFINE k == SubSeq(session[r].prompt, 1, session[r].stop)
    <3>1. BindsOf(bound, k) >= 3
      BY <1>4, <2>1, <2>3, <2>5 DEF StopsInv
    <3>2. BindsOf(bound', k) >= 3
      <4> HIDE DEF k
      <4> QED
        BY <1>8, <3>1
    <3> QED
      BY <2>1, <2>5, <3>2
  <2> QED
    BY <2>4, <2>5
<1>13. MarksInv'
  <2> SUFFICES ASSUME NEW k \in DOMAIN Store'.entries, Store'.entries[k].demand
               PROVE  BindsOf(bound', k) >= 3
    BY DEF MarksInv
  <2>1. k \in DOMAIN Store.entries /\ Store.entries[k].demand
    BY <1>1 DEF Kept
  <2>2. BindsOf(bound, k) >= 3
    BY <1>4, <2>1 DEF MarksInv
  <2> QED
    BY <1>8, <2>2
<1> QED
  BY <1>7, <1>9, <1>11, <1>12, <1>13 DEF DemandInv

\* A capture at an armed stop (apply_plan).
LEMMA PrefillDemand ==
  ASSUME HostInv, DemandInv, NEW s \in HostSlots, HostPrefill(s)
  PROVE  DemandInv'
<1>1. UNCHANGED <<observed, counts, bound>>
  BY PrefillIs
<1>2. PICK n \in Nat, demand \in BOOLEAN :
              /\ demand => n = session[s].stop /\ n > 0
              /\ MarksFrom(Store', Store, SubSeq(session[s].prompt, 1, n), demand)
              /\ session' = [session EXCEPT ![s] =
                               [prompt |-> session[s].prompt, pos |-> n, active |-> TRUE,
                                stop |-> IF demand THEN 0 ELSE session[s].stop]]
  BY PrefillIs
<1>3. /\ bound \in [HostPrompts -> Nat] /\ \A i \in DOMAIN observed : bound[observed[i]] >= 1
      /\ CountsInv /\ StopsInv /\ MarksInv
  BY DEF DemandInv
<1>4. session \in [HostSlots -> Sess]
  BY DEF HostInv, HostTypes
<1>5. CountsInv' /\ bound' \in [HostPrompts -> Nat] /\ \A i \in DOMAIN observed' : bound'[observed'[i]] >= 1
  BY <1>1, <1>3 DEF CountsInv
<1>6. StopsInv'
  <2> DEFINE d == [prompt |-> session[s].prompt, pos |-> n, active |-> TRUE,
                   stop |-> IF demand THEN 0 ELSE session[s].stop]
  <2>1. session'[s] = d /\ \A r \in HostSlots \ {s} : session'[r] = session[r]
    BY <1>2, <1>4
  <2>2. d.prompt = session[s].prompt /\ (d.stop > 0 => d.stop = session[s].stop)
    OBVIOUS
  <2> HIDE DEF d
  <2>3. \A r \in HostSlots : /\ session'[r].prompt = session[r].prompt
                             /\ session'[r].stop > 0 => session'[r].stop = session[r].stop
    BY <2>1, <2>2
  <2> QED
    BY <1>1, <1>3, <2>3 DEF StopsInv
<1>7. MarksInv'
  <2> SUFFICES ASSUME NEW k \in DOMAIN Store'.entries, Store'.entries[k].demand
               PROVE  BindsOf(bound', k) >= 3
    BY DEF MarksInv
  <2>1. \/ k \in DOMAIN Store.entries /\ Store.entries[k].demand
        \/ k = SubSeq(session[s].prompt, 1, n) /\ demand
    BY <1>2 DEF MarksFrom
  <2>2. CASE k \in DOMAIN Store.entries /\ Store.entries[k].demand
    BY <1>1, <1>3, <2>2 DEF MarksInv
  <2>3. CASE k = SubSeq(session[s].prompt, 1, n) /\ demand
    BY <1>1, <1>2, <1>3, <2>3 DEF StopsInv
  <2> QED
    BY <2>1, <2>2, <2>3
<1> QED
  BY <1>5, <1>6, <1>7 DEF DemandInv

\* The steps that bind and capture nothing.
LEMMA OtherDemand ==
  ASSUME DemandInv, UNCHANGED <<observed, counts, bound>>, Store' = Store \/ Kept(Store', Store),
         \A r \in HostSlots : session'[r] = session[r] \/ session'[r].stop = 0
  PROVE  DemandInv'
<1>1. /\ bound \in [HostPrompts -> Nat] /\ \A i \in DOMAIN observed : bound[observed[i]] >= 1
      /\ CountsInv /\ StopsInv /\ MarksInv
  BY DEF DemandInv
<1>2. CountsInv' /\ bound' \in [HostPrompts -> Nat] /\ \A i \in DOMAIN observed' : bound'[observed'[i]] >= 1
  BY <1>1 DEF CountsInv
<1>3. StopsInv'
  BY <1>1 DEF StopsInv
<1>4. MarksInv'
  <2> SUFFICES ASSUME NEW k \in DOMAIN Store'.entries, Store'.entries[k].demand
               PROVE  BindsOf(bound', k) >= 3
    BY DEF MarksInv
  <2>1. k \in DOMAIN Store.entries /\ Store.entries[k].demand
    BY DEF Kept
  <2> QED
    BY <1>1, <2>1 DEF MarksInv
<1> QED
  BY <1>2, <1>3, <1>4 DEF DemandInv

\* Every step keeps it.
LEMMA DemandNext == HostInv /\ DemandInv /\ [HostNext]_hostVars => DemandInv'
<1> SUFFICES ASSUME HostInv, DemandInv, [HostNext]_hostVars PROVE DemandInv'
  OBVIOUS
<1>1. CASE UNCHANGED hostVars
  <2>1. UNCHANGED <<observed, counts, bound, session>> /\ Store' = Store
    BY <1>1 DEF hostVars, storeVars, Store
  <2> QED
    BY <2>1, OtherDemand
<1>2. ASSUME NEW s \in HostSlots, HostPrefill(s) PROVE DemandInv'
  BY <1>2, PrefillDemand
<1>3. ASSUME NEW s \in HostSlots, HostFinish(s) PROVE DemandInv'
  <2>1. /\ UNCHANGED <<storeVars, observed, counts, bound>>
        /\ \A r \in HostSlots : session'[r] = session[r] \/ session'[r].stop = 0
    BY <1>3, FinishIs
  <2>2. Store' = Store
    BY <2>1 DEF storeVars, Store
  <2> QED
    BY <2>1, <2>2, OtherDemand
<1>4. ASSUME NEW s \in HostSlots, NEW p \in HostPrompts, HostBind(s, p) PROVE DemandInv'
  BY <1>4, BindDemand
<1>5. CASE HostRelease
  <2>1. UNCHANGED <<session, observed, counts, bound>> /\ Kept(Store', Store)
    BY <1>5, ReleaseIs
  <2> QED
    BY <2>1, OtherDemand
<1>6. CASE Panics
  <2>1. /\ UNCHANGED <<storeVars, observed, counts, bound>>
        /\ \A r \in HostSlots : session'[r].stop = 0
    BY <1>6, PanicIs
  <2>2. Store' = Store
    BY <2>1 DEF storeVars, Store
  <2> QED
    BY <2>1, <2>2, OtherDemand
<1> QED
  BY <1>1, <1>2, <1>3, <1>4, <1>5, <1>6 DEF HostNext

\* What is marked as taken on demand heads three of the prompts that were
\* bound (observe_boundary, Armed).
THEOREM DemandIsRepeatedAlways == HostInit /\ [][HostNext]_hostVars => []DemandIsRepeated
<1>1. DemandInv => DemandIsRepeated
  BY DEF DemandInv, MarksInv, Store, DemandIsRepeated, BindsOf
<1> QED
  BY <1>1, HostInvAlways, DemandInit, DemandNext, PTL
=============================================================================
